------------------------------- MODULE RingOps -------------------------------
(***************************************************************************)
(* The circular slice that RingBuffer[T] and RingFilter[T] both carry:     *)
(* three fields (full, write, read) over a slice of fixed length, and what *)
(* each method computes from them.  A ring is a record with the fields of  *)
(* the Go struct; a method is an operator from the ring it finds to the    *)
(* outcome it leaves: the ring afterwards and the values it returns.  The  *)
(* two structs repeat the same code, so the operators are shared and the   *)
(* modules RingBuffer and RingFilter turn them into actions.               *)
(***************************************************************************)
EXTENDS Integers, Sequences

CONSTANTS
  N,      (* len(r.items), fixed by NewRingBuffer / NewRingFilter *)
  Item,   (* the values of the element type T                     *)
  Zero    (* T's zero value, what make and clear put in a slot    *)

ASSUME RingAssumption == N \in Nat \ {0} /\ Zero \in Item

Slot == 0 .. N - 1

(* read leaves Slot through UnreadItem and Seek: Go's % keeps the sign of  *)
(* its left operand.                                                       *)
Ring == [full : BOOLEAN, write : Slot, read : (1 - N) .. (N - 1),
         items : [Slot -> Item]]

NewRing == [full |-> FALSE, write |-> 0, read |-> 0,
            items |-> [j \in Slot |-> Zero]]

-----------------------------------------------------------------------------
(* Go's slices and arithmetic, as far as the methods use them.             *)

(* a % len(r.items) as Go computes it: truncated towards zero.             *)
GoMod(a) == IF a >= 0 THEN a % N ELSE -((-a) % N)

(* items[from:to] as a sequence, and when it can be formed: otherwise the  *)
(* slice expression panics.                                                *)
Legal(from, to) == 0 <= from /\ from <= to /\ to <= N
Slice(items, from, to) == [i \in 1 .. to - from |-> items[from + i - 1]]

(* What copy(dst, s) copies into a dst of length k.                        *)
Prefix(s, k) == SubSeq(s, 1, IF k < Len(s) THEN k ELSE Len(s))

(* copy(items[at:], p) for a p that fits.                                  *)
Overwrite(items, at, p) ==
  [j \in Slot |-> IF at <= j /\ j < at + Len(p) THEN p[j - at + 1] ELSE items[j]]

(* The items before the first one the delimiter function accepts, with the *)
(* function given by the set of items it accepts.                          *)
Before(s, delim) ==
  LET hits == {i \in 1 .. Len(s) : s[i] \in delim}
  IN  IF hits = {} THEN s
      ELSE SubSeq(s, 1, (CHOOSE i \in hits : \A j \in hits : i <= j) - 1)

(* The errors a method makes itself; a stream adds those of its other end. *)
CallErr == {"nil", "unread", "whence", "panic"}

(* What a call leaves behind: the ring, and the count, items and error it  *)
(* returns.  A panic leaves the ring as it is when the panic is raised.    *)
Outcome(r, n, items, err) == [ring |-> r, n |-> n, items |-> items, err |-> err]
Panic(r) == Outcome(r, 0, <<>>, "panic")

-----------------------------------------------------------------------------
(* Len: the number of unread items the ring reports.                       *)
RingLen(r) == IF r.full THEN N ELSE (N + (r.write - r.read)) % N

(* The unread items, oldest first: what a reader is owed.                  *)
Unread(r) == [i \in 1 .. RingLen(r) |-> r.items[(r.read + i - 1) % N]]

-----------------------------------------------------------------------------
(* Writing.  The index updates are apart from the copy because RingFilter  *)
(* calls the process function between the two.                             *)

SettleWithinBounds(r, end) ==
  LET full == r.full \/ (r.write < r.read /\ end >= r.read)
  IN  [r EXCEPT !.full = full, !.write = end,
                !.read = IF full THEN end ELSE @]

(* Mutant: a wrapped write that fills the ring is not noticed.             *)
SettleWrappedUnnoticed(r, end) ==
  LET full == r.full \/ (r.write < r.read /\ end >= r.read)
  IN  [r EXCEPT !.full = full, !.write = end % N,
                !.read = IF full THEN end % N ELSE @]

SettleWrapped(r, end) ==
  LET full == \/ r.full
              \/ r.write < r.read /\ end >= r.read
              \/ end % N >= r.read
  IN  [r EXCEPT !.full = full, !.write = end % N,
                !.read = IF full THEN end % N ELSE @]

(* writeWithinCapacity's choice between the two.                           *)
Settle(r, end) ==
  IF end < N THEN SettleWithinBounds(r, end) ELSE SettleWrapped(r, end)

(* The copy of a p shorter than the ring: to the end of the slice and, if  *)
(* it does not fit there, on from slot 0.                                  *)
Store(r, p) ==
  LET end == r.write + Len(p)
  IN  [r EXCEPT !.items =
         IF end < N THEN Overwrite(@, r.write, p)
         ELSE [j \in Slot |-> IF j >= r.write THEN p[j - r.write + 1]
                              ELSE IF j < end % N THEN p[N - r.write + j + 1]
                              ELSE r.items[j]]]

(* A p as long as the ring or longer: only its last N items are kept, laid *)
(* out from slot 0 whatever the write index is.                            *)
StoreWhole(r, p) ==
  [r EXCEPT !.items = [j \in Slot |-> p[Len(p) - N + j + 1]],
            !.read = r.write, !.full = TRUE]

RingWrite(r, p) ==
  IF Len(p) < N THEN Outcome(Settle(Store(r, p), r.write + Len(p)), Len(p), <<>>, "nil")
  ELSE Outcome(StoreWhole(r, p), N, <<>>, "nil")

(* Mutant: writing to a full ring leaves the read index behind.            *)
RingWriteItemBehind(r, x) ==
  LET pos == (r.write + 1) % N
  IN  Outcome([full  |-> r.full \/ pos = r.read,
               write |-> pos,
               read  |-> r.read,
               items |-> [r.items EXCEPT ![r.write] = x]], 0, <<>>, "nil")

RingWriteItem(r, x) ==
  LET pos == (r.write + 1) % N
  IN  Outcome([full  |-> r.full \/ pos = r.read,
               write |-> pos,
               read  |-> IF r.full THEN pos ELSE r.read,
               items |-> [r.items EXCEPT ![r.write] = x]], 0, <<>>, "nil")

-----------------------------------------------------------------------------
(* Reading.                                                                *)

(* The slices read >= write joins: to the end of the ring, then from its   *)
(* start up to the write index.                                            *)
Wrapped(r) == Slice(r.items, r.read, N) \o Slice(r.items, 0, r.write)

RingRead(r, k) ==
  IF k = 0 \/ RingLen(r) = 0 THEN Outcome(r, 0, <<>>, "nil")
  ELSE IF r.read >= r.write THEN
    LET got == Prefix(Wrapped(r), k)
    IN  Outcome([r EXCEPT !.full = FALSE, !.read = (r.read + Len(got)) % N],
                Len(got), got, "nil")
  ELSE IF ~ Legal(r.read, r.write) THEN Panic(r)
  ELSE
    LET got == Prefix(Slice(r.items, r.read, r.write), k)
    IN  Outcome([r EXCEPT !.read = r.read + Len(got)], Len(got), got, "nil")

RingReadItem(r) ==
  IF r.read \notin Slot THEN Panic(r)
  ELSE Outcome([r EXCEPT !.read = (r.read + 1) % N, !.full = FALSE],
               1, <<r.items[r.read]>>, "nil")

RingValue(r) ==
  IF r.read >= r.write THEN
    Outcome(r, N, Slice(r.items, r.read, N) \o Slice(r.items, 0, r.read), "nil")
  ELSE IF ~ Legal(r.read, r.write) THEN Panic(r)
  ELSE LET all == Slice(r.items, r.read, r.write)
       IN  Outcome([r EXCEPT !.read = r.write], Len(all), all, "nil")

(* Next(n).  make has zeroed the n items Read is given to fill.            *)
RingNext(r, n) ==
  IF n <= 0 THEN Outcome(r, 0, <<>>, "nil")
  ELSE IF n > RingLen(r) THEN RingValue(r)
  ELSE LET o == RingRead(r, n)
       IN  [o EXCEPT !.n = n,
                     !.items = IF o.err = "panic" THEN @
                               ELSE [i \in 1 .. n |-> IF i <= Len(@) THEN @[i] ELSE Zero]]

RingReadItems(r, delim) ==
  LET line == Before(IF r.read >= r.write THEN Wrapped(r)
                     ELSE Slice(r.items, 0, r.write), delim)
  IN  IF line = <<>> THEN Outcome(r, 0, <<>>, "nil")
      ELSE Outcome([r EXCEPT !.read = GoMod(r.read + Len(line)), !.full = FALSE],
                   Len(line), line, "nil")

(* Mutant: the step back is not reduced modulo the length.                 *)
RingUnreadItemUnwrapped(r) ==
  IF r.full THEN Outcome(r, 0, <<>>, "unread")
  ELSE Outcome([r EXCEPT !.read = r.read - 1], 0, <<>>, "nil")

RingUnreadItem(r) ==
  IF r.full THEN Outcome(r, 0, <<>>, "unread")
  ELSE Outcome([r EXCEPT !.read = GoMod(r.read - 1)], 0, <<>>, "nil")

RingSeek(r, offset, whence) ==
  CASE whence = "end" ->
         Outcome([r EXCEPT !.read = GoMod(r.write + offset)],
                 GoMod(r.write + offset), <<>>, "nil")
    [] whence \in {"start", "current"} ->
         Outcome([r EXCEPT !.read = GoMod(r.read + offset)],
                 GoMod(r.read + offset), <<>>, "nil")
    [] OTHER -> Outcome(r, 0, <<>>, "whence")

-----------------------------------------------------------------------------
(* Clearing.                                                               *)

RingReset(r) ==
  [r EXCEPT !.full = FALSE, !.write = 0, !.read = 0,
            !.items = [j \in Slot |-> Zero]]

(* clear(r.items[r.read : r.read+n])                                       *)
RingClear(r, n) ==
  IF ~ Legal(r.read, r.read + n) THEN Panic(r)
  ELSE Outcome([r EXCEPT !.items = [j \in Slot |->
                  IF r.read <= j /\ j < r.read + n THEN Zero ELSE r.items[j]]],
               0, <<>>, "nil")

RingTruncate(r, n) ==
  IF n <= 0 \/ n > RingLen(r) THEN Outcome(RingReset(r), 0, <<>>, "nil")
  ELSE RingClear(r, n)

-----------------------------------------------------------------------------
(* Streaming: what one Read or Write of the other end does to the ring.    *)

(* ReadFrom: the reader put chunk into r.items[r.write:].                  *)
Receive(r, chunk) ==
  [r EXCEPT !.items = Overwrite(@, r.write, chunk),
            !.full = @ \/ (r.write < r.read /\ r.write + Len(chunk) >= r.read)]

(* ReadFrom: the chunk filled the ring exactly.                            *)
Fill(r, num) ==
  IF N - (r.write - r.read) = num THEN [r EXCEPT !.full = TRUE, !.read = r.write]
  ELSE r

(* Mutant: the write index is not wrapped round.                           *)
AdvancePastEnd(r, num) ==
  [r EXCEPT !.write = r.write + num,
            !.read = IF r.full THEN r.write + num ELSE @]

(* ReadFrom: move the write index past the chunk.                          *)
Advance(r, num) ==
  [r EXCEPT !.write = (r.write + num) % N,
            !.read = IF r.full THEN (r.write + num) % N ELSE @]

(* Mutant: the read index is not wrapped round.                            *)
SentPastEnd(r, num) == [r EXCEPT !.full = FALSE, !.read = r.read + num]

(* WriteTo: the writer took num of the items it was handed.                *)
Sent(r, num) == [r EXCEPT !.full = FALSE, !.read = (r.read + num) % N]

=============================================================================
