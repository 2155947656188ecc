----------------------------- MODULE BufioReader -----------------------------
(***************************************************************************)
(* gbufio.Reader[T] (gbufio/reader.go): a buffer behind a reader.  One     *)
(* goroutine calls its methods in any order; each Read it makes on the     *)
(* underlying reader, and each Write on the writer given to WriteTo, is a  *)
(* step of its own, in which that other end delivers or takes any part of  *)
(* what it may and returns any error.                                      *)
(*                                                                         *)
(* reader   the struct: buf, the read and write positions r and w, err,    *)
(*          and last, which says that lastItem is not nil (what it points  *)
(*          to is never used, see UnreadItem)                              *)
(* left     how many items the underlying reader still has                 *)
(* call     the method in progress: the line it waits at, its argument n   *)
(*          (for Discard what remains of it) and delim, the place ReadSlice*)
(*          searches from, the empty reads in a row, the items it has      *)
(*          gathered or moved so far, their count for WriteTo, ReadLine's  *)
(*          isPrefix, and whether WriteTo can leave the rest to others     *)
(* result   the call that has just finished and what it returned           *)
(***************************************************************************)
EXTENDS Integers, Sequences

CONSTANTS
  Item, Zero,                 (* the values of T, and its zero value          *)
  Size,                       (* len(b.buf)                                   *)
  MaxConsecutiveEmptyReads,   (* 100 in the code                              *)
  Count,                      (* the counts and lengths callers pass          *)
  Length,                     (* how many items an underlying reader has      *)
  Chunk                       (* the slices it may deliver at a time         *)

ASSUME ReaderAssumption ==
  /\ Zero \in Item
  /\ Size \in Nat \ {0} /\ MaxConsecutiveEmptyReads \in Nat \ {0}
  /\ Count \subseteq Int /\ Length \subseteq Nat
  /\ Chunk \subseteq Seq(Item) /\ <<>> \in Chunk

VARIABLES reader, left, call, result

vars == <<reader, left, call, result>>

NewReader ==
  [buf |-> [i \in 1 .. Size |-> Zero], r |-> 0, w |-> 0, err |-> "nil", last |-> FALSE]

NoCall == [op |-> "none", at |-> "none", n |-> 0, delim |-> Zero, from |-> 0,
           empties |-> 0, got |-> <<>>, count |-> 0, prefix |-> FALSE, direct |-> FALSE]
NoResult == [op |-> "none", n |-> 0, delim |-> Zero, items |-> <<>>, count |-> 0,
             prefix |-> FALSE, err |-> "nil"]
Called(op, n, delim) == [NoCall EXCEPT !.op = op, !.n = n, !.delim = delim]

Init ==
  /\ reader = NewReader
  /\ left \in Length
  /\ call = NoCall /\ result = NoResult

Smaller(a, b) == IF a < b THEN a ELSE b
Buffered(rd) == rd.w - rd.r
Unread(rd) == SubSeq(rd.buf, rd.r + 1, rd.w)
SourceErr == {"nil", "EOF", "fault"}
SinkErr == {"nil", "sink fault"}

-----------------------------------------------------------------------------
(* How a method ends, or goes on.                                          *)

Return(rd, c, items, count, err) ==
  /\ reader' = rd
  /\ call' = NoCall
  /\ result' = [op |-> c.op, n |-> c.n, delim |-> c.delim, items |-> items,
                count |-> count, prefix |-> c.prefix, err |-> err]

Wait(rd, c, at) == reader' = rd /\ call' = [c EXCEPT !.at = at] /\ result' = NoResult

ErrRead(rd) == [rd EXCEPT !.err = "nil"]
Skip(rd, n) == [rd EXCEPT !.r = @ + n]
Forget(rd) == [rd EXCEPT !.last = FALSE]

(* copy(b.buf[b.w:], chunk) and b.w += len(chunk)                          *)
Stored(rd, chunk) ==
  [rd EXCEPT !.buf = [i \in 1 .. Size |->
                        IF i \in rd.w + 1 .. rd.w + Len(chunk) THEN chunk[i - rd.w]
                        ELSE rd.buf[i]],
             !.w = @ + Len(chunk)]

(* Mutant: the read position stays where it was.                           *)
SlidHalfway(rd) ==
  IF rd.r = 0 THEN rd
  ELSE [rd EXCEPT !.buf = [i \in 1 .. Size |->
                             IF i <= Buffered(rd) THEN rd.buf[i + rd.r] ELSE rd.buf[i]],
                  !.w = @ - rd.r]

(* fill slides what is unread to the start of the buffer.                  *)
Slid(rd) ==
  IF rd.r = 0 THEN rd
  ELSE [rd EXCEPT !.buf = [i \in 1 .. Size |->
                             IF i <= Buffered(rd) THEN rd.buf[i + rd.r] ELSE rd.buf[i]],
                  !.w = @ - rd.r, !.r = 0]

(* fill, up to its first Read; there has to be room.                       *)
Fill(rd, c) ==
  IF Slid(rd).w >= Size THEN Return(Slid(rd), c, c.got, c.count, "full panic")
  ELSE Wait(Slid(rd), [c EXCEPT !.empties = 0], "fill")

(* Mutant: fill gives up without saying so.                                *)
GivenUpSilently(rd) == rd

GivenUp(rd) == [rd EXCEPT !.err = "no progress"]

(* fill's Read delivers chunk with err, and is tried again if it delivered *)
(* neither; at the end of fill the method goes on with Resume.             *)
FillRead(Resume(_, _), chunk, err) ==
  /\ call.at = "fill"
  /\ Len(chunk) <= Size - reader.w /\ Len(chunk) <= left
  /\ err = "EOF" => Len(chunk) = left
  /\ left' = left - Len(chunk)
  /\ LET rd == Stored(reader, chunk) IN
     \/ err # "nil" /\ Resume([rd EXCEPT !.err = err], call)
     \/ err = "nil" /\ chunk # <<>> /\ Resume(rd, call)
     \/ /\ err = "nil" /\ chunk = <<>>
        /\ IF call.empties + 1 = MaxConsecutiveEmptyReads
           THEN Resume(GivenUp(rd), call)
           ELSE Wait(rd, [call EXCEPT !.empties = @ + 1], "fill")

(* The underlying Read returns a negative count.                           *)
FillNegative ==
  /\ call.at = "fill"
  /\ Return(reader, call, call.got, call.count, "negative read")
  /\ UNCHANGED left

-----------------------------------------------------------------------------
(* Peek, Discard and ReadItem, from the head of their loop.                *)

PeekLoop(rd, c) ==
  LET short == Buffered(rd) < c.n IN
  IF short /\ Buffered(rd) < Size /\ rd.err = "nil" THEN Fill(rd, c)
  ELSE IF c.n > Size THEN Return(rd, c, Unread(rd), 0, "buffer full")
  ELSE IF short THEN Return(ErrRead(rd), c, Unread(rd), 0, rd.err)
  ELSE Return(rd, c, SubSeq(Unread(rd), 1, c.n), 0, "nil")

Peek(n) ==
  /\ call = NoCall /\ UNCHANGED left
  /\ LET c == Called("Peek", n, Zero) IN
     IF n < 0 THEN Return(reader, c, <<>>, 0, "negative count") ELSE PeekLoop(Forget(reader), c)

(* After fill, or with something buffered.  What has been discarded is     *)
(* n - remain in the code; here c.n is what remains and c.count the rest.  *)
DiscardSkip(rd, c) ==
  LET skip == Smaller(Buffered(rd), c.n)
      d == [c EXCEPT !.n = @ - skip, !.count = @ + skip]
  IN  IF d.n = 0 THEN Return(Skip(rd, skip), d, <<>>, d.count, "nil")
      ELSE IF rd.err # "nil" THEN Return(ErrRead(Skip(rd, skip)), d, <<>>, d.count, rd.err)
      ELSE Fill(Skip(rd, skip), d)

Discard(n) ==
  /\ call = NoCall /\ UNCHANGED left
  /\ LET c == Called("Discard", n, Zero) IN
     IF n < 0 THEN Return(reader, c, <<>>, 0, "negative count")
     ELSE IF n = 0 THEN Return(reader, c, <<>>, 0, "nil")
     ELSE IF Buffered(reader) = 0 THEN Fill(Forget(reader), c)
     ELSE DiscardSkip(Forget(reader), c)

ReadItemLoop(rd, c) ==
  IF Buffered(rd) > 0
  THEN Return([Skip(rd, 1) EXCEPT !.last = TRUE], c, <<rd.buf[rd.r + 1]>>, 0, "nil")
  ELSE IF rd.err # "nil" THEN Return(ErrRead(rd), c, <<>>, 0, rd.err)
  ELSE Fill(rd, c)

ReadItem == call = NoCall /\ UNCHANGED left /\ ReadItemLoop(reader, Called("ReadItem", 0, Zero))

-----------------------------------------------------------------------------
(* Read(p) with len(p) = k: at most one Read of the underlying reader.     *)

CopyOut(rd, c) ==
  LET n == Smaller(c.n, Buffered(rd)) IN
  Return([Skip(rd, n) EXCEPT !.last = TRUE], c, SubSeq(Unread(rd), 1, n), 0, "nil")

Read(k) ==
  /\ call = NoCall /\ k >= 0 /\ UNCHANGED left
  /\ LET c == Called("Read", k, Zero) IN
     \/ k = 0 /\ Buffered(reader) > 0 /\ Return(reader, c, <<>>, 0, "nil")
     \/ /\ Buffered(reader) = 0 /\ (k = 0 \/ reader.err # "nil")
        /\ Return(ErrRead(reader), c, <<>>, 0, reader.err)
     \/ k > 0 /\ Buffered(reader) > 0 /\ CopyOut(reader, c)

(* Nothing buffered: into p if it is as long as the buffer, and otherwise  *)
(* into the buffer, from its start.                                        *)
ReadThrough(k, chunk, err) ==
  /\ call = NoCall /\ k > 0
  /\ Buffered(reader) = 0 /\ reader.err = "nil"
  /\ Len(chunk) <= left /\ (err = "EOF" => Len(chunk) = left)
  /\ left' = left - Len(chunk)
  /\ LET c == Called("Read", k, Zero)
         rd == [Stored([reader EXCEPT !.r = 0, !.w = 0], chunk) EXCEPT !.err = err]
     IN  \/ /\ k >= Size /\ Len(chunk) <= k
            /\ Return([reader EXCEPT !.last = @ \/ chunk # <<>>], c, chunk, 0, err)
         \/ k < Size /\ chunk = <<>> /\ Return(ErrRead(rd), c, <<>>, 0, err)
         \/ k < Size /\ Len(chunk) \in 1 .. Size /\ CopyOut(rd, c)

(* A negative count panics, but the error has been assigned by then.       *)
ReadNegative(k, err) ==
  /\ call = NoCall /\ k > 0 /\ UNCHANGED left
  /\ Buffered(reader) = 0 /\ reader.err = "nil"
  /\ LET rd == IF k >= Size THEN reader ELSE [reader EXCEPT !.r = 0, !.w = 0] IN
     Return([rd EXCEPT !.err = err], Called("Read", k, Zero), <<>>, 0, "negative read")

-----------------------------------------------------------------------------
(* UnreadItem refuses when there is a last item.  When there is none it    *)
(* steps back, or makes room in an empty buffer, and then dereferences the *)
(* nil lastItem.                                                           *)
UnreadItem ==
  /\ call = NoCall /\ UNCHANGED left
  /\ LET c == Called("UnreadItem", 0, Zero) IN
     IF reader.last \/ (reader.r = 0 /\ reader.w > 0)
     THEN Return(reader, c, <<>>, 0, "invalid use")
     ELSE Return(IF reader.r > 0 THEN Skip(reader, -1) ELSE [reader EXCEPT !.w = 1],
                 c, <<>>, 0, "nil pointer")

(* Reset to another reader; to itself it does nothing.                     *)
Reset ==
  /\ call = NoCall
  /\ \/ /\ left' \in Length
        /\ Return([NewReader EXCEPT !.buf = reader.buf], Called("Reset", 0, Zero), <<>>, 0, "nil")
     \/ UNCHANGED left /\ Return(reader, Called("Reset itself", 0, Zero), <<>>, 0, "nil")

-----------------------------------------------------------------------------
(* WriteTo.  direct says that the underlying reader has a WriteTo, or the  *)
(* writer a ReadFrom.                                                      *)
WriteTo(direct) ==
  /\ call = NoCall /\ UNCHANGED left
  /\ Wait(Forget(reader), [Called("WriteTo", 0, Zero) EXCEPT !.direct = direct], "first")

WriteToLoop(rd, c) ==
  IF Buffered(rd) > 0 THEN Wait(rd, c, "write")
  ELSE Return(ErrRead(rd), c, c.got, c.count, IF rd.err = "EOF" THEN "nil" ELSE rd.err)

(* writeBuf: the writer takes num of the buffered items.                   *)
WriteBufTurn(num, err) ==
  /\ call.at \in {"first", "write"} /\ num <= Buffered(reader) /\ UNCHANGED left
  /\ LET rd == Skip(reader, num)
         c == [call EXCEPT !.got = @ \o SubSeq(Unread(reader), 1, num), !.count = @ + num]
     IN  \/ err # "nil" /\ Return(rd, c, c.got, c.count, err)
         \/ /\ err = "nil" /\ call.at = "first"
            /\ IF c.direct THEN Wait(rd, c, "direct")
               ELSE IF Buffered(rd) < Size THEN Fill(rd, c)
               ELSE WriteToLoop(rd, c)
         \/ err = "nil" /\ call.at = "write" /\ Fill(rd, c)

WriteBufNegative ==
  /\ call.at \in {"first", "write"} /\ UNCHANGED left
  /\ Return(reader, call, call.got, call.count, "negative write")

(* The two other ends move the items between themselves.                   *)
DirectTurn(chunk, err) ==
  /\ call.at = "direct" /\ Len(chunk) <= left
  /\ left' = left - Len(chunk)
  /\ Return(reader, call, call.got \o chunk, call.count + Len(chunk), err)

-----------------------------------------------------------------------------
(* Any caller: every method, with any argument, in any order.              *)

Resume(rd, c) ==
  \/ c.op = "Peek" /\ PeekLoop(rd, c)
  \/ c.op = "Discard" /\ DiscardSkip(rd, c)
  \/ c.op = "ReadItem" /\ ReadItemLoop(rd, c)
  \/ c.op = "WriteTo" /\ WriteToLoop(rd, c)

FillTurn(chunk, err) == FillRead(Resume, chunk, err)

Calling ==
  \/ \E n \in Count : Peek(n) \/ Discard(n) \/ Read(n)
  \/ \E n \in Count, err \in SourceErr : ReadNegative(n, err)
  \/ \E n \in Count, chunk \in Chunk, err \in SourceErr : ReadThrough(n, chunk, err)
  \/ ReadItem
  \/ UnreadItem
  \/ Reset
  \/ \E direct \in BOOLEAN : WriteTo(direct)

Turn ==
  \/ \E chunk \in Chunk, err \in SourceErr : FillTurn(chunk, err)
  \/ FillNegative
  \/ \E num \in 0 .. Size, err \in SinkErr : WriteBufTurn(num, err)
  \/ WriteBufNegative
  \/ \E chunk \in Chunk, err \in SinkErr : DirectTurn(chunk, err)

Next == Calling \/ Turn

Spec == Init /\ [][Next]_vars

=============================================================================
