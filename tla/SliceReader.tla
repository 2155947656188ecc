----------------------------- MODULE SliceReader ------------------------------
(***************************************************************************)
(* gbuf.Reader[T] (reader.go): a reader over a slice that can seek.  One   *)
(* goroutine calls its methods in any order; WriteTo's writer may take any *)
(* number of the items, none, more than there are or a negative number.    *)
(*                                                                         *)
(* reader   the slice s and the index i of the next item, which Seek moves *)
(*          past the end and a negative count of WriteTo's writer below 0  *)
(*          (prevRune is written and never read)                           *)
(* got      the last call and what it returned                             *)
(***************************************************************************)
EXTENDS Integers, Sequences

CONSTANTS
  Source,   (* the slices to read                                             *)
  Room,     (* the lengths of the slices callers pass to Read and ReadAt      *)
  Step,     (* the offsets callers pass to Seek and ReadAt                    *)
  MaxIndex  (* the index from which no caller seeks further on                *)

(* What the constants have to be.                                          *)
SliceReaderAssumption ==
  Source # {} /\ Room \subseteq Nat /\ Step \subseteq Int /\ MaxIndex \in Nat

VARIABLES reader, got

NewReader(s) == [s |-> s, i |-> 0]
NoCall == [op |-> "none", arg |-> 0, n |-> 0, items |-> <<>>, err |-> "nil"]

Init == (\E s \in Source : reader = NewReader(s)) /\ got = NoCall

Outcome(r, n, items, err) == [reader |-> r, n |-> n, items |-> items, err |-> err]
At(r, i) == [r EXCEPT !.i = i]

(* How many items there are to read, and which; r.s[r.i:] panics below 0.  *)
AtEnd(r) == r.i >= Len(r.s)
LenOf(r) == IF AtEnd(r) THEN 0 ELSE Len(r.s) - r.i
Rest(r) == SubSeq(r.s, r.i + 1, Len(r.s))
Prefix(s, k) == SubSeq(s, 1, IF k < Len(s) THEN k ELSE Len(s))
Panic(r) == Outcome(r, 0, <<>>, "panic")

-----------------------------------------------------------------------------
(* What each method does to a reader.                                      *)

(* Mutant: the end is reported with the last items, as io.Reader allows.   *)
SourceReadEOF(r, k) ==
  LET items == Prefix(Rest(r), k) IN
  IF AtEnd(r) THEN Outcome(r, 0, <<>>, "EOF")
  ELSE IF r.i < 0 THEN Panic(r)
  ELSE Outcome(At(r, r.i + Len(items)), Len(items), items,
               IF Len(items) = LenOf(r) THEN "EOF" ELSE "nil")

SourceRead(r, k) ==
  LET items == Prefix(Rest(r), k) IN
  IF AtEnd(r) THEN Outcome(r, 0, <<>>, "EOF")
  ELSE IF r.i < 0 THEN Panic(r)
  ELSE Outcome(At(r, r.i + Len(items)), Len(items), items, "nil")

SourceReadAt(r, k, off) ==
  LET items == Prefix(SubSeq(r.s, off + 1, Len(r.s)), k) IN
  IF off < 0 THEN Outcome(r, 0, <<>>, "negative offset")
  ELSE IF off >= Len(r.s) THEN Outcome(r, 0, <<>>, "EOF")
  ELSE Outcome(r, Len(items), items, IF Len(items) < k THEN "EOF" ELSE "nil")

SourceReadItem(r) ==
  IF AtEnd(r) THEN Outcome(r, 0, <<>>, "EOF")
  ELSE IF r.i < 0 THEN Panic(r)
  ELSE Outcome(At(r, r.i + 1), 1, <<r.s[r.i + 1]>>, "nil")

(* Mutant: the reader may be stepped back from its beginning.              *)
SourceUnreadItemAlways(r) ==
  IF r.i < 0 THEN Outcome(r, 0, <<>>, "at beginning") ELSE Outcome(At(r, r.i - 1), 0, <<>>, "nil")

SourceUnreadItem(r) ==
  IF r.i <= 0 THEN Outcome(r, 0, <<>>, "at beginning") ELSE Outcome(At(r, r.i - 1), 0, <<>>, "nil")

SourceSeek(r, offset, whence) ==
  LET abs == offset + CASE whence = "start" -> 0 [] whence = "current" -> r.i
                        [] whence = "end" -> Len(r.s) [] OTHER -> 0
  IN  IF whence = "bad" THEN Outcome(r, 0, <<>>, "whence")
      ELSE IF abs < 0 THEN Outcome(r, 0, <<>>, "negative position")
      ELSE Outcome(At(r, abs), abs, <<>>, "nil")

(* The writer says it took m of the rest.  More than that is an error that *)
(* is noticed, a negative m is taken for a short write.                    *)
SourceWriteTo(r, m, err) ==
  LET b == Rest(r) IN
  IF AtEnd(r) THEN Outcome(r, 0, <<>>, "nil")
  ELSE IF r.i < 0 THEN Panic(r)
  ELSE IF m > Len(b) THEN Outcome(r, 0, <<>>, "negative count")
  ELSE Outcome(At(r, r.i + m), m, SubSeq(b, 1, m),
               IF m # Len(b) /\ err = "nil" THEN "short write" ELSE err)

-----------------------------------------------------------------------------

Do(op, arg, o) ==
  /\ reader' = o.reader
  /\ got' = [op |-> op, arg |-> arg, n |-> o.n, items |-> o.items, err |-> o.err]

Next ==
  \/ \E k \in Room : \/ Do("Read", k, SourceRead(reader, k))
                     \/ \E off \in Step : Do("ReadAt", k, SourceReadAt(reader, k, off))
  \/ Do("ReadItem", 0, SourceReadItem(reader))
  \/ Do("UnreadItem", 0, SourceUnreadItem(reader))
  \/ \E offset \in Step, whence \in {"start", "current", "end", "bad"} :
       (whence = "current" => reader.i < MaxIndex) /\ Do("Seek", offset, SourceSeek(reader, offset, whence))
  \/ \E m \in -1 .. LenOf(reader) + 1, err \in {"nil", "fault"} :
       Do("WriteTo", m, SourceWriteTo(reader, m, err))
  \/ \E s \in Source : Do("Reset", 0, Outcome(NewReader(s), 0, <<>>, "nil"))

Spec == Init /\ [][Next]_<<reader, got>>

-----------------------------------------------------------------------------

(* Nothing but a writer's negative count brings the index below 0, and     *)
(* only there does a call panic: Seek, UnreadItem and reads past the end   *)
(* keep what the slice expressions need, in whatever order they come.      *)
BelowOnlyBy ==
  [][ /\ reader'.i < 0 /\ reader.i >= 0 => got'.op = "WriteTo" /\ got'.arg < 0
      /\ got'.err = "panic" /\ got' # got => reader.i < 0 ]_<<reader, got>>

=============================================================================
