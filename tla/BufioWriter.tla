----------------------------- MODULE BufioWriter -----------------------------
(***************************************************************************)
(* gbufio.Writer[T] (gbufio/writer.go): a buffer in front of a slow        *)
(* writer.  One goroutine calls its methods in any order; each call it     *)
(* makes on the underlying writer, or on the reader given to ReadFrom, is  *)
(* a step of its own, in which that other end takes or delivers any part   *)
(* of what it may and returns any error.                                   *)
(*                                                                         *)
(* writer   the struct; readerFrom says that b.wr has a ReadFrom method    *)
(* call     the method in progress: the line it waits at, the slice it was *)
(*          given and the part of it still to be written, its count, and   *)
(*          for ReadFrom the items read so far (in given), what the reader *)
(*          has left, the empty reads in a row and whether it has ended    *)
(* result   the last finished call and what it returned                    *)
(* taken    what the underlying writer took in the last step               *)
(***************************************************************************)
EXTENDS Integers, Sequences

CONSTANTS
  Item, Zero,                 (* the values of T, and its zero value        *)
  Size,                       (* len(b.buf)                                 *)
  MaxConsecutiveEmptyReads,   (* 100 in the code                            *)
  Input,                      (* the slices callers pass to Write           *)
  Length,                     (* how many items a reader given to ReadFrom has *)
  Chunk                       (* the slices such a reader delivers at a time, *)
                              (* and callers put into AvailableBuffer        *)

ASSUME WriterAssumption ==
  /\ Zero \in Item
  /\ Size \in Nat \ {0} /\ MaxConsecutiveEmptyReads \in Nat \ {0}
  /\ Input \subseteq Seq(Item) /\ Length \subseteq Nat /\ Chunk \subseteq Seq(Item)

VARIABLES writer, call, result, taken

vars == <<writer, call, result, taken>>

NewWriter(readerFrom) ==
  [buf |-> [i \in 1 .. Size |-> Zero], n |-> 0, err |-> "nil", readerFrom |-> readerFrom]

NoCall == [op |-> "none", at |-> "none", given |-> <<>>, rest |-> <<>>, count |-> 0,
           left |-> 0, empties |-> 0, eof |-> FALSE]
NoResult == [op |-> "none", given |-> <<>>, n |-> 0, err |-> "nil"]

Init ==
  /\ \E readerFrom \in BOOLEAN : writer = NewWriter(readerFrom)
  /\ call = NoCall /\ result = NoResult /\ taken = <<>>

Available(w) == Size - w.n
Buffered(w) == SubSeq(w.buf, 1, w.n)

-----------------------------------------------------------------------------
(* What a method does to the struct.                                       *)

(* copy(b.buf[b.n:], p) and b.n += len(p), for a p that fits.              *)
Stored(w, p) ==
  [w EXCEPT !.buf = [i \in 1 .. Size |->
                       IF i \in w.n + 1 .. w.n + Len(p) THEN p[i - w.n] ELSE w.buf[i]],
            !.n = @ + Len(p)]

(* Mutant: the items the writer did not take are not moved to the front.   *)
FlushedInPlace(w, num, err) ==
  LET why == IF num < w.n /\ err = "nil" THEN "short" ELSE err IN
  IF why = "nil" THEN [w EXCEPT !.n = 0]
  ELSE [w EXCEPT !.n = @ - num, !.err = why]

(* Flush, after the writer took num of the buffered items and returned err.*)
Flushed(w, num, err) ==
  LET why == IF num < w.n /\ err = "nil" THEN "short" ELSE err
      moved == [i \in 1 .. Size |-> IF i <= w.n - num THEN w.buf[i + num] ELSE w.buf[i]]
  IN  IF why = "nil" THEN [w EXCEPT !.n = 0]
      ELSE [w EXCEPT !.buf = IF num \in 1 .. w.n - 1 THEN moved ELSE @,
                     !.n = @ - num, !.err = why]

-----------------------------------------------------------------------------
(* How a method goes on: it waits for the other end, or it returns.        *)

Wait(w, c, at) ==
  /\ writer' = w
  /\ call' = [c EXCEPT !.at = at]
  /\ UNCHANGED result

Return(w, c, n, err) ==
  /\ writer' = w
  /\ call' = NoCall
  /\ result' = [op |-> c.op, given |-> c.given, n |-> n, err |-> err]

(* Write's loop: while p does not fit, it goes out directly if nothing is  *)
(* buffered, and otherwise tops up the buffer, which is flushed.           *)
WriteLoop(w, c) ==
  LET room == Available(w) IN
  \/ w.err # "nil" /\ Return(w, c, c.count, w.err)
  \/ /\ w.err = "nil" /\ Len(c.rest) <= room
     /\ Return(Stored(w, c.rest), c, c.count + Len(c.rest), "nil")
  \/ /\ w.err = "nil" /\ Len(c.rest) > room /\ w.n = 0
     /\ Wait(w, c, "direct")
  \/ /\ w.err = "nil" /\ Len(c.rest) > room /\ w.n # 0
     /\ Wait(Stored(w, SubSeq(c.rest, 1, room)),
             [c EXCEPT !.rest = SubSeq(@, room + 1, Len(@)), !.count = @ + room], "flush")

(* WriteItem, with room for the item or with the error that made none.     *)
WriteItemEnd(w, c) ==
  IF w.err # "nil" THEN Return(w, c, 0, w.err) ELSE Return(Stored(w, c.given), c, 0, "nil")

(* ReadFrom's loop, once there is room: the underlying ReadFrom takes over *)
(* when nothing is buffered.                                               *)
ReadFromRead(w, c) ==
  IF w.readerFrom /\ w.n = 0 THEN Wait(w, c, "pass on")
  ELSE Wait(w, [c EXCEPT !.empties = 0], "read")

ReadFromLoop(w, c) ==
  IF Available(w) = 0 THEN Wait(w, c, "flush") ELSE ReadFromRead(w, c)

(* What follows a Flush: a full buffer at the end of the stream is flushed *)
(* as the last thing ReadFrom does.                                        *)
AfterFlush(w, c) ==
  \/ c.op = "Write" /\ WriteLoop(w, c)
  \/ c.op = "WriteItem" /\ WriteItemEnd(w, c)
  \/ c.op = "Flush" /\ Return(w, c, 0, w.err)
  \/ /\ c.op = "ReadFrom"
     /\ IF c.eof \/ w.err # "nil" THEN Return(w, c, c.count, w.err) ELSE ReadFromRead(w, c)

-----------------------------------------------------------------------------
(* The methods.                                                            *)

Begins(op, p) ==
  /\ call = NoCall
  /\ taken' = <<>>

Called(op, p) == [NoCall EXCEPT !.op = op, !.given = p, !.rest = p]

Write(p) == Begins("Write", p) /\ WriteLoop(writer, Called("Write", p))

(* Mutant: the buffer is taken for full one item too late.                 *)
WriteItemTooLate(x) ==
  /\ Begins("WriteItem", <<x>>)
  /\ LET c == Called("WriteItem", <<x>>) IN
     IF writer.err = "nil" /\ Available(writer) < 0 THEN Wait(writer, c, "flush")
     ELSE WriteItemEnd(writer, c)

WriteItem(x) ==
  /\ Begins("WriteItem", <<x>>)
  /\ LET c == Called("WriteItem", <<x>>) IN
     IF writer.err = "nil" /\ Available(writer) <= 0 THEN Wait(writer, c, "flush")
     ELSE WriteItemEnd(writer, c)

Flush ==
  /\ Begins("Flush", <<>>)
  /\ LET c == Called("Flush", <<>>) IN
     IF writer.err # "nil" \/ writer.n = 0 THEN Return(writer, c, 0, writer.err)
     ELSE Wait(writer, c, "flush")

(* A reader with length items left.                                        *)
ReadFrom(length) ==
  /\ Begins("ReadFrom", <<>>)
  /\ LET c == [Called("ReadFrom", <<>>) EXCEPT !.left = length] IN
     IF writer.err # "nil" THEN Return(writer, c, 0, writer.err)
     ELSE ReadFromLoop(writer, c)

(* Reset to another writer; to itself it does nothing.                     *)
Reset ==
  /\ Begins("Reset", <<>>)
  /\ \/ \E readerFrom \in BOOLEAN :
          Return([writer EXCEPT !.n = 0, !.err = "nil", !.readerFrom = readerFrom],
                 Called("Reset", <<>>), 0, "nil")
     \/ Return(writer, Called("Reset itself", <<>>), 0, "nil")

(* AvailableBuffer lends the caller the spare slots, and it appends p there*)
AvailableBuffer(p) ==
  /\ Begins("AvailableBuffer", <<>>)
  /\ Len(p) <= Available(writer)
  /\ Return([writer EXCEPT !.buf = Stored(writer, p).buf],
            Called("AvailableBuffer", <<>>), 0, "nil")

-----------------------------------------------------------------------------
(* The turns of the other end.                                             *)

SinkErr == {"nil", "fault"}
SourceErr == {"nil", "EOF", "source fault"}

(* b.wr.Write(b.buf[0:b.n]) takes num items.                               *)
FlushTurn(num, err) ==
  /\ call.at = "flush" /\ num <= writer.n
  /\ taken' = SubSeq(Buffered(writer), 1, num)
  /\ AfterFlush(Flushed(writer, num, err), call)

(* Mutant: a direct write counts what was offered, not what was taken.     *)
DirectTurnAll(num, err) ==
  /\ call.at = "direct" /\ num <= Len(call.rest)
  /\ taken' = SubSeq(call.rest, 1, num)
  /\ WriteLoop([writer EXCEPT !.err = err],
               [call EXCEPT !.rest = SubSeq(@, num + 1, Len(@)), !.count = @ + Len(call.rest)])

(* b.wr.Write(p), past the empty buffer.                                   *)
DirectTurn(num, err) ==
  /\ call.at = "direct" /\ num <= Len(call.rest)
  /\ taken' = SubSeq(call.rest, 1, num)
  /\ WriteLoop([writer EXCEPT !.err = err],
               [call EXCEPT !.rest = SubSeq(@, num + 1, Len(@)), !.count = @ + num])

(* Mutant: after too many empty reads it only counts from the start again. *)
ReadTurnForEver(chunk, err) ==
  /\ call.at = "read"
  /\ Len(chunk) <= Available(writer) /\ Len(chunk) <= call.left
  /\ err = "EOF" => Len(chunk) = call.left
  /\ taken' = <<>>
  /\ LET w == Stored(writer, chunk)
         c == [call EXCEPT !.given = @ \o chunk, !.left = @ - Len(chunk),
                           !.count = @ + Len(chunk), !.eof = err = "EOF"]
     IN  \/ /\ err = "nil" /\ chunk = <<>>
            /\ Wait(w, [c EXCEPT !.empties = (@ + 1) % MaxConsecutiveEmptyReads], "read")
         \/ err = "nil" /\ chunk # <<>> /\ ReadFromLoop(w, c)
         \/ err = "source fault" /\ Return(w, c, c.count, err)
         \/ /\ err = "EOF"
            /\ IF Available(w) = 0 THEN Wait(w, c, "flush") ELSE Return(w, c, c.count, "nil")

(* r.Read(b.buf[b.n:]) delivers chunk; what it delivers is kept whatever   *)
(* err says.                                                               *)
ReadTurn(chunk, err) ==
  /\ call.at = "read"
  /\ Len(chunk) <= Available(writer) /\ Len(chunk) <= call.left
  /\ err = "EOF" => Len(chunk) = call.left
  /\ taken' = <<>>
  /\ LET w == Stored(writer, chunk)
         c == [call EXCEPT !.given = @ \o chunk, !.left = @ - Len(chunk),
                           !.count = @ + Len(chunk), !.eof = err = "EOF"]
     IN  \/ /\ err = "nil" /\ chunk = <<>>
            /\ IF call.empties + 1 = MaxConsecutiveEmptyReads
               THEN Return(w, c, c.count, "no progress")
               ELSE Wait(w, [c EXCEPT !.empties = @ + 1], "read")
         \/ err = "nil" /\ chunk # <<>> /\ ReadFromLoop(w, c)
         \/ err = "source fault" /\ Return(w, c, c.count, err)
         \/ /\ err = "EOF"
            /\ IF Available(w) = 0 THEN Wait(w, c, "flush") ELSE Return(w, c, c.count, "nil")

(* b.wr.ReadFrom(r): the reader's items go to the underlying writer, whose *)
(* error, also the reader's, stays in b.err.                               *)
PassOnTurn(chunk, err) ==
  /\ call.at = "pass on" /\ Len(chunk) <= call.left
  /\ taken' = chunk
  /\ LET c == [call EXCEPT !.given = @ \o chunk, !.count = @ + Len(chunk)]
     IN  Return([writer EXCEPT !.err = err], c, c.count, err)

-----------------------------------------------------------------------------
(* Any caller: every method, with any argument, in any order.              *)

Calling ==
  \/ \E p \in Input : Write(p)
  \/ \E x \in Item : WriteItem(x)
  \/ Flush
  \/ \E length \in Length : ReadFrom(length)
  \/ Reset
  \/ \E p \in Chunk : AvailableBuffer(p)

Turn ==
  \/ \E num \in 0 .. writer.n, err \in SinkErr : FlushTurn(num, err)
  \/ \E num \in 0 .. Len(call.rest), err \in SinkErr : DirectTurn(num, err)
  \/ \E chunk \in Chunk, err \in SourceErr : ReadTurn(chunk, err)
  \/ \E chunk \in Chunk, err \in SinkErr : PassOnTurn(chunk, err)

Next == Calling \/ Turn

Spec == Init /\ [][Next]_vars

=============================================================================
