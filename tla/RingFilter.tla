------------------------------ MODULE RingFilter ------------------------------
(***************************************************************************)
(* RingFilter[T] (ringfilter.go): a ring whose Write, WriteItem and        *)
(* ReadFrom hand what they store to a process function fn of the caller.   *)
(* fn runs in the middle of the method, with the ring half updated: after  *)
(* the copy and before the indices in Write, after both in WriteItem,      *)
(* after full and before the write index in ReadFrom.  So each of the      *)
(* three is one step up to the call of fn and one step from fn's return.   *)
(* The methods whose code is that of RingBuffer are its actions.           *)
(*                                                                         *)
(* ring, result, stream   as in RingBuffer; stream is also the Write or    *)
(*          WriteItem whose fn is running, with the items it wrote         *)
(* fn       the process function: whether it is running, the slice it was  *)
(*          called with last, and all it was fed in the current or the     *)
(*          last call, in order                                            *)
(***************************************************************************)
EXTENDS RingOps

CONSTANTS Input, Count, Offset, Delim, Length   (* as in RingBuffer *)

ASSUME FilterAssumption ==
  /\ Input \subseteq Seq(Item)
  /\ Count \subseteq Int /\ Offset \subseteq Int
  /\ Delim \subseteq SUBSET Item
  /\ Length \subseteq Nat

VARIABLES ring, result, stream, fn

Buf == INSTANCE RingBuffer

vars == <<ring, result, stream, fn>>

IdleFn == [busy |-> FALSE, slice |-> <<>>, fed |-> <<>>]

Init == Buf!Init /\ fn = IdleFn

-----------------------------------------------------------------------------
(* The process function.                                                   *)

Feed(slice) ==
  fn' = [busy |-> TRUE, slice |-> slice, fed |-> fn.fed \o slice]
Fed == fn.busy /\ fn' = [fn EXCEPT !.busy = FALSE]
Unfed == ~ fn.busy /\ fn' = IdleFn

Return(op, n, err) ==
  Buf!Finish([Buf!Called(op) EXCEPT !.given = stream.moved], n, <<>>, err)

(* fn panics and the caller recovers: the method goes no further.          *)
FnPanics ==
  /\ Fed
  /\ Return(stream.op, 0, "panic")
  /\ UNCHANGED ring

-----------------------------------------------------------------------------
(* Writing: as in RingBuffer, with fn between the copy and the indices.    *)

Write(p) ==
  /\ stream = Buf!NoStream
  /\ stream' = [Buf!NoStream EXCEPT !.op = "Write", !.moved = p]
  /\ result' = Buf!NoResult
  /\ ring' = IF Len(p) < N THEN Store(ring, p) ELSE StoreWhole(ring, p)
  /\ fn' = [busy |-> TRUE, slice |-> p, fed |-> p]

(* Mutant: a failing fn leaves before the indices are moved.               *)
WriteReturnsEarly(err) ==
  /\ stream.op = "Write"
  /\ Fed
  /\ LET p == stream.moved IN
     IF Len(p) < N
     THEN /\ ring' = IF err = "nil" THEN Settle(ring, ring.write + Len(p)) ELSE ring
          /\ Return("Write", Len(p), err)
     ELSE UNCHANGED ring /\ Return("Write", IF err = "nil" THEN N ELSE 0, err)

WriteReturns(err) ==
  /\ stream.op = "Write"
  /\ Fed
  /\ LET p == stream.moved IN
     IF Len(p) < N
     THEN ring' = Settle(ring, ring.write + Len(p)) /\ Return("Write", Len(p), err)
     ELSE UNCHANGED ring /\ Return("Write", IF err = "nil" THEN N ELSE 0, err)

WriteItem(x) ==
  /\ stream = Buf!NoStream
  /\ stream' = [Buf!NoStream EXCEPT !.op = "WriteItem", !.moved = <<x>>]
  /\ result' = Buf!NoResult
  /\ ring' = RingWriteItem(ring, x).ring
  /\ fn' = [busy |-> TRUE, slice |-> <<x>>, fed |-> <<x>>]

WriteItemReturns(err) ==
  /\ stream.op = "WriteItem"
  /\ Fed
  /\ Return("WriteItem", 0, err)
  /\ UNCHANGED ring

ReadFrom(length) == Buf!ReadFrom(length) /\ Unfed

(* The reader's chunk is in the ring and counted; fn is called with it.  A *)
(* chunk that comes with an error is neither counted nor fed.              *)
ReadFromTurn(chunk, err) ==
  /\ stream.op = "ReadFrom" /\ ~ fn.busy
  /\ Len(chunk) <= N - ring.write /\ Len(chunk) <= stream.left
  /\ err = "EOF" => Len(chunk) = stream.left
  /\ \/ /\ err = "nil"
        /\ ring' = Fill(Receive(ring, chunk), Len(chunk))
        /\ stream' = [stream EXCEPT !.n = @ + Len(chunk), !.left = @ - Len(chunk),
                                    !.moved = @ \o chunk]
        /\ Feed(chunk)
        /\ UNCHANGED result
     \/ /\ err # "nil"
        /\ ring' = Receive(ring, chunk)
        /\ Return("ReadFrom", stream.n, err)
        /\ UNCHANGED fn

(* Mutants: the write index moves by all that was read so far, or is not   *)
(* wrapped round.                                                          *)
ReadFromGoesOnByTotal ==
  /\ stream.op = "ReadFrom"
  /\ Fed
  /\ ring' = Advance(ring, stream.n)
  /\ UNCHANGED <<stream, result>>
ReadFromGoesOnPastEnd ==
  /\ stream.op = "ReadFrom"
  /\ Fed
  /\ ring' = AdvancePastEnd(ring, Len(fn.slice))
  /\ UNCHANGED <<stream, result>>

(* fn is done with the chunk: the write index moves past it, or the call   *)
(* returns fn's error.                                                     *)
ReadFromGoesOn ==
  /\ stream.op = "ReadFrom"
  /\ Fed
  /\ ring' = Advance(ring, Len(fn.slice))
  /\ UNCHANGED <<stream, result>>

ReadFromFails(err) ==
  /\ stream.op = "ReadFrom"
  /\ Fed
  /\ Return("ReadFrom", stream.n, err)
  /\ UNCHANGED ring

ReadFromNegative == Buf!ReadFromNegative /\ ~ fn.busy /\ UNCHANGED fn

-----------------------------------------------------------------------------
(* Where the code differs from RingBuffer without a process function.      *)

RingEmpty(r) == [RingReset(r) EXCEPT !.full = r.full]

Reset ==
  Buf!Do(Buf!Called("Reset"), Outcome(RingEmpty(ring), 0, <<>>, "nil")) /\ Unfed

Truncate(n) ==
  /\ Buf!Do(Buf!With("Truncate", n),
            IF n <= 0 \/ n > RingLen(ring)
            THEN Outcome(RingEmpty(ring), 0, <<>>, "nil")
            ELSE RingClear(ring, n))
  /\ Unfed

UnreadItem ==
  /\ Buf!Do(Buf!Called("UnreadItem"),
            IF ring.read = ring.write THEN Outcome(ring, 0, <<>>, "unread")
            ELSE Outcome([ring EXCEPT !.read = GoMod(ring.read - 1)], 0, <<>>, "nil"))
  /\ Unfed

-----------------------------------------------------------------------------
(* The same code as RingBuffer's.                                          *)

Read(k) == Buf!Read(k) /\ Unfed
ReadItem == Buf!ReadItem /\ Unfed
ReadItems(delim) == Buf!ReadItems(delim) /\ Unfed
NextItems(n) == Buf!NextItems(n) /\ Unfed
Value == Buf!Value /\ Unfed
Seek(offset, whence) == Buf!Seek(offset, whence) /\ Unfed
WriteTo == Buf!WriteTo /\ Unfed
WriteToTail(num, err) == Buf!WriteToTail(num, err) /\ Unfed
WriteToHead(num, err) == Buf!WriteToHead(num, err) /\ Unfed
WriteToPanics == Buf!WriteToPanics /\ Unfed
WriteToNegative == Buf!WriteToNegative /\ Unfed

-----------------------------------------------------------------------------
(* Any caller, and any process function that leaves the ring alone.        *)

FnErr == {"nil", "filter"}

Reading ==
  \/ \E k \in Count : Read(k) \/ NextItems(k)
  \/ ReadItem
  \/ \E delim \in Delim : ReadItems(delim)
  \/ Value
  \/ \E offset \in Offset, whence \in {"start", "current", "end", "bad"} :
       Seek(offset, whence)

Streaming ==
  \/ \E length \in Length : ReadFrom(length)
  \/ \E chunk \in Buf!Chunk, err \in Buf!ReadErr : ReadFromTurn(chunk, err)
  \/ ReadFromGoesOn
  \/ ReadFromNegative
  \/ WriteTo
  \/ \E num \in 0 .. N, err \in Buf!ReadErr : WriteToTail(num, err) \/ WriteToHead(num, err)
  \/ WriteToPanics
  \/ WriteToNegative

Writing ==
  \/ \E p \in Input : Write(p)
  \/ \E x \in Item : WriteItem(x)
  \/ \E err \in FnErr : WriteReturns(err) \/ WriteItemReturns(err)

Next ==
  \/ Reading
  \/ Streaming
  \/ Writing
  \/ ReadFromFails("filter")
  \/ FnPanics
  \/ Reset
  \/ \E n \in Count : Truncate(n)
  \/ UnreadItem

Spec == Init /\ [][Next]_vars

-----------------------------------------------------------------------------
(* "The buffer still stores the data the exact same way that the           *)
(* RingBuffer does" (README.md): where that is so.                         *)

(* The ring with the indices of the call in progress already moved.        *)
Settled ==
  CASE fn.busy /\ stream.op = "Write" /\ Len(stream.moved) < N ->
         Settle(ring, ring.write + Len(stream.moved))
    [] fn.busy /\ stream.op = "ReadFrom" -> Advance(ring, Len(fn.slice))
    [] OTHER -> ring

WriteOps == {"Write", "WriteItem"}

(* What RingBuffer's Write of p and WriteItem of x return.                 *)
Written(op, p) ==
  [Buf!Called(op) EXCEPT !.given = p,
     !.n = IF op = "WriteItem" THEN 0 ELSE IF Len(p) < N THEN Len(p) ELSE N]

PlainResult ==
  IF stream.op \in WriteOps THEN Written(stream.op, stream.moved)
  ELSE IF result.op \in WriteOps THEN Written(result.op, result.given)
  ELSE result

PlainStream == IF stream.op \in WriteOps THEN Buf!NoStream ELSE stream

Plain == INSTANCE RingBuffer WITH
           ring <- Settled, result <- PlainResult, stream <- PlainStream

(* Leave out an fn that fails in ReadFrom or panics, Reset (and Truncate   *)
(* as Reset) on a full ring, and UnreadItem where "the ring is full" and   *)
(* "the indices are equal" differ.                                         *)
AlikeNext ==
  \/ Reading
  \/ Streaming
  \/ Writing
  \/ ~ ring.full /\ Reset
  \/ \E n \in Count : (ring.full => n \in 1 .. N) /\ Truncate(n)
  \/ (ring.full <=> ring.read = ring.write) /\ UnreadItem

AlikeSpec == Init /\ [][AlikeNext]_vars

(* A RingFilter does to its ring, and returns, what a RingBuffer would,    *)
(* whatever fn answers in Write and WriteItem (only the error, and the     *)
(* count that goes with it, differ).                                       *)
StoresAsRingBuffer == Plain!Spec

-----------------------------------------------------------------------------
(* The ring's fields stay in their ranges, also while fn runs.             *)
TypeOK ==
  /\ ring \in Ring
  /\ result \in [op : Buf!Op, given : Seq(Item), arg : Int, delim : SUBSET Item, n : Int,
                 items : Seq(Item), err : CallErr \cup {"fault", "negative", "filter"}]
  /\ stream \in [op : WriteOps \cup {"none", "ReadFrom", "WriteToTail", "WriteToHead"},
                 n : Nat, left : Nat, moved : Seq(Item)]
  /\ fn \in [busy : BOOLEAN, slice : Seq(Item), fed : Seq(Item)]
  /\ fn.busy => stream.op \in WriteOps \cup {"ReadFrom"}
  /\ stream.op \in WriteOps => fn.busy

(* While fn runs, the newest items of the ring are the last ones it was    *)
(* fed in this call, in order, through every wrap, overwrite and partial   *)
(* chunk: what the filter sees is what the ring keeps, from whatever state *)
(* earlier calls, failed filters and interrupted streams have left.  Only  *)
(* a slice that fills the ring from a write index other than 0 is kept in  *)
(* another order than it is fed (it is laid out from slot 0).              *)
Newest(k) == [i \in 1 .. k |-> Settled.items[(Settled.write - k + i - 1) % N]]
LastOf(s, k) == SubSeq(s, Len(s) - k + 1, Len(s))

FilterSawNewest ==
  LET k == IF Len(fn.fed) < N THEN Len(fn.fed) ELSE N
  IN  fn.busy /\ (stream.op = "Write" /\ Len(fn.slice) >= N => ring.write = 0)
        => Newest(k) = LastOf(fn.fed, k)

=============================================================================
