----------------------------- MODULE RingBuffer -----------------------------
(***************************************************************************)
(* RingBuffer[T] (ringbuffer.go): one action per method, called in any     *)
(* order by one goroutine.  Every method but ReadFrom and WriteTo runs to  *)
(* its end on the ring alone and is one step.  ReadFrom and WriteTo hand   *)
(* slices of the ring to a reader or a writer of the caller, so they are   *)
(* one step per call out, with what that Read or Write may return left     *)
(* open.                                                                   *)
(*                                                                         *)
(* ring     the struct                                                     *)
(* result   the last finished call: its arguments (given, arg, delim) and  *)
(*          what it returned (n, items, err; err is "panic" when the call  *)
(*          panicked and the caller recovered)                             *)
(* stream   the ReadFrom or WriteTo in progress: its count n, how many     *)
(*          items the reader still has left, and the items moved so far    *)
(***************************************************************************)
EXTENDS RingOps

CONSTANTS
  Input,   (* the slices callers pass to Write                    *)
  Count,   (* the lengths callers pass to Read, Next and Truncate *)
  Offset,  (* the offsets callers pass to Seek                    *)
  Delim,   (* the delimiter functions, as sets of accepted items  *)
  Length   (* how many items a reader given to ReadFrom can have  *)

ASSUME CallAssumption ==
  /\ Input \subseteq Seq(Item)
  /\ Count \subseteq Int /\ Offset \subseteq Int
  /\ Delim \subseteq SUBSET Item
  /\ Length \subseteq Nat

VARIABLES ring, result, stream

vars == <<ring, result, stream>>

NoStream == [op |-> "none", n |-> 0, left |-> 0, moved |-> <<>>]

NoResult == [op |-> "none", given |-> <<>>, arg |-> 0, delim |-> {},
             n |-> 0, items |-> <<>>, err |-> "nil"]
Called(op) == [NoResult EXCEPT !.op = op]
With(op, k) == [NoResult EXCEPT !.op = op, !.arg = k]

Init == ring = NewRing /\ result = NoResult /\ stream = NoStream

-----------------------------------------------------------------------------
(* Calls that run to their end on the ring alone.                          *)

Op == {"none", "Write", "WriteItem", "Read", "ReadItem", "ReadItems", "Next",
       "Value", "UnreadItem", "Seek", "Truncate", "Reset", "ReadFrom", "WriteTo"}

Do(call, o) ==
  /\ stream = NoStream
  /\ ring' = o.ring
  /\ result' = [call EXCEPT !.n = o.n, !.items = o.items, !.err = o.err]
  /\ UNCHANGED stream

Write(p) == Do([Called("Write") EXCEPT !.given = p], RingWrite(ring, p))
WriteItem(x) == Do([Called("WriteItem") EXCEPT !.given = <<x>>], RingWriteItem(ring, x))
Read(k) == k >= 0 /\ Do(With("Read", k), RingRead(ring, k))
ReadItem == Do(Called("ReadItem"), RingReadItem(ring))
ReadItems(delim) ==
  Do([Called("ReadItems") EXCEPT !.delim = delim], RingReadItems(ring, delim))
NextItems(n) == Do(With("Next", n), RingNext(ring, n))
Value == Do(Called("Value"), RingValue(ring))
UnreadItem == Do(Called("UnreadItem"), RingUnreadItem(ring))
Seek(offset, whence) == Do(With("Seek", offset), RingSeek(ring, offset, whence))
Truncate(n) == Do(With("Truncate", n), RingTruncate(ring, n))
Reset == Do(Called("Reset"), Outcome(RingReset(ring), 0, <<>>, "nil"))

-----------------------------------------------------------------------------
(* Streaming calls.                                                        *)

Begin(op, length) ==
  /\ stream = NoStream
  /\ stream' = [NoStream EXCEPT !.op = op, !.left = length]
  /\ result' = NoResult
  /\ UNCHANGED ring

(* The call in progress returns.                                           *)
Finish(call, n, items, err) ==
  /\ result' = [call EXCEPT !.n = n, !.items = items,
                           !.err = IF err = "EOF" THEN "nil" ELSE err]
  /\ stream' = NoStream

ReadFrom(length) == Begin("ReadFrom", length)

ReadFromReturns(err) ==
  Finish([Called("ReadFrom") EXCEPT !.given = stream.moved], stream.n, <<>>, err)

(* One turn of ReadFrom's loop: b.Read fills r.items[r.write:] with chunk  *)
(* and returns its length with err.  An error, io.EOF included, returns    *)
(* before the chunk is counted and before the write index moves.           *)
ReadFromTurn(chunk, err) ==
  /\ stream.op = "ReadFrom"
  /\ Len(chunk) <= N - ring.write /\ Len(chunk) <= stream.left
  /\ err = "EOF" => Len(chunk) = stream.left
  /\ \/ /\ err = "nil"
        /\ ring' = Advance(Fill(Receive(ring, chunk), Len(chunk)), Len(chunk))
        /\ stream' = [stream EXCEPT !.n = @ + Len(chunk), !.left = @ - Len(chunk),
                                    !.moved = @ \o chunk]
        /\ UNCHANGED result
     \/ /\ err # "nil"
        /\ ring' = Receive(ring, chunk)
        /\ ReadFromReturns(err)

(* b.Read returns a negative count.                                        *)
ReadFromNegative ==
  /\ stream.op = "ReadFrom"
  /\ ReadFromReturns("negative")
  /\ UNCHANGED ring

(* WriteTo's switch: the part up to the end of the slice first, or only    *)
(* the part up to the write index.                                         *)
WriteTo == Begin(IF ring.read >= ring.write THEN "WriteToTail" ELSE "WriteToHead", 0)

WriteToReturns(n, moved, err) == Finish(Called("WriteTo"), n, moved, err)

(* b.Write takes num of the items handed to it and returns err; io.EOF     *)
(* ends the call without an error.                                         *)
WriteToTail(num, err) ==
  /\ stream.op = "WriteToTail"
  /\ num <= N - ring.read
  /\ ring' = Sent(ring, num)
  /\ LET moved == Slice(ring.items, ring.read, ring.read + num) IN
     \/ /\ err = "nil"
        /\ stream' = [stream EXCEPT !.op = "WriteToHead", !.n = num, !.moved = moved]
        /\ UNCHANGED result
     \/ err # "nil" /\ WriteToReturns(num, moved, err)

WriteToHead(num, err) ==
  /\ stream.op = "WriteToHead"
  /\ Legal(ring.read, ring.write) /\ num <= ring.write - ring.read
  /\ ring' = Sent(ring, num)
  /\ WriteToReturns(stream.n + num,
                    stream.moved \o Slice(ring.items, ring.read, ring.read + num), err)

(* r.items[r.read:r.write] cannot be formed.                               *)
WriteToPanics ==
  /\ stream.op = "WriteToHead"
  /\ ~ Legal(ring.read, ring.write)
  /\ WriteToReturns(0, <<>>, "panic")
  /\ UNCHANGED ring

(* b.Write returns a negative count.                                       *)
WriteToNegative ==
  /\ stream.op \in {"WriteToTail", "WriteToHead"}
  /\ stream.op = "WriteToHead" => Legal(ring.read, ring.write)
  /\ WriteToReturns(stream.n, stream.moved, "negative")
  /\ UNCHANGED ring

-----------------------------------------------------------------------------
(* Any caller: every method, with any argument, in any order.              *)

Chunk == UNION {[1 .. n -> Item] : n \in 0 .. N}
ReadErr == {"nil", "EOF", "fault"}

Next ==
  \/ \E p \in Input : Write(p)
  \/ \E x \in Item : WriteItem(x)
  \/ \E k \in Count : Read(k) \/ NextItems(k) \/ Truncate(k)
  \/ ReadItem
  \/ \E delim \in Delim : ReadItems(delim)
  \/ Value
  \/ UnreadItem
  \/ \E offset \in Offset, whence \in {"start", "current", "end", "bad"} :
       Seek(offset, whence)
  \/ Reset
  \/ \E length \in Length : ReadFrom(length)
  \/ \E chunk \in Chunk, err \in ReadErr : ReadFromTurn(chunk, err)
  \/ ReadFromNegative
  \/ WriteTo
  \/ \E num \in 0 .. N, err \in ReadErr : WriteToTail(num, err) \/ WriteToHead(num, err)
  \/ WriteToPanics
  \/ WriteToNegative

Spec == Init /\ [][Next]_vars

(* ReadFrom and WriteTo run on without the caller; a reader that still has *)
(* items delivers some in the end, and reports the end of the stream once  *)
(* it has none.  A reader may return (0, nil) in between, but not for ever.*)
Fairness ==
  /\ WF_vars(\E chunk \in Chunk \ {<<>>} : ReadFromTurn(chunk, "nil"))
  /\ WF_vars(ReadFromTurn(<<>>, "EOF"))
  /\ WF_vars(\E num \in 0 .. N, err \in ReadErr : WriteToTail(num, err))
  /\ WF_vars(\E num \in 0 .. N, err \in ReadErr : WriteToHead(num, err))
  /\ WF_vars(WriteToPanics)

FairSpec == Spec /\ Fairness

-----------------------------------------------------------------------------
(* The fields stay in their ranges: write always indexes a slot, read is   *)
(* at worst a remainder of the wrong sign, and a streaming call never      *)
(* counts more than the other end had.                                     *)
TypeOK ==
  /\ ring \in Ring
  /\ result \in [op : Op, given : Seq(Item), arg : Int, delim : SUBSET Item,
                 n : Int, items : Seq(Item), err : CallErr \cup {"fault", "negative"}]
  /\ stream \in [op : {"none", "ReadFrom", "WriteToTail", "WriteToHead"},
                 n : Nat, left : Nat, moved : Seq(Item)]

(* A call panics only on a read index that UnreadItem or Seek made         *)
(* negative, on a Truncate across the end of the slice, or after a writer  *)
(* took less of the tail than it was handed and returned no error.  Every  *)
(* other slice and index ringbuffer.go forms is in bounds, whatever calls  *)
(* came before; above all, a tail taken whole brings read back to slot 0.  *)
PanicOnlyWhen ==
  [][ result'.err = "panic" /\ result' # result =>
        \/ ring.read < 0
        \/ result'.op = "Truncate" /\ ring.read + result'.arg > N
        \/ stream.op = "WriteToHead" /\ ring.read \in ring.write + 1 .. N - 1 ]_vars

(* ReadFrom and WriteTo return: each turn of ReadFrom's loop hands the     *)
(* reader a slice with room, because write stays below len(items).         *)
StreamEnds == (stream # NoStream) ~> (stream = NoStream)

=============================================================================
