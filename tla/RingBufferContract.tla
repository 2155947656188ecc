-------------------------- MODULE RingBufferContract --------------------------
(***************************************************************************)
(* The callers for whom a RingBuffer is a sliding window.  ringbuffer.go   *)
(* checks almost none of what its methods rely on, so the promise of       *)
(* SlidingWindow holds only for callers that keep to the conditions below. *)
(* Each condition is needed: the refinement fails with any of them dropped.*)
(***************************************************************************)
EXTENDS RingBuffer

TakingOps == {"Read", "ReadItem", "ReadItems", "Next", "Value"}

(* Value, and Next past the end, return what is unread only while the      *)
(* unread items are in one piece, or fill the ring.                        *)
Whole(r) == r.read < r.write \/ r.full

(* A slice as long as the ring is laid out from slot 0.                    *)
FitsWrite(p) == Len(p) < N \/ ring.write = 0

FitsNext(n) == n > RingLen(ring) => Whole(ring)

(* clear(items[read:read+n]) must not cross the end of the slice.          *)
FitsTruncate(n) == n \in 1 .. RingLen(ring) => ring.read + n <= N

(* The scan starts at the read index only if the unread items reach the    *)
(* end of the slice; otherwise it starts at slot 0.                        *)
FitsReadItems ==
  /\ RingLen(ring) > 0
  /\ ring.read < ring.write => ring.read = 0

(* Directly after a call that took items; the step back must not pass slot *)
(* 0 nor fill the ring, whose full flag it does not set.                   *)
FitsUnreadItem ==
  \/ ring.full
  \/ /\ result.op \in TakingOps /\ result.items # <<>>
     /\ ring.read > 0 /\ RingLen(ring) + 1 < N

(* Forward over unread items, and not on a full ring, whose full flag Seek *)
(* leaves set.                                                             *)
FitsSeek(offset, whence) ==
  whence # "bad" =>
    /\ ~ ring.full
    /\ IF whence = "end"
       THEN offset \in -RingLen(ring) .. 0 /\ ring.write + offset >= 0
       ELSE offset \in 0 .. RingLen(ring)

(* A reader that reports its end or its failure by itself, after its last  *)
(* items.                                                                  *)
FitsReader(chunk, err) == err # "nil" => chunk = <<>>

(* A writer that returns an error when it takes less than it was handed,   *)
(* that never returns io.EOF and that takes something from a full ring.    *)
FitsWriter(num, handed, err) ==
  /\ err # "EOF"
  /\ num < handed => err # "nil"
  /\ ring.full => num > 0

KeepingNext ==
  \/ \E p \in Input : FitsWrite(p) /\ Write(p)
  \/ \E x \in Item : WriteItem(x)
  \/ \E k \in Count : \/ Read(k)
                      \/ FitsNext(k) /\ NextItems(k)
                      \/ FitsTruncate(k) /\ Truncate(k)
  \/ RingLen(ring) > 0 /\ ReadItem
  \/ \E delim \in Delim : FitsReadItems /\ ReadItems(delim)
  \/ Whole(ring) /\ Value
  \/ FitsUnreadItem /\ UnreadItem
  \/ \E offset \in Offset, whence \in {"start", "current", "end", "bad"} :
       FitsSeek(offset, whence) /\ Seek(offset, whence)
  \/ Reset
  \/ \E length \in Length : ReadFrom(length)
  \/ \E chunk \in Chunk, err \in ReadErr :
       FitsReader(chunk, err) /\ ReadFromTurn(chunk, err)
  \/ ReadFromNegative
  \/ RingLen(ring) > 0 /\ WriteTo
  \/ \E num \in 0 .. N, err \in ReadErr :
       \/ FitsWriter(num, N - ring.read, err) /\ WriteToTail(num, err)
       \/ FitsWriter(num, ring.write - ring.read, err) /\ WriteToHead(num, err)
  \/ WriteToNegative

KeepingSpec == Init /\ [][KeepingNext]_vars

-----------------------------------------------------------------------------
(* The refinement: the window is what lies between read and write.         *)

StreamOp(op) == IF op \in {"WriteToTail", "WriteToHead"} THEN "WriteTo" ELSE op

Window == INSTANCE SlidingWindow WITH
            window <- Unread(ring),
            stream <- [op |-> StreamOp(stream.op), moved |-> stream.moved],
            Count <- Count \cup Offset

(* For callers that keep to the contract the RingBuffer is a sliding       *)
(* window: whatever the sequence of writes, overwrites, partial reads,     *)
(* unreads, seeks and interrupted transfers, the unread items are the last *)
(* N written and not yet read, in order, and every call returns what the   *)
(* window would.                                                           *)
IsSlidingWindow == Window!Spec

(* What keeps the three fields consistent with each other, and with what   *)
(* the caller may do next.                                                 *)

(* full "indicates whether the write operation is currently overwriting    *)
(* the buffer, so that r.read follows r.write": both are on one slot.      *)
FullFollows == ring.full => ring.read = ring.write

(* The read index never leaves the slice.                                  *)
ReadInBounds == ring.read >= 0

(* The slices WriteTo is about to form exist, and nothing unread is left   *)
(* behind the part it is sending.                                          *)
PartsInOrder ==
  /\ stream.op = "WriteToTail" => ring.read >= ring.write /\ stream.moved = <<>>
  /\ stream.op = "WriteToHead" => ring.read <= ring.write /\ ~ ring.full

(* The item last taken is still in the slot before the read index while    *)
(* UnreadItem may be called: no call wrote over it in between.             *)
LastTakenIsBehind ==
  FitsUnreadItem /\ ~ ring.full =>
    ring.items[ring.read - 1] = result.items[Len(result.items)]

Consistent == FullFollows /\ ReadInBounds /\ PartsInOrder /\ LastTakenIsBehind

=============================================================================
