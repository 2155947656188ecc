---------------------------- MODULE BufferContract ----------------------------
(***************************************************************************)
(* The callers for whom a Buffer is an ItemQueue.  Each condition is       *)
(* needed: the refinement fails with any of them dropped.                  *)
(***************************************************************************)
EXTENDS Buffer

(* Between a read and its UnreadItem, Grow may not move the unread items   *)
(* to the front of an array: the item read is not moved with them.         *)
FitsGrow(n) ==
  buffer.isReading /\ ~ Empty(buffer) => n <= Cap(buffer) - buffer.len

(* readSlice takes the call for a successful read even if it took nothing. *)
FitsReadItems == ~ Empty(buffer)

(* The offset is that of an unread item only while nothing has been read.  *)
FitsPeekFrom == buffer.off = 0

(* In-range offsets panic.                                                 *)
FitsPeekRange(from, to) == from # to => OutOfBounds(from) \/ OutOfBounds(to) \/ Empty(buffer)

KeepingNext ==
  \/ Writing
  \/ Reading
  \/ Discarding
  \/ Streaming
  \/ \E delim \in Delim : FitsReadItems /\ ReadItems(delim)
  \/ \E n \in Room : FitsGrow(n) /\ Grow(n)
  \/ \E k \in Count : Peek(k)
  \/ \E i, k \in Count : FitsPeekFrom /\ PeekFrom(i, k)
  \/ \E i, j, k \in Count : FitsPeekRange(i, j) /\ PeekRange(i, j, k)

KeepingSpec == Init /\ [][KeepingNext]_vars

-----------------------------------------------------------------------------
(* The refinement: what is unread is the queue, and the item before it is  *)
(* the one that can be put back.                                           *)

Queue == INSTANCE ItemQueue WITH
           queue <- Unread(buffer),
           back <- IF buffer.isReading /\ buffer.off > 0
                   THEN <<buffer.cells[buffer.off]>> ELSE <<>>,
           stream <- [op |-> stream.op, moved |-> stream.moved],
           Initial <- Owned \cup {<<>>}

(* For callers that keep to the contract a Buffer is a queue: through      *)
(* every growth, slide, reset and failed transfer, what is unread is what  *)
(* was written and not yet read, in order; each call returns what the      *)
(* queue would; UnreadItem puts back the very item last read; and a panic  *)
(* loses nothing.                                                          *)
IsItemQueue == Queue!Spec

(* Read, written and spare items stay in that order within the array.      *)
TypeOK ==
  /\ buffer.cells \in Seq(Item) /\ buffer.isReading \in BOOLEAN
  /\ 0 <= buffer.off /\ buffer.off <= buffer.len /\ buffer.len <= Cap(buffer)
  /\ ~ buffer.made => Cap(buffer) = 0
  /\ Cap(buffer) <= MaxAlloc + Slack
  /\ promise \in Nat

(* "After Grow(n), at least n T items can be written to the buffer without *)
(* another allocation": also after reads, unreads and truncations, in      *)
(* several writes, and from a reader.                                      *)
GrowHolds == promise <= Cap(buffer) - buffer.len

(* MinRead "is the minimum slice size passed to a Read call by             *)
(* Buffer.ReadFrom", and what is passed is the whole spare capacity.       *)
RoomForMinRead ==
  stream.room > 0 => stream.room >= MinRead /\ stream.room = Cap(buffer) - buffer.len

(* Two values of the struct whose arrays agree as far as both use them.    *)
StaysPut(b, g) == \A i \in 1 .. Smaller(b.len, g.len) : g.cells[i] = b.cells[i]

(* Next and Value return b.buf's own memory, "only valid until the next    *)
(* call to a read or write method" (buffer.go:297).  What can really       *)
(* change it: no call but Write, WriteItem, Grow and ReadFrom changes an   *)
(* item that stays within b.buf, and they do only when they move off from  *)
(* above the front of an array to the front, never by writing in place.    *)
MemoryKept ==
  [][ \/ StaysPut(buffer, buffer')
      \/ /\ buffer.off > 0 /\ buffer'.off = 0
         /\ stream'.op = "ReadFrom" \/ result'.op \in {"Write", "WriteItem", "Grow", "ReadFrom"} ]_vars

(* ReadFrom and WriteTo return.                                            *)
StreamEnds == (stream # NoStream) ~> (stream = NoStream)

=============================================================================
