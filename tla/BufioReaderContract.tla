------------------------- MODULE BufioReaderContract --------------------------
(***************************************************************************)
(* What a gbufio.Reader and the ComparableReader around it promise to any  *)
(* caller, whatever the underlying reader and WriteTo's writer do.         *)
(***************************************************************************)
EXTENDS ComparableReader

(* Nothing is asked of the underlying reader but that its Read returns: it *)
(* may deliver nothing, without an error, for ever.  A writer that WriteTo *)
(* asks again and again takes something in the end, or returns an error.   *)
Fairness ==
  /\ WF_vars(\E chunk \in Chunk, err \in SourceErr : FillTurn(chunk, err))
  /\ WF_vars(\E chunk \in Chunk, err \in SourceErr : SliceFillTurn(chunk, err))
  /\ WF_vars(\E num \in 0 .. Size, err \in SinkErr : WriteBufTurn(num, err))
  /\ SF_vars(\E num \in 0 .. Size, err \in SinkErr :
               (num > 0 \/ err # "nil") /\ WriteBufTurn(num, err))
  /\ WF_vars(\E chunk \in Chunk, err \in SinkErr : DirectTurn(chunk, err))

FairSpec == ComparableSpec /\ Fairness

(* The refinement: what the buffer holds between r and w is a queue that   *)
(* the underlying reader feeds and every method takes from in order; an    *)
(* error is owed until a call reports it, and none is reported twice.  A   *)
(* line ends at the first delimiter, wherever the reads of the underlying  *)
(* reader were cut.  Lookahead admits what the code does besides: the item *)
(* an UnreadItem leaves when it panics, items that overtake others after a *)
(* short write in WriteTo, and errors lost in Discard, WriteTo, ReadLine.  *)
Promise == INSTANCE Lookahead WITH
             queue <- Unread(reader),
             owed <- reader.err,
             call <- [op |-> call.op, n |-> call.n, delim |-> call.delim, got |-> call.got,
                      count |-> call.count]

IsLookahead == Promise!Spec

(* The positions stay in range and in order.  fill is waited for only with *)
(* room for at least one item, and no method but Discard and WriteTo waits *)
(* for more while an error is owed.                                        *)
TypeOK ==
  /\ reader.buf \in [1 .. Size -> Item]
  /\ 0 <= reader.r /\ reader.r <= reader.w /\ reader.w <= Size
  /\ reader.err \in SourceErr \cup {"no progress"} /\ reader.last \in BOOLEAN
  /\ call.at = "none" <=> call = NoCall
  /\ call.at = "fill" => /\ reader.r = 0 /\ reader.w < Size
                         /\ call.empties < MaxConsecutiveEmptyReads
                         /\ call.op \in {"Discard", "WriteTo"} \/ reader.err = "nil"
  /\ call.op = "Discard" => call.n > 0 /\ reader.w = reader.r

(* Every method returns, though Discard, ReadItem, ReadSlice and ReadItems *)
(* are loops with no counter of their own, over a fill that gives up.      *)
CallReturns == (call # NoCall) ~> (call = NoCall)

=============================================================================
