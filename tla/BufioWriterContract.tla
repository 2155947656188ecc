------------------------- MODULE BufioWriterContract --------------------------
(***************************************************************************)
(* What a gbufio.Writer promises to any caller, whatever its two other     *)
(* ends do.                                                                *)
(***************************************************************************)
EXTENDS BufioWriter

(* A writer that is offered items again and again takes some in the end,   *)
(* or returns an error.  Nothing is asked of the reader but that its Read  *)
(* returns: it may deliver nothing for ever.                               *)
Fairness ==
  /\ WF_vars(\E chunk \in Chunk, err \in SourceErr : ReadTurn(chunk, err))
  /\ WF_vars(\E chunk \in Chunk, err \in SinkErr : PassOnTurn(chunk, err))
  /\ WF_vars(\E num \in 0 .. writer.n, err \in SinkErr : FlushTurn(num, err))
  /\ SF_vars(\E num \in 0 .. Len(call.rest), err \in SinkErr :
               num + (IF err = "nil" THEN 0 ELSE 1) > 0 /\ DirectTurn(num, err))

FairSpec == Spec /\ Fairness

(* The refinement: what is buffered and then what Write has still to write *)
(* is on its way.  Every call returns what it says about exactly that: the *)
(* count of a failed Write is what was forwarded or stayed in the buffer,  *)
(* ReadFrom counts all it read, and a Flush without an error left nothing. *)
Promise == INSTANCE Forwarder WITH
             pending <- Buffered(writer) \o call.rest,
             failed <- writer.err,
             call <- [op |-> call.op, given |-> call.given]

IsForwarder == Promise!Spec

(* The fields stay in range, and a method waits where it can go on: Flush  *)
(* is never asked to write nothing, nor Read to fill nothing, and once an  *)
(* error is kept no method waits for anything.                             *)
TypeOK ==
  /\ writer.buf \in [1 .. Size -> Item]
  /\ writer.n \in 0 .. Size
  /\ writer.err \in SinkErr \cup {"short"}
  /\ call.at = "none" <=> call = NoCall
  /\ call.at = "flush" => writer.n > 0
  /\ call.at = "direct" => writer.n = 0 /\ Len(call.rest) > Size
  /\ call.at = "read" => Available(writer) > 0 /\ call.empties < MaxConsecutiveEmptyReads
  /\ call # NoCall => writer.err = "nil"

(* Every method returns: also Write, whose loop has no counter, and        *)
(* ReadFrom from a reader that for ever delivers nothing.                  *)
CallReturns == (call # NoCall) ~> (call = NoCall)

=============================================================================
