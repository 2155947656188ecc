------------------------------ MODULE Forwarder ------------------------------
(***************************************************************************)
(* What a gbufio.Writer promises, with no buffer, no flushing and no       *)
(* choice of path: the items its caller wrote reach the underlying writer  *)
(* in order, each once; what it says it accepted is on its way; and after  *)
(* the first error nothing moves any more until Reset.                     *)
(*                                                                         *)
(* pending  what has been handed to it and not been forwarded, the rest of *)
(*          the Write in progress included                                 *)
(* failed   the error that stopped it, or "nil"                            *)
(* call     the method in progress and the items it was handed             *)
(* result   the last finished call                                         *)
(* taken    the items forwarded in the last step                           *)
(***************************************************************************)
EXTENDS Integers, Sequences

CONSTANTS Item, Size, Input, Chunk, SinkErr

VARIABLES pending, failed, call, result, taken

vars == <<pending, failed, call, result, taken>>

NoCall == [op |-> "none", given |-> <<>>]
NoResult == [op |-> "none", given |-> <<>>, n |-> 0, err |-> "nil"]

Init ==
  /\ pending = <<>> /\ failed = "nil"
  /\ call = NoCall /\ result = NoResult /\ taken = <<>>

First(k, s) == SubSeq(s, 1, k)
After(k, s) == SubSeq(s, k + 1, Len(s))

(* How many of its items a finished call kept.  WriteItem returns no count.*)
Accepted(op, n, err) == IF op = "WriteItem" THEN IF err = "nil" THEN 1 ELSE 0 ELSE n

(* The call c returns, when what is left to forward is left and the writer *)
(* has failed with why, or not ("nil").  A caller that hears no error has  *)
(* had everything accepted; what was not accepted is the end of what it    *)
(* gave, and is dropped.  After a Flush without an error nothing is left.  *)
Returns(c, left, why) ==
  /\ call' = NoCall
  /\ \E n \in 0 .. Len(c.given), err \in {why, "source fault", "no progress"} :
       LET dropped == IF c.op \in {"Write", "WriteItem"}
                      THEN Len(c.given) - Accepted(c.op, n, err) ELSE 0
       IN  /\ result' = [op |-> c.op, given |-> c.given, n |-> n, err |-> err]
           /\ err # why => c.op = "ReadFrom" /\ why = "nil"
           /\ c.op = "ReadFrom" => n = Len(c.given)
           /\ c.op \in {"WriteItem", "Flush"} => n = 0
           /\ err = "nil" => dropped = 0
           /\ dropped <= Len(left)
           /\ pending' = First(Len(left) - dropped, left)
           /\ c.op = "Flush" /\ err = "nil" => left = <<>>

(* A call that needs nothing of the other end; the only kind after a       *)
(* failure, and then it moves nothing and returns that error.              *)
AtOnce(op, p) ==
  /\ call = NoCall /\ taken' = <<>> /\ UNCHANGED failed
  /\ Returns([op |-> op, given |-> p], pending \o p, failed)
  /\ failed # "nil" => pending' = pending

Begin(op, p) ==
  /\ call = NoCall /\ failed = "nil"
  /\ call' = [op |-> op, given |-> p]
  /\ pending' = pending \o p
  /\ taken' = <<>> /\ UNCHANGED <<failed, result>>

(* The first k pending items are forwarded; an error ends the call.        *)
Forward ==
  /\ call # NoCall /\ failed = "nil"
  /\ \E k \in 0 .. Len(pending) :
       /\ taken' = First(k, pending)
       /\ \/ failed' = "nil" /\ pending' = After(k, pending) /\ UNCHANGED <<call, result>>
          \/ /\ failed' \in SinkErr \cup {"short"}
             /\ Returns(call, After(k, pending), failed')

(* ReadFrom gets a chunk from its reader, or passes it on at once.         *)
Absorb ==
  /\ call.op = "ReadFrom" /\ failed = "nil"
  /\ \E chunk \in Chunk :
       LET c == [call EXCEPT !.given = @ \o chunk] IN
       \/ /\ taken' = <<>> /\ UNCHANGED failed
          /\ \/ pending' = pending \o chunk /\ call' = c /\ UNCHANGED result
             \/ Returns(c, pending \o chunk, "nil")
       \/ /\ pending = <<>> /\ taken' = chunk
          /\ failed' \in SinkErr /\ Returns(c, <<>>, failed')

Reset ==
  /\ call = NoCall /\ UNCHANGED call
  /\ pending' = <<>> /\ failed' = "nil" /\ taken' = <<>>
  /\ result' = [NoResult EXCEPT !.op = "Reset"]

(* Calls that change nothing.                                              *)
Look ==
  /\ call = NoCall /\ taken' = <<>>
  /\ \E op \in {"AvailableBuffer", "Reset itself"} : result' = [NoResult EXCEPT !.op = op]
  /\ UNCHANGED <<pending, failed, call>>

Next ==
  \/ \E p \in Input : AtOnce("Write", p) \/ Begin("Write", p)
  \/ \E x \in Item : AtOnce("WriteItem", <<x>>) \/ Begin("WriteItem", <<x>>)
  \/ \E op \in {"Flush", "ReadFrom"} : AtOnce(op, <<>>) \/ Begin(op, <<>>)
  \/ Forward
  \/ Absorb
  \/ Reset
  \/ Look

Spec == Init /\ [][Next]_vars

=============================================================================
