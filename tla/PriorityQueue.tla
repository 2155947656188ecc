---------------------------- MODULE PriorityQueue -----------------------------
(***************************************************************************)
(* What the heap routines promise, with no positions: a bag of items, of   *)
(* which Pop takes a least one.                                            *)
(*                                                                         *)
(* bag     how often it holds every value                                  *)
(* result  the last call, what it was given and what it returned           *)
(***************************************************************************)
EXTENDS Integers, Sequences, FiniteSets

CONSTANT Value

VARIABLES bag, result

vars == <<bag, result>>

Init == bag = [x \in Value |-> 0] /\ result = [op |-> "none", given |-> <<>>, out |-> 0]

Counted(s) == [x \in Value |-> Cardinality({i \in 1 .. Len(s) : s[i] = x})]
Says(op, given, out) == result' = [op |-> op, given |-> given, out |-> out]

Start == Says("Init", result'.given, 0) /\ bag' = Counted(result'.given)

Push(x) == Says("Push", <<x>>, 0) /\ bag' = [bag EXCEPT ![x] = @ + 1]

Pop(x) ==
  /\ Says("Pop", <<>>, x)
  /\ bag[x] > 0 /\ \A y \in Value : bag[y] > 0 => x <= y
  /\ bag' = [bag EXCEPT ![x] = @ - 1]

Remove(x) == Says("Remove", <<x>>, x) /\ bag[x] > 0 /\ bag' = [bag EXCEPT ![x] = @ - 1]

Fix(x, y) ==
  /\ Says("Fix", <<x, y>>, 0) /\ bag[x] > 0
  /\ bag' = [[bag EXCEPT ![x] = @ - 1] EXCEPT ![y] = @ + 1]

Next ==
  \/ Start
  \/ \E x \in Value : Push(x) \/ Pop(x) \/ Remove(x) \/ \E y \in Value : Fix(x, y)

Spec == Init /\ [][Next]_vars

=============================================================================
