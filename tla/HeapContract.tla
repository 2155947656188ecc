----------------------------- MODULE HeapContract -----------------------------
(***************************************************************************)
(* What the heap routines promise to a caller that keeps to their          *)
(* conditions.                                                             *)
(***************************************************************************)
EXTENDS Heap, FiniteSets

(* The invariant heap.go:16 states: no item is less than its parent.       *)
HeapOrder == \A i \in 0 .. Len(h) - 1, j \in 1 .. Len(h) - 1 :
               j \in {2 * i + 1, 2 * i + 2} => ~ Less(h, j, i)

(* The refinement: no routine loses or doubles an item, Pop returns a least*)
(* one, and Remove the one at its index.                                   *)
Promise == INSTANCE PriorityQueue WITH
             bag <- [x \in Value |-> Cardinality({i \in 1 .. Len(h) : h[i] = x})]

IsPriorityQueue == Promise!Spec

=============================================================================
