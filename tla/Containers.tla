----------------------------- MODULE Containers ------------------------------
(***************************************************************************)
(* The containers that stand alone in the package: List, Ring, the heap    *)
(* routines and Repeat.  A behaviour is one of any of them, picked at the  *)
(* start, and leaves the variables of the others alone.                    *)
(***************************************************************************)
EXTENDS Integers

CONSTANTS
  Lists, Elem, Mark, Zero, Nil,   (* lists, elements of lists and rings, values *)
  RingCount,                      (* the counts callers pass to Ring's methods  *)
  Rank, MaxHeap,                  (* values and length of a heap                *)
  MaxInt, MaxLen, RepeatCount     (* the largest int, and what Repeat is given  *)

VARIABLES kind, list, dropped, listResult, links, ringResult, h, heapResult, call, repeated

L == INSTANCE ListContract WITH Value <- Mark, heap <- list, result <- listResult
R == INSTANCE Ring WITH Count <- RingCount, result <- ringResult
H == INSTANCE HeapContract WITH Value <- Rank, MaxLen <- MaxHeap, result <- heapResult
P == INSTANCE Repeat WITH Item <- Mark, Count <- RepeatCount, result <- repeated

ASSUME ContainersAssumption ==
  L!ListAssumption /\ R!RingAssumption /\ H!HeapAssumption /\ P!RepeatAssumption

lists == <<list, dropped, listResult>>
rings == <<links, ringResult>>
heaps == <<h, heapResult>>
repeats == <<call, repeated>>

Init ==
  /\ kind \in {"list", "ring", "heap", "repeat"}
  /\ L!Init /\ R!Init /\ H!Init /\ P!Init

ListStep == kind = "list" /\ L!Next /\ UNCHANGED <<kind, rings, heaps, repeats>>
RingStep == kind = "ring" /\ R!Next /\ UNCHANGED <<kind, lists, heaps, repeats>>
HeapStep == kind = "heap" /\ H!Next /\ UNCHANGED <<kind, lists, rings, repeats>>
RepeatStep == kind = "repeat" /\ P!Next /\ UNCHANGED <<kind, lists, rings, heaps>>

Next == ListStep \/ RingStep \/ HeapStep \/ RepeatStep

Spec == Init /\ [][Next]_<<kind, lists, rings, heaps, repeats>>

(* List: next and prev are inverse, len counts, what is removed is free.   *)
LinkedBothWays == L!TypeOK

(* List: Back and Prev enumerate what Front and Next do, the other way.    *)
EnumeratedBothWays == L!BothWays

(* List: every method does to the sequence of elements what it says.       *)
IsListSeqs == L!IsListSeqs

(* Ring: next and prev are inverse, so that every walk comes back.         *)
RingsClosed == R!TypeOK

(* Ring: every method does to the cycles what it says.                     *)
IsCycles == R!IsCycles

(* heap.go: after every routine no item is less than its parent.           *)
HeapOrder == H!HeapOrder

(* heap.go: nothing is lost or doubled, and Pop returns a least item.      *)
IsPriorityQueue == H!IsPriorityQueue

(* items.go: count copies, or the panic that was promised.                 *)
Repeats == P!Repeats

=============================================================================
