----------------------------- MODULE ListContract -----------------------------
(***************************************************************************)
(* What List[T] promises to any caller that does not use the elements of a *)
(* list it has cleared.                                                    *)
(***************************************************************************)
EXTENDS List

(* The elements of a list, read forwards from its root, and backwards.     *)
Forwards(h, l) ==
  LET at[i \in 1 .. h.len[l]] == IF i = 1 THEN Front(h, l) ELSE NextOf(h, at[i - 1]) IN at
Backwards(h, l) ==
  LET at[i \in 1 .. h.len[l]] == IF i = 1 THEN Back(h, l) ELSE PrevOf(h, at[i - 1]) IN at

(* The refinement: a list is the sequence that Front and Next enumerate,   *)
(* and every method does to it what its comment says, copies of a list to  *)
(* itself included.                                                        *)
Promise == INSTANCE ListSeqs WITH
             seq <- [l \in Lists |-> Forwards(heap, l)],
             value <- heap.value

IsListSeqs == Promise!Spec

(* Next and prev of what is linked are inverse to each other and stay in   *)
(* the list, a list's len is the number of elements that name it, and what *)
(* has been removed names none and has no links.                           *)
Linked(x) == heap.next[x] # Nil
ListOf(x) == IF x \in Lists THEN x ELSE heap.list[x]

TypeOK ==
  /\ heap.next \in [Node -> Node \cup {Nil}] /\ heap.prev \in [Node -> Node \cup {Nil}]
  /\ heap.list \in [Elem -> Lists \cup {Nil}] /\ heap.value \in [Elem -> Value]
  /\ \A l \in Lists : heap.len[l] = Cardinality({e \in Handles : heap.list[e] = l})
  /\ \A x \in Node \ dropped :
       /\ Linked(x) =>
            /\ heap.next[x] \in Node \ dropped /\ heap.prev[x] \in Node \ dropped
            /\ heap.prev[heap.next[x]] = x /\ heap.next[heap.prev[x]] = x
            /\ ListOf(x) # Nil /\ ListOf(heap.next[x]) = ListOf(x)
       /\ ~ Linked(x) => heap.prev[x] = Nil /\ (x \in Elem => heap.list[x] = Nil)

(* Back and Prev enumerate the same elements the other way round, and each *)
(* comes to an end after len of them.                                      *)
BothWays ==
  \A l \in Lists :
    LET n == heap.len[l]
        there == Forwards(heap, l)
        back == Backwards(heap, l)
    IN  /\ \A i \in 1 .. n : there[i] = back[n + 1 - i]
        /\ n > 0 => NextOf(heap, there[n]) = Nil /\ PrevOf(heap, back[n]) = Nil

=============================================================================
