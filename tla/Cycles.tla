-------------------------------- MODULE Cycles --------------------------------
(***************************************************************************)
(* What Ring[T] promises, with no links: the elements are parted into      *)
(* rings, and from each element its ring is a sequence that begins with    *)
(* it.                                                                     *)
(*                                                                         *)
(* ring    of every element, its ring as seen from it                      *)
(* result  the last call, its arguments and what it returned               *)
(***************************************************************************)
EXTENDS Integers, Sequences, Functions

CONSTANTS Elem, Nil, Count

VARIABLES ring, result

vars == <<ring, result>>

NoResult == [op |-> "none", r |-> Nil, s |-> Nil, n |-> 0, e |-> Nil, seen |-> <<>>]

Init == ring = [e \in Elem |-> <<e>>] /\ result = NoResult

Says(op, r, s, n, e, seen) ==
  result' = [op |-> op, r |-> r, s |-> s, n |-> n, e |-> e, seen |-> seen]

(* c as seen from its i-th element.                                        *)
From(c, i) == SubSeq(c, i, Len(c)) \o SubSeq(c, 1, i - 1)

(* The rings when those in S have become those in Cs.                      *)
Become(Cs) ==
  ring' = [e \in Elem |->
             IF \E c \in Cs : e \in Range(c)
             THEN LET c == CHOOSE d \in Cs : e \in Range(d) IN From(c, CHOOSE i \in 1 .. Len(c) : c[i] = e)
             ELSE ring[e]]

NewRing(n) ==
  \/ n <= 0 /\ Says("NewRing", Nil, Nil, n, Nil, <<>>) /\ UNCHANGED ring
  \/ /\ n > 0 /\ result'.e # Nil /\ Says("NewRing", Nil, Nil, n, result'.e, <<>>)
     /\ \E new \in Injection(1 .. n, {e \in Elem : ring[e] = <<e>>}) :
          new[1] = result'.e /\ Become({new})

(* The element n places on, or back.                                       *)
Ahead(r, n) == ring[r][(n % Len(ring[r])) + 1]

Look(r) ==
  /\ UNCHANGED ring
  /\ \/ Says("Next", r, Nil, 0, Ahead(r, 1), <<>>)
     \/ Says("Prev", r, Nil, 0, Ahead(r, -1), <<>>)
     \/ Says("Link", r, Nil, 0, Ahead(r, 1), <<>>)
     \/ Says("Do", r, Nil, 0, Nil, ring[r])
     \/ \E n \in Count : Says("Move", r, Nil, n, Ahead(r, n), <<>>)

(* The first k elements after r leave its ring and make one of their own.  *)
Cut(r, k) ==
  LET c == ring[r] IN
  Become({<<r>> \o SubSeq(c, k + 2, Len(c)), SubSeq(c, 2, k + 1)})

(* "If r and s point to the same ring, linking them removes the elements   *)
(* between r and s from the ring."  "If r and s point to different rings,  *)
(* linking them creates a single ring with the elements of s inserted      *)
(* after r."                                                               *)
Link(r, s) ==
  /\ Says("Link", r, s, 0, Ahead(r, 1), <<>>)
  /\ LET c == ring[r]
         between == IF s = r THEN Len(c) - 1 ELSE (CHOOSE i \in 2 .. Len(c) : c[i] = s) - 2
     IN  IF s \in Range(c) THEN Cut(r, between) ELSE Become({<<r>> \o ring[s] \o Tail(c)})

(* "Unlink removes n % r.Len() elements from the ring r, starting at       *)
(* r.Next().  If n % r.Len() == 0, r remains unchanged."                   *)
Unlink(r, n) ==
  \/ n <= 0 /\ Says("Unlink", r, Nil, n, Nil, <<>>) /\ UNCHANGED ring
  \/ /\ n > 0 /\ Says("Unlink", r, Nil, n, Ahead(r, 1), <<>>)
     /\ Cut(r, n % Len(ring[r]))

Next ==
  \/ \E n \in Count : NewRing(n)
  \/ \E r \in Elem :
       \/ Look(r)
       \/ \E s \in Elem : Link(r, s)
       \/ \E n \in Count : Unlink(r, n)
  \/ Says("Do", Nil, Nil, 0, Nil, <<>>) /\ UNCHANGED ring

Spec == Init /\ [][Next]_vars

=============================================================================
