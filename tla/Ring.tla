-------------------------------- MODULE Ring ---------------------------------
(***************************************************************************)
(* Ring[T] (ring.go): an element of a circular list.  The zero value is a  *)
(* ring of one element whose links are set when a method first looks at    *)
(* them.  One goroutine calls the methods in any order, with any elements. *)
(*                                                                         *)
(* links    next and prev of every element, Nil in a zero value            *)
(* result   the last call, its arguments and what it returned: an element  *)
(*          or Nil, and for Do the elements in the order f sees them       *)
(***************************************************************************)
EXTENDS Integers, Sequences, FiniteSets, Functions

CONSTANTS Elem, Nil,
          Count   (* the counts callers pass                                  *)

(* What the constants have to be.                                          *)
RingAssumption == Nil \notin Elem /\ Count \subseteq Int

VARIABLES links, result

vars == <<links, result>>

NoResult == [op |-> "none", r |-> Nil, s |-> Nil, n |-> 0, e |-> Nil, seen |-> <<>>]

Init ==
  /\ links = [next |-> [e \in Elem |-> Nil], prev |-> [e \in Elem |-> Nil]]
  /\ result = NoResult

-----------------------------------------------------------------------------
(* The links after the lazy init of r, which Next, Prev and Move begin     *)
(* with, and what they then find.                                          *)
Linked(k, r) == IF k.next[r] = Nil THEN [k EXCEPT !.next[r] = r, !.prev[r] = r] ELSE k

Walked(f, r, n) == LET at[i \in 0 .. n] == IF i = 0 THEN r ELSE f[at[i - 1]] IN at[n]

MovedTo(k, r, n) == IF n < 0 THEN Walked(k.prev, r, -n) ELSE Walked(k.next, r, n)

(* Mutant: s.prev is read when it has become r.                            *)
JoinedLate(k, r, s) ==
  LET h == Linked(Linked(k, r), s)
      n == h.next[r]
  IN  [next |-> [h.next EXCEPT ![r] = n], prev |-> [h.prev EXCEPT ![s] = r, ![n] = r]]

(* The four assignments of Link, in their order.                           *)
Joined(k, r, s) ==
  LET h == Linked(Linked(k, r), s)
      n == h.next[r]
      p == h.prev[s]
  IN  [next |-> [h.next EXCEPT ![r] = s, ![p] = n], prev |-> [h.prev EXCEPT ![s] = r, ![n] = p]]

-----------------------------------------------------------------------------

Return(op, k, r, s, n, e, seen) ==
  /\ links' = k
  /\ result' = [op |-> op, r |-> r, s |-> s, n |-> n, e |-> e, seen |-> seen]

(* NewRing links n zero values to one ring; the first is returned.         *)
NewRing(n) ==
  \/ n <= 0 /\ Return("NewRing", links, Nil, Nil, n, Nil, <<>>)
  \/ /\ n > 0
     /\ \E new \in Injection(1 .. n, {e \in Elem : links.next[e] = Nil}) :
          LET i(e) == CHOOSE j \in 1 .. n : new[j] = e
              after(e) == new[(i(e) % n) + 1]
              before(e) == new[((i(e) + n - 2) % n) + 1]
          IN  Return("NewRing",
                     [next |-> [e \in Elem |-> IF e \in Range(new) THEN after(e) ELSE links.next[e]],
                      prev |-> [e \in Elem |-> IF e \in Range(new) THEN before(e) ELSE links.prev[e]]],
                     Nil, Nil, n, new[1], <<>>)

NextOf(r) == Return("Next", Linked(links, r), r, Nil, 0, Linked(links, r).next[r], <<>>)
PrevOf(r) == Return("Prev", Linked(links, r), r, Nil, 0, Linked(links, r).prev[r], <<>>)

Move(r, n) ==
  LET k == Linked(links, r) IN Return("Move", k, r, Nil, n, MovedTo(k, r, n), <<>>)

Link(r, s) ==
  LET n == Linked(links, r).next[r] IN
  IF s = Nil THEN Return("Link", Linked(links, r), r, Nil, 0, n, <<>>)
  ELSE Return("Link", Joined(links, r, s), r, s, 0, n, <<>>)

(* Mutant: r is linked to the last element that should go.                 *)
UnlinkOneShort(r, n) ==
  IF n <= 0 THEN Return("Unlink", links, r, Nil, n, Nil, <<>>)
  ELSE LET k == Linked(links, r) IN
       Return("Unlink", Joined(k, r, MovedTo(k, r, n)), r, Nil, n, k.next[r], <<>>)

Unlink(r, n) ==
  IF n <= 0 THEN Return("Unlink", links, r, Nil, n, Nil, <<>>)
  ELSE LET k == Linked(links, r) IN
       Return("Unlink", Joined(k, r, MovedTo(k, r, n + 1)), r, Nil, n, k.next[r], <<>>)

(* The elements from r to the one before r again, which Len counts.        *)
Around(k, r) ==
  LET size == CHOOSE n \in 1 .. Cardinality(Elem) :
                /\ Walked(k.next, r, n) = r
                /\ \A m \in 1 .. n - 1 : Walked(k.next, r, m) # r
  IN  [i \in 1 .. size |-> Walked(k.next, r, i - 1)]

(* Len and Do follow next until they are back.                             *)
Do(r) ==
  \/ r = Nil /\ Return("Do", links, Nil, Nil, 0, Nil, <<>>)
  \/ r # Nil /\ Return("Do", Linked(links, r), r, Nil, 0, Nil, Around(Linked(links, r), r))

-----------------------------------------------------------------------------

Next ==
  \/ \E n \in Count : NewRing(n)
  \/ \E r \in Elem :
       \/ NextOf(r)
       \/ PrevOf(r)
       \/ \E n \in Count : Move(r, n) \/ Unlink(r, n)
       \/ \E s \in Elem \cup {Nil} : Link(r, s)
  \/ \E r \in Elem \cup {Nil} : Do(r)

Spec == Init /\ [][Next]_vars

-----------------------------------------------------------------------------
(* What Ring[T] promises to any caller.                                    *)

(* The refinement: the rings are those that next runs through, a zero      *)
(* value alone in its own, and every method does to them what its comment  *)
(* says.                                                                   *)
Promise == INSTANCE Cycles WITH ring <- [r \in Elem |-> Around(Linked(links, r), r)]

IsCycles == Promise!Spec

(* next and prev are inverse to each other, so that every walk comes back; *)
(* an element has both links or none, and none links to one without.       *)
TypeOK ==
  \A e \in Elem :
    \/ links.next[e] = Nil /\ links.prev[e] = Nil
    \/ /\ links.next[e] \in Elem /\ links.prev[e] \in Elem
       /\ links.prev[links.next[e]] = e /\ links.next[links.prev[e]] = e

=============================================================================
