-------------------------------- MODULE Heap ---------------------------------
(***************************************************************************)
(* The heap routines of heap.go, on a Heap that is a slice ordered by <:   *)
(* Len, Less, Swap, Push and Pop are its owner's, everything else is here. *)
(* One goroutine calls the routines, and keeps to their conditions: Init   *)
(* comes first, and Pop, Remove and Fix are given an index there is.       *)
(*                                                                         *)
(* h        the items; the code's indices begin with 0                     *)
(* result   the last call, what it was given and what it returned: Remove  *)
(*          and Fix are given the item at the index, Fix the new one too   *)
(***************************************************************************)
EXTENDS Integers, Sequences

CONSTANTS Value, MaxLen   (* how long the heap may grow                       *)

(* What the constants have to be.                                          *)
HeapAssumption == Value \subseteq Int /\ Value # {} /\ MaxLen \in Nat \ {0}

VARIABLES h, result

vars == <<h, result>>

NoResult == [op |-> "none", given |-> <<>>, out |-> 0]

Init == h = <<>> /\ result = NoResult

At(s, i) == s[i + 1]
Less(s, i, j) == At(s, i) < At(s, j)
Swap(s, i, j) == [s EXCEPT ![i + 1] = At(s, j), ![j + 1] = At(s, i)]
Front(s) == SubSeq(s, 1, Len(s) - 1)

-----------------------------------------------------------------------------

(* up: j rises while it is less than its parent.  The root is its own      *)
(* parent in the code, where -1 / 2 is 0.                                  *)
Up(s, j0) ==
  LET Parent(j) == (j - 1) \div 2
      step[k \in 0 .. Len(s)] ==
        IF k = 0 THEN [s |-> s, j |-> j0]
        ELSE LET c == step[k - 1] IN
             IF c.j = 0 \/ ~ Less(c.s, c.j, Parent(c.j)) THEN c
             ELSE [s |-> Swap(c.s, Parent(c.j), c.j), j |-> Parent(c.j)]
  IN  step[Len(s)].s

(* down: i falls below its lesser child, among the first n, while that is  *)
(* less than it.  Returns where it came to as well.                        *)
Down(s, i0, n) ==
  LET Lesser(t, j) == IF j + 1 < n /\ Less(t, j + 1, j) THEN j + 1 ELSE j
      step[k \in 0 .. Len(s)] ==
        IF k = 0 THEN [s |-> s, i |-> i0]
        ELSE LET c == step[k - 1]
                 j == Lesser(c.s, 2 * c.i + 1)
             IN  IF 2 * c.i + 1 >= n \/ ~ Less(c.s, j, c.i) THEN c
                 ELSE [s |-> Swap(c.s, c.i, j), i |-> j]
  IN  step[Len(s)]

DownOrUp(s, i, n) == LET d == Down(s, i, n) IN IF d.i > i THEN d.s ELSE Up(d.s, i)

(* Init goes down from the last item that has a child to the first.        *)
Heapified(s) ==
  LET half == Len(s) \div 2
      step[k \in 0 .. half] == IF k = 0 THEN s ELSE Down(step[k - 1], half - k, Len(s)).s
  IN  step[half]

-----------------------------------------------------------------------------

Return(op, s, given, out) == h' = s /\ result' = [op |-> op, given |-> given, out |-> out]

(* The caller's slice is s when it calls Init.  What becomes of it depends *)
(* on nothing else, so that it is enough to call Init first.               *)
InitHeap(s) == h = <<>> /\ Return("Init", Heapified(s), s, 0)

Push(x) ==
  /\ Len(h) < MaxLen
  /\ Return("Push", Up(Append(h, x), Len(h)), <<x>>, 0)

(* Mutant: the item that is to be returned goes down with the others.      *)
PopDownsAll ==
  /\ h # <<>>
  /\ LET n == Len(h) - 1
         s == Down(Swap(h, 0, n), 0, n + 1).s
     IN  Return("Pop", Front(s), <<>>, At(s, n))

Pop ==
  /\ h # <<>>
  /\ LET n == Len(h) - 1
         s == Down(Swap(h, 0, n), 0, n).s
     IN  Return("Pop", Front(s), <<>>, At(s, n))

(* Mutant: the item that fills the gap may go down, but not up.            *)
RemoveDownOnly(i) ==
  /\ i < Len(h)
  /\ LET n == Len(h) - 1
         s == IF n = i THEN h ELSE Down(Swap(h, i, n), i, n).s
     IN  Return("Remove", Front(s), <<At(h, i)>>, At(s, n))

Remove(i) ==
  /\ i < Len(h)
  /\ LET n == Len(h) - 1
         s == IF n = i THEN h ELSE DownOrUp(Swap(h, i, n), i, n)
     IN  Return("Remove", Front(s), <<At(h, i)>>, At(s, n))

(* The caller has set item i to x.                                         *)
Fix(i, x) ==
  /\ i < Len(h)
  /\ Return("Fix", DownOrUp([h EXCEPT ![i + 1] = x], i, Len(h)), <<At(h, i), x>>, 0)

-----------------------------------------------------------------------------

Next ==
  \/ \E n \in 0 .. MaxLen : \E s \in [1 .. n -> Value] : InitHeap(s)
  \/ \E x \in Value : Push(x)
  \/ Pop
  \/ \E i \in 0 .. MaxLen - 1 : Remove(i) \/ \E x \in Value : Fix(i, x)

Spec == Init /\ [][Next]_vars

=============================================================================
