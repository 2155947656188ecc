-------------------------------- MODULE List ---------------------------------
(***************************************************************************)
(* List[T] (list.go): doubly linked lists.  Internally a list is a ring of *)
(* its elements and its root; a zero list has a root with no links until a *)
(* method inserts into it.  One goroutine calls the methods in any order,  *)
(* with any element: one of this list, of another, or of none.             *)
(*                                                                         *)
(* heap     the memory: next and prev of every node (a list stands for its *)
(*          root), and of every element the list it belongs to and Value;  *)
(*          and the len of every list                                      *)
(* dropped  the elements of lists that Init has cleared: the code goes on  *)
(*          to take them for elements of that list, so that a caller must  *)
(*          not use them any more                                          *)
(* result   the last call, its mark or other list, and what it returned    *)
(***************************************************************************)
EXTENDS Integers, Sequences, FiniteSets, Functions

CONSTANTS Lists, Elem, Value, Zero, Nil

(* What the constants have to be.                                          *)
ListAssumption ==
  /\ Lists \cap Elem = {} /\ Nil \notin Lists \cup Elem
  /\ Zero \in Value

VARIABLES heap, dropped, result

vars == <<heap, dropped, result>>

Node == Lists \cup Elem
NoResult == [op |-> "none", list |-> Nil, e |-> Nil, at |-> Nil, value |-> Zero]

(* Every element and every list is the zero value of its type.             *)
Init ==
  /\ heap = [next |-> [x \in Node |-> Nil], prev |-> [x \in Node |-> Nil],
             list |-> [e \in Elem |-> Nil], value |-> [e \in Elem |-> Zero],
             len |-> [l \in Lists |-> 0]]
  /\ dropped = {}
  /\ result = NoResult

(* What the heap was made of and what a caller may pass.                   *)
Handles == Elem \ dropped
Unused(h) == {e \in Handles : h.list[e] = Nil}

-----------------------------------------------------------------------------
(* The list's own helpers.                                                 *)

Cleared(h, l) == [h EXCEPT !.next[l] = l, !.prev[l] = l, !.len[l] = 0]
LazyInit(h, l) == IF h.next[l] = Nil THEN Cleared(h, l) ELSE h

(* x.next = y and y.prev = x                                               *)
Joined(h, x, y) == [h EXCEPT !.next[x] = y, !.prev[y] = x]

(* Mutant: e.next is read after at.next has been set.                      *)
InsertedLate(h, l, e, at) ==
  LET g == Joined(h, at, e) IN
  [Joined(g, e, g.next[at]) EXCEPT !.list[e] = l, !.len[l] = @ + 1]

Inserted(h, l, e, at) ==
  [Joined(Joined(h, e, h.next[at]), at, e) EXCEPT !.list[e] = l, !.len[l] = @ + 1]

InsertedValue(h, l, e, v, at) == Inserted([h EXCEPT !.value[e] = v], l, e, at)

(* Mutant: an element that leaves its list goes on to name it.             *)
RemovedStillOwned(h, l, e) ==
  [Joined(h, h.prev[e], h.next[e]) EXCEPT !.next[e] = Nil, !.prev[e] = Nil, !.len[l] = @ - 1]

Removed(h, l, e) ==
  [Joined(h, h.prev[e], h.next[e]) EXCEPT !.next[e] = Nil, !.prev[e] = Nil, !.list[e] = Nil,
                                          !.len[l] = @ - 1]

(* Mutant: at.next is read before e has been taken out.                    *)
MovedStale(h, e, at) ==
  IF e = at THEN h
  ELSE LET g == Joined(h, h.prev[e], h.next[e]) IN Joined(Joined(g, e, h.next[at]), at, e)

(* at.next is read when e has been taken out.                              *)
Moved(h, e, at) ==
  IF e = at THEN h
  ELSE LET g == Joined(h, h.prev[e], h.next[e]) IN Joined(Joined(g, e, g.next[at]), at, e)

-----------------------------------------------------------------------------
(* What can be asked of a list without changing it.                        *)

Front(h, l) == IF h.len[l] = 0 THEN Nil ELSE h.next[l]
Back(h, l) == IF h.len[l] = 0 THEN Nil ELSE h.prev[l]
NextOf(h, e) == IF h.list[e] # Nil /\ h.next[e] # h.list[e] THEN h.next[e] ELSE Nil
PrevOf(h, e) == IF h.list[e] # Nil /\ h.prev[e] # h.list[e] THEN h.prev[e] ELSE Nil

-----------------------------------------------------------------------------

Return(op, l, h, e, at, v) ==
  heap' = h /\ result' = [op |-> op, list |-> l, e |-> e, at |-> at, value |-> v]

InitList(l) ==
  /\ Return("Init", l, Cleared(heap, l), Nil, Nil, Zero)
  /\ dropped' = dropped \cup {e \in Elem : heap.list[e] = l}

Remove(l, e) ==
  /\ UNCHANGED dropped
  /\ Return("Remove", l, IF heap.list[e] = l THEN Removed(heap, l, e) ELSE heap, e, Nil, heap.value[e])

PushFront(l) ==
  /\ UNCHANGED dropped
  /\ \E e \in Unused(heap), v \in Value :
       Return("PushFront", l, InsertedValue(LazyInit(heap, l), l, e, v, l), e, Nil, Zero)

PushBack(l) ==
  /\ UNCHANGED dropped
  /\ LET h == LazyInit(heap, l) IN
     \E e \in Unused(h), v \in Value :
       Return("PushBack", l, InsertedValue(h, l, e, v, h.prev[l]), e, Nil, Zero)

(* A mark of another list, or of none, changes nothing and gives nil.      *)
Insert(op, l, mark, at) ==
  /\ UNCHANGED dropped
  /\ \/ heap.list[mark] # l /\ Return(op, l, heap, Nil, mark, Zero)
     \/ /\ heap.list[mark] = l
        /\ \E e \in Unused(heap), v \in Value :
             Return(op, l, InsertedValue(heap, l, e, v, at), e, mark, Zero)

InsertBefore(l, mark) == Insert("InsertBefore", l, mark, heap.prev[mark])
InsertAfter(l, mark) == Insert("InsertAfter", l, mark, mark)

Move(op, l, e, mark, stays, at) ==
  /\ UNCHANGED dropped
  /\ Return(op, l, IF stays THEN heap ELSE Moved(heap, e, at), e, mark, Zero)

MoveToFront(l, e) == Move("MoveToFront", l, e, Nil, heap.list[e] # l \/ heap.next[l] = e, l)
MoveToBack(l, e) == Move("MoveToBack", l, e, Nil, heap.list[e] # l \/ heap.prev[l] = e, heap.prev[l])

Apart(l, e, mark) == heap.list[e] # l \/ e = mark \/ heap.list[mark] # l
MoveBefore(l, e, mark) == Move("MoveBefore", l, e, mark, Apart(l, e, mark), heap.prev[mark])
MoveAfter(l, e, mark) == Move("MoveAfter", l, e, mark, Apart(l, e, mark), mark)

(* The loops of PushBackList and PushFrontList: other's length is read     *)
(* once, and its elements are followed while l, which may be other, grows. *)
(* new are the elements that are allocated, in that order.                 *)
CopiedBack(h, l, other, new) ==
  LET step[i \in 0 .. Len(new)] ==
        IF i = 0 THEN [h |-> h, at |-> Front(h, other)]
        ELSE LET c == step[i - 1]
                 g == InsertedValue(c.h, l, new[i], c.h.value[c.at], c.h.prev[l])
             IN  [h |-> g, at |-> NextOf(g, c.at)]
  IN  step[Len(new)].h

CopiedFront(h, l, other, new) ==
  LET step[i \in 0 .. Len(new)] ==
        IF i = 0 THEN [h |-> h, at |-> Back(h, other)]
        ELSE LET c == step[i - 1]
                 g == InsertedValue(c.h, l, new[i], c.h.value[c.at], l)
             IN  [h |-> g, at |-> PrevOf(g, c.at)]
  IN  step[Len(new)].h

PushList(op, l, h, Copied(_, _)) ==
  /\ UNCHANGED dropped
  /\ \E other \in Lists : \E new \in Injection(1 .. h.len[other], Unused(h)) :
       Return(op, l, Copied(other, new), Nil, other, Zero)

PushBackList(l) ==
  LET h == LazyInit(heap, l)
      Copied(other, new) == CopiedBack(h, l, other, new)
  IN  PushList("PushBackList", l, h, Copied)

PushFrontList(l) ==
  LET h == LazyInit(heap, l)
      Copied(other, new) == CopiedFront(h, l, other, new)
  IN  PushList("PushFrontList", l, h, Copied)

-----------------------------------------------------------------------------
(* Any caller that drops the elements of a list it clears.                 *)

Next ==
  \E l \in Lists :
    \/ InitList(l)
    \/ PushFront(l)
    \/ PushBack(l)
    \/ PushBackList(l)
    \/ PushFrontList(l)
    \/ \E e \in Handles :
         \/ Remove(l, e)
         \/ MoveToFront(l, e)
         \/ MoveToBack(l, e)
         \/ InsertBefore(l, e)
         \/ InsertAfter(l, e)
         \/ \E mark \in Handles : MoveBefore(l, e, mark) \/ MoveAfter(l, e, mark)

Spec == Init /\ [][Next]_vars

=============================================================================
