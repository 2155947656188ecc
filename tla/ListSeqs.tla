------------------------------- MODULE ListSeqs -------------------------------
(***************************************************************************)
(* What List[T] promises, with no links and no lengths: every list is a    *)
(* sequence of its elements, and an element is in at most one of them.     *)
(*                                                                         *)
(* seq     the elements of every list, front to back                       *)
(* value   the Value of every element                                      *)
(* result  the last call and what it returned                              *)
(***************************************************************************)
EXTENDS Integers, Sequences, SequencesExt

CONSTANTS Lists, Elem, Value, Zero, Nil

VARIABLES seq, value, result

vars == <<seq, value, result>>

Init ==
  /\ seq = [l \in Lists |-> <<>>] /\ value = [e \in Elem |-> Zero]
  /\ result = [op |-> "none", list |-> Nil, e |-> Nil, at |-> Nil, value |-> Zero]

In(l) == ToSet(seq[l])
Free == Elem \ UNION {In(l) : l \in Lists}
At(l, e) == CHOOSE i \in 1 .. Len(seq[l]) : seq[l][i] = e

Becomes(l, s) == seq' = [seq EXCEPT ![l] = s]
Says(op, l, e, at, v) ==
  result' = [op |-> op, list |-> l, e |-> e, at |-> at, value |-> v]

Clear(l) == Says("Init", l, Nil, Nil, Zero) /\ Becomes(l, <<>>) /\ UNCHANGED value

Take(l, e) ==
  /\ Says("Remove", l, e, Nil, value[e])
  /\ IF e \in In(l) THEN Becomes(l, RemoveAt(seq[l], At(l, e))) ELSE UNCHANGED seq
  /\ UNCHANGED value

(* Some e, which is in no list, is put into l as its i-th element.         *)
Put(op, l, mark, i) ==
  \E e \in Free :
    /\ Says(op, l, e, mark, Zero)
    /\ \E v \in Value : value' = [value EXCEPT ![e] = v]
    /\ Becomes(l, InsertAt(seq[l], i, e))

PutBeside(op, l, mark) ==
  \/ mark \notin In(l) /\ UNCHANGED <<seq, value>> /\ Says(op, l, Nil, mark, Zero)
  \/ mark \in In(l) /\ Put(op, l, mark, At(l, mark) + IF op = "InsertBefore" THEN 0 ELSE 1)

(* e becomes the first or last element, or the one before or after mark.   *)
Moved(op, l, e, mark) ==
  LET rest == RemoveAt(seq[l], At(l, e))
      i == CHOOSE j \in 1 .. Len(rest) : rest[j] = mark
  IN  CASE op = "MoveToFront" -> <<e>> \o rest
        [] op = "MoveToBack" -> rest \o <<e>>
        [] op = "MoveBefore" -> InsertAt(rest, i, e)
        [] op = "MoveAfter" -> InsertAt(rest, i + 1, e)

Shift(op, l, e, mark) ==
  /\ Says(op, l, e, mark, Zero) /\ UNCHANGED value
  /\ IF e \in In(l) /\ (mark = Nil \/ mark \in In(l) \ {e})
     THEN Becomes(l, Moved(op, l, e, mark))
     ELSE UNCHANGED seq

(* The values of other, in its order, in new elements.                     *)
PutList(op, l, other) ==
  /\ Says(op, l, Nil, other, Zero)
  /\ \E new \in Injection(1 .. Len(seq[other]), Free) :
       /\ Becomes(l, IF op = "PushBackList" THEN seq[l] \o new ELSE new \o seq[l])
       /\ value' = [e \in Elem |-> IF e \in ToSet(new) THEN value[seq[other][Inverse(new, DOMAIN new, Elem)[e]]]
                                   ELSE value[e]]

Next ==
  \E l \in Lists :
    \/ Clear(l)
    \/ Put("PushFront", l, Nil, 1) \/ Put("PushBack", l, Nil, Len(seq[l]) + 1)
    \/ \E other \in Lists, op \in {"PushBackList", "PushFrontList"} : PutList(op, l, other)
    \/ \E e \in Elem :
         \/ Take(l, e)
         \/ \E op \in {"InsertBefore", "InsertAfter"} : PutBeside(op, l, e)
         \/ \E op \in {"MoveToFront", "MoveToBack"} : Shift(op, l, e, Nil)
         \/ \E mark \in Elem, op \in {"MoveBefore", "MoveAfter"} : Shift(op, l, e, mark)

Spec == Init /\ [][Next]_vars

=============================================================================
