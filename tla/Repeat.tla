------------------------------- MODULE Repeat --------------------------------
(***************************************************************************)
(* Repeat (items.go): a slice of count copies of another one.  An int is at*)
(* most MaxInt, and wraps round to - MaxInt - 1.                           *)
(*                                                                         *)
(* call     the arguments of the last call                                 *)
(* result   what it returned, and how it ended                             *)
(***************************************************************************)
EXTENDS Integers, Sequences

CONSTANTS Item, Zero, MaxInt, MaxLen, Count

(* What the constants have to be.                                          *)
RepeatAssumption ==
  Zero \in Item /\ MaxInt \in Nat /\ MaxLen \in Nat /\ Count \subseteq Int

VARIABLES call, result

vars == <<call, result>>

Init == call = [b |-> <<>>, count |-> 0] /\ result = [out |-> <<>>, end |-> "return"]

(* What an int holds of x, and Go's division, which cuts towards 0.        *)
Wrapped(x) == ((x + MaxInt + 1) % (2 * (MaxInt + 1))) - (MaxInt + 1)
Quotient(x, y) == IF x < 0 THEN - ((- x) \div y) ELSE x \div y

(* Mutant: an overflow is taken to show in the sign.                       *)
OverflowsBySign(n, count) == Wrapped(n * count) < 0

Overflows(n, count) == Quotient(Wrapped(n * count), count) # n

(* The loop: what is there is copied behind itself, as far as it fits,     *)
(* until bp is at the end.  Once 2 * bp is no int any more bp is negative, *)
(* and nb[bp:] panics.                                                     *)
Copied(b, size) ==
  [nb |-> [i \in 1 .. size |-> IF i <= Len(b) THEN b[i] ELSE Zero], bp |-> Len(b)]

Turn(c, size) ==
  IF c.bp < 0 \/ c.bp >= size THEN c
  ELSE [nb |-> [i \in 1 .. size |-> IF i \in c.bp + 1 .. 2 * c.bp THEN c.nb[i - c.bp] ELSE c.nb[i]],
        bp |-> Wrapped(2 * c.bp)]

Doubled(b, size) ==
  LET step[k \in 0 .. size] == IF k = 0 THEN Copied(b, size) ELSE Turn(step[k - 1], size)
  IN  step[size]

Repeated(b, count) ==
  LET n == Len(b)
      d == Doubled(b, n * count)
  IN  IF count = 0 THEN [out |-> <<>>, end |-> "return"]
      ELSE IF count < 0 THEN [out |-> <<>>, end |-> "negative repeat count"]
      ELSE IF Overflows(n, count) THEN [out |-> <<>>, end |-> "count overflows"]
      ELSE IF d.bp < 0 THEN [out |-> <<>>, end |-> "bounds"]
      ELSE [out |-> d.nb, end |-> "return"]

Repeat(b, count) == call' = [b |-> b, count |-> count] /\ result' = Repeated(b, count)

Next == \E n \in 0 .. MaxLen, count \in Count : \E b \in [1 .. n -> Item] : Repeat(b, count)

Spec == Init /\ [][Next]_vars

-----------------------------------------------------------------------------

(* "It panics if count is negative or if the result of (len(b) * count)    *)
(* overflows" (items.go:5), and else returns count copies of b.  A slice of*)
(* more than half of all ints, which only a T of no size allows, may also  *)
(* end in a panic of its own.                                              *)
Repeats ==
  LET n == Len(call.b)
      size == n * call.count
      copies == [i \in 1 .. size |-> call.b[((i - 1) % n) + 1]]
  IN  CASE call.count < 0 -> result.end = "negative repeat count"
        [] call.count >= 0 /\ size > MaxInt -> result.end = "count overflows"
        [] call.count >= 0 /\ size <= MaxInt ->
             \/ result = [out |-> copies, end |-> "return"]
             \/ 2 * size > MaxInt + 1 /\ result.end = "bounds"

=============================================================================
