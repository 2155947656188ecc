-------------------------- MODULE Containers_proofs ---------------------------
(***************************************************************************)
(* Theorems about the containers, for every set of elements, every set of  *)
(* values and every caller the constants describe.                         *)
(***************************************************************************)
EXTENDS Containers, FiniteSets, Sequences, WellFoundedInduction, FiniteSetTheorems,
        SequenceTheorems, TLAPS

LEMMA LeastNatural ==
  ASSUME NEW T \in SUBSET Nat, T # {}
  PROVE  \E x \in T : \A y \in T : x <= y
<1>1. PICK x \in T : \A y \in T : ~ (<<y, x>> \in OpToRel(<, Nat))
  BY NatLessThanWellFounded, WFMin
<1>2. \A y \in T : ~ (y < x)
  BY <1>1 DEF OpToRel
<1> QED BY <1>2

-----------------------------------------------------------------------------
(* Loops.  A loop of n turns is a function on 0 .. n, each of whose values *)
(* is made from the one before; D[k] is what is known after k turns.       *)

LEMMA LoopHolds ==
  ASSUME NEW n \in Nat, NEW D, NEW f, f[0] \in D[0],
         \A k \in 1 .. n : f[k - 1] \in D[k - 1] => f[k] \in D[k]
  PROVE  \A k \in 0 .. n : f[k] \in D[k]
<1> DEFINE T == {k \in 0 .. n : f[k] \notin D[k]}
<1>1. SUFFICES ASSUME T # {} PROVE FALSE
  OBVIOUS
<1>2. T \in SUBSET Nat
  OBVIOUS
<1> HIDE DEF T
<1>3. PICK k \in T : \A j \in T : k <= j
  BY <1>1, <1>2, LeastNatural
<1>4. k \in 0 .. n /\ f[k] \notin D[k] /\ k # 0
  BY <1>3 DEF T
<1>5. k - 1 \in 0 .. n /\ k \in 1 .. n /\ ~ (k <= k - 1)
  BY <1>4
<1>6. f[k - 1] \in D[k - 1]
  BY <1>3, <1>5 DEF T
<1> QED BY <1>4, <1>5, <1>6

(* F[k] makes the k-th value from the one before.                          *)
Loop(f, n, x, F) == f = [k \in 0 .. n |-> IF k = 0 THEN x ELSE F[k][f[k - 1]]]

(* There is such a function.                                               *)
LEMMA LoopExists ==
  ASSUME NEW n \in Nat, NEW D, NEW F, NEW x \in D[0],
         \A k \in 1 .. n : \A c \in D[k - 1] : F[k][c] \in D[k]
  PROVE  \E f : Loop(f, n, x, F) /\ \A k \in 0 .. n : f[k] \in D[k]
<1> USE DEF Loop
<1> DEFINE Upto(m, f) == Loop(f, m, x, F) /\ \A k \in 0 .. m : f[k] \in D[k]
           T == {m \in 0 .. n : ~ \E f : Upto(m, f)}
<1>1. SUFFICES ASSUME T # {} PROVE FALSE
  <2>1. n \in 0 .. n
    OBVIOUS
  <2> QED BY <2>1
<1>2. T \in SUBSET Nat
  OBVIOUS
<1>3. PICK m \in T : \A j \in T : m <= j
  <2> HIDE DEF T
  <2> QED BY <1>1, <1>2, LeastNatural
<1>4. m \in 0 .. n /\ ~ \E f : Upto(m, f)
  BY <1>3
<1>5. m # 0
  <2> DEFINE g == [k \in 0 .. 0 |-> x]
  <2>1. g[0] = x /\ \A k \in 0 .. 0 : k = 0
    OBVIOUS
  <2>2. g = [k \in 0 .. 0 |-> IF k = 0 THEN x ELSE F[k][g[k - 1]]]
    BY <2>1
  <2> HIDE DEF g
  <2>3. Upto(0, g)
    BY <2>1, <2>2
  <2> QED BY <1>4, <2>3
<1>6. m - 1 \in 0 .. n /\ m \in 1 .. n /\ ~ (m <= m - 1) /\ m \in Nat
  BY <1>4, <1>5
<1>7. PICK f : Upto(m - 1, f)
  BY <1>3, <1>6
<1> DEFINE g == [k \in 0 .. m |-> IF k = m THEN F[m][f[m - 1]] ELSE f[k]]
<1>8. \A k \in 0 .. m : k = m \/ (k \in 0 .. m - 1 /\ k # m)
  BY <1>6
<1>9. \A k \in 0 .. m - 1 : g[k] = f[k]
  BY <1>6
<1>10. g[m] = F[m][f[m - 1]] /\ m \in 0 .. m /\ m - 1 \in 0 .. m - 1
  BY <1>6
<1>11. \A k \in 0 .. m - 1 : f[k] = IF k = 0 THEN x ELSE F[k][f[k - 1]]
  BY <1>7
<1>12. g = [k \in 0 .. m |-> IF k = 0 THEN x ELSE F[k][g[k - 1]]]
  <2>1. ASSUME NEW k \in 0 .. m PROVE g[k] = IF k = 0 THEN x ELSE F[k][g[k - 1]]
    <3> HIDE DEF g
    <3>1. CASE k = m
      BY <1>6, <1>9, <1>10, <3>1
    <3>2. CASE k # m
      <4>1. k \in 0 .. m - 1 /\ (k # 0 => k - 1 \in 0 .. m - 1)
        BY <1>6, <3>2
      <4> QED BY <1>9, <1>11, <4>1
    <3> QED BY <3>1, <3>2
  <2> QED BY <2>1
<1>13. \A k \in 0 .. m : g[k] \in D[k]
  <2> HIDE DEF g
  <2> QED BY <1>6, <1>7, <1>8, <1>9, <1>10
<1> HIDE DEF g
<1>14. Upto(m, g)
  BY <1>12, <1>13
<1> QED BY <1>4, <1>14

-----------------------------------------------------------------------------
(* Rings: the links go both ways.                                          *)

LinkType == [next : [Elem -> Elem \cup {Nil}], prev : [Elem -> Elem \cup {Nil}]]

Mutual(k, e) ==
  \/ k.next[e] = Nil /\ k.prev[e] = Nil
  \/ /\ k.next[e] \in Elem /\ k.prev[e] \in Elem
     /\ k.prev[k.next[e]] = e /\ k.next[k.prev[e]] = e

Closed(k) == k \in LinkType /\ \A e \in Elem : Mutual(k, e)

LEMMA NilApart == Nil \notin Elem
BY ContainersAssumption DEF R!RingAssumption

LEMMA LinkedClosed ==
  ASSUME NEW k, Closed(k), NEW r \in Elem
  PROVE  LET m == R!Linked(k, r)
         IN  /\ Closed(m) /\ m.next[r] \in Elem /\ m.prev[r] \in Elem
             /\ \A e \in Elem : k.next[e] \in Elem => m.next[e] \in Elem /\ m.prev[e] \in Elem
<1> DEFINE m == R!Linked(k, r)
<1>1. CASE k.next[r] # Nil
  BY <1>1, NilApart DEF R!Linked, Closed, Mutual
<1>2. CASE k.next[r] = Nil
  <2>1. m = [k EXCEPT !.next[r] = r, !.prev[r] = r]
    BY <1>2 DEF R!Linked
  <2>k. k \in LinkType
    BY DEF Closed
  <2> HIDE DEF m
  <2>2. /\ m.next = [k.next EXCEPT ![r] = r] /\ m.prev = [k.prev EXCEPT ![r] = r]
        /\ m \in LinkType
    BY <2>1, <2>k DEF LinkType
  <2>3. /\ m.next[r] = r /\ m.prev[r] = r
        /\ \A e \in Elem : e # r => m.next[e] = k.next[e] /\ m.prev[e] = k.prev[e]
    BY <2>2 DEF Closed, LinkType
  <2>4. \A e \in Elem : k.next[e] # r /\ k.prev[e] # r
    BY <1>2, NilApart DEF Closed, Mutual
  <2>5. ASSUME NEW e \in Elem PROVE Mutual(m, e)
    BY <2>3, <2>4, NilApart DEF Closed, Mutual
  <2>6. Closed(m) /\ m.next[r] \in Elem /\ m.prev[r] \in Elem
    BY <2>2, <2>3, <2>5 DEF Closed
  <2>7. \A e \in Elem : k.next[e] \in Elem => m.next[e] \in Elem /\ m.prev[e] \in Elem
    BY <2>3, NilApart DEF Closed, Mutual
  <2> QED BY <2>6, <2>7 DEF m
<1> QED BY <1>1, <1>2

(* Link's four assignments.                                                *)
LEMMA JoinedClosed ==
  ASSUME NEW k, Closed(k), NEW r \in Elem, NEW s \in Elem
  PROVE  Closed(R!Joined(k, r, s))
<1> DEFINE a == R!Linked(R!Linked(k, r), s)
           n == a.next[r]
           p == a.prev[s]
           m == R!Joined(k, r, s)
<1>1. Closed(a) /\ n \in Elem /\ p \in Elem /\ a.next[s] \in Elem /\ a.prev[r] \in Elem
  <2>1. Closed(R!Linked(k, r)) /\ R!Linked(k, r).next[r] \in Elem
    BY LinkedClosed
  <2> QED BY <2>1, LinkedClosed
<1>2. /\ m.next = [a.next EXCEPT ![r] = s, ![p] = n] /\ m.prev = [a.prev EXCEPT ![s] = r, ![n] = p]
      /\ m = [next |-> m.next, prev |-> m.prev]
  BY DEF R!Joined
<1> HIDE DEF m
<1>3. a.prev[n] = r /\ a.next[p] = s /\ a \in LinkType
  BY <1>1, NilApart DEF Closed, Mutual
<1> HIDE DEF a, n, p
<1>4. m \in LinkType
  BY <1>1, <1>2, <1>3 DEF LinkType
<1>5. /\ \A e \in Elem : m.next[e] = IF e = p THEN n ELSE IF e = r THEN s ELSE a.next[e]
      /\ \A e \in Elem : m.prev[e] = IF e = n THEN p ELSE IF e = s THEN r ELSE a.prev[e]
  BY <1>1, <1>2, <1>3 DEF LinkType
<1>6. a.next[r] = n /\ a.prev[s] = p
  BY DEF n, p
<1>7. ASSUME NEW e \in Elem PROVE Mutual(m, e)
  <2>1. Mutual(a, e)
    BY <1>1 DEF Closed
  <2>2. p = r <=> n = s
    BY <1>1, <1>3, <1>6
  <2>3. m.next[e] = Nil <=> a.next[e] = Nil
    BY <1>1, <1>3, <1>5, <1>6, <2>1, NilApart DEF Mutual
  <2>4. CASE a.next[e] = Nil
    <3>1. a.prev[e] = Nil /\ e # n /\ e # s
      BY <1>1, <1>3, <1>6, <2>1, <2>4, NilApart DEF Mutual
    <3> QED BY <1>5, <2>3, <2>4, <3>1 DEF Mutual
  <2>5. CASE a.next[e] # Nil
    <3>1. /\ a.next[e] \in Elem /\ a.prev[e] \in Elem
          /\ a.prev[a.next[e]] = e /\ a.next[a.prev[e]] = e
      BY <2>1, <2>5 DEF Mutual
    <3>2. m.next[e] \in Elem /\ m.prev[e] \in Elem
      BY <1>1, <1>5, <3>1
    <3>3. m.prev[m.next[e]] = e
      BY <1>1, <1>3, <1>5, <1>6, <2>2, <3>1, <3>2
    <3>4. m.next[m.prev[e]] = e
      BY <1>1, <1>3, <1>5, <1>6, <2>2, <3>1, <3>2
    <3> QED BY <3>2, <3>3, <3>4 DEF Mutual
  <2> QED BY <2>4, <2>5
<1>8. Closed(m)
  BY <1>4, <1>7 DEF Closed
<1> QED BY <1>8 DEF m

(* Move's loop stays among linked elements.                                *)
LEMMA WalkedIn ==
  ASSUME NEW S, NEW f, \A e \in S : f[e] \in S, NEW r \in S, NEW n \in Nat
  PROVE  R!Walked(f, r, n) \in S
<1> DEFINE D == [k \in 0 .. n |-> S]
           F == [k \in 1 .. n |-> [c \in S |-> f[c]]]
           Is(at) == at = [i \in 0 .. n |-> IF i = 0 THEN r ELSE f[at[i - 1]]]
           walk == CHOOSE at : Is(at)
<1>1. \E at : Is(at)
  <2>1. /\ r \in D[0]
        /\ \A k \in 1 .. n : \A c \in D[k - 1] : F[k][c] \in D[k]
    OBVIOUS
  <2>2. \A k \in 1 .. n : k - 1 \in 0 .. n /\ D[k - 1] = S
    OBVIOUS
  <2>3. \A k \in 0 .. n : D[k] = S
    OBVIOUS
  <2> HIDE DEF D
  <2>4. \A k \in 1 .. n : \A c \in S : F[k][c] = f[c]
    OBVIOUS
  <2> HIDE DEF F
  <2>5. PICK at : Loop(at, n, r, F) /\ \A k \in 0 .. n : at[k] \in D[k]
    BY <2>1, LoopExists
  <2>6. \A k \in 0 .. n : k # 0 => k \in 1 .. n /\ F[k][at[k - 1]] = f[at[k - 1]]
    BY <2>2, <2>4, <2>5
  <2> QED BY <2>5, <2>6 DEF Loop
<1>2. Is(walk)
  BY <1>1
<1>3. \A k \in 0 .. n : walk[k] \in S
  <2> HIDE DEF walk
  <2>1. /\ walk[0] = r
        /\ \A k \in 1 .. n : walk[k] = f[walk[k - 1]] /\ k - 1 \in 0 .. n /\ k \in 0 .. n
    BY <1>2
  <2>2. \A k \in 0 .. n : D[k] = S
    OBVIOUS
  <2> HIDE DEF D
  <2>3. walk[0] \in D[0] /\ \A k \in 1 .. n : walk[k - 1] \in D[k - 1] => walk[k] \in D[k]
    BY <2>1, <2>2
  <2>4. \A k \in 0 .. n : walk[k] \in D[k]
    BY <2>3, LoopHolds
  <2> QED BY <2>2, <2>4
<1>4. R!Walked(f, r, n) = walk[n] /\ n \in 0 .. n
  BY DEF R!Walked
<1> HIDE DEF walk
<1> QED BY <1>3, <1>4

LEMMA MovedToIn ==
  ASSUME NEW k, Closed(k), NEW r \in Elem, k.next[r] # Nil, NEW n \in Int
  PROVE  R!MovedTo(k, r, n) \in Elem
<1> DEFINE S == {e \in Elem : k.next[e] # Nil}
<1>1. \A e \in S : k.next[e] \in S /\ k.prev[e] \in S
  BY NilApart DEF Closed, Mutual
<1>2. r \in S /\ S \subseteq Elem
  OBVIOUS
<1> HIDE DEF S
<1>3. CASE n < 0
  <2>1. -n \in Nat
    BY <1>3
  <2> QED BY <1>1, <1>2, <1>3, <2>1, WalkedIn DEF R!MovedTo
<1>4. CASE ~ (n < 0)
  <2>1. n \in Nat
    BY <1>4
  <2> QED BY <1>1, <1>2, <1>4, <2>1, WalkedIn DEF R!MovedTo
<1> QED BY <1>3, <1>4

(* Positions on a circle of n, one on and one back from i.                 *)
OneOn(i, n) == (i % n) + 1
OneBack(i, n) == ((i + n - 2) % n) + 1

LEMMA OneTurn ==
  ASSUME NEW n \in Nat \ {0}, NEW i \in 1 .. n
  PROVE  /\ OneOn(i, n) \in 1 .. n /\ OneOn(i, n) = IF i = n THEN 1 ELSE i + 1
         /\ OneBack(i, n) \in 1 .. n /\ OneBack(i, n) = IF i = 1 THEN n ELSE i - 1
<1>1. \A x \in 0 .. n - 1 : x % n = x
  OBVIOUS
<1>2. \A x \in n .. 2 * n - 1 : x % n = x - n
  OBVIOUS
<1>3. i % n = IF i = n THEN 0 ELSE i
  <2>1. CASE i = n
    <3>1. n \in n .. 2 * n - 1 /\ n - n = 0
      OBVIOUS
    <3> QED BY <1>2, <2>1, <3>1
  <2>2. CASE i # n
    <3>1. i \in 0 .. n - 1
      BY <2>2
    <3> QED BY <1>1, <2>2, <3>1
  <2> QED BY <2>1, <2>2
<1>4. (i + n - 2) % n = IF i = 1 THEN n - 1 ELSE i - 2
  <2> DEFINE x == i + n - 2
  <2>1. CASE i = 1
    <3>1. x = n - 1 /\ x \in 0 .. n - 1
      BY <2>1
    <3> HIDE DEF x
    <3> QED BY <1>1, <2>1, <3>1 DEF x
  <2>2. CASE i # 1
    <3>1. x \in n .. 2 * n - 1 /\ x - n = i - 2
      BY <2>2
    <3>2. x % n = x - n
      <4> HIDE DEF x
      <4> QED BY <1>2, <3>1
    <3> QED BY <2>2, <3>1, <3>2
  <2> QED BY <2>1, <2>2
<1>5. OneOn(i, n) = IF i = n THEN 1 ELSE i + 1
  BY <1>3 DEF OneOn
<1>6. OneBack(i, n) = IF i = 1 THEN n ELSE i - 1
  BY <1>4 DEF OneBack
<1> QED BY <1>5, <1>6

LEMMA OnAndBack ==
  ASSUME NEW n \in Nat \ {0}, NEW i \in 1 .. n
  PROVE  OneOn(OneBack(i, n), n) = i /\ OneBack(OneOn(i, n), n) = i
<1>1. OneOn(OneBack(i, n), n) = IF OneBack(i, n) = n THEN 1 ELSE OneBack(i, n) + 1
  BY OneTurn
<1>2. OneBack(OneOn(i, n), n) = IF OneOn(i, n) = 1 THEN n ELSE OneOn(i, n) - 1
  BY OneTurn
<1>3. OneOn(i, n) = (IF i = n THEN 1 ELSE i + 1) /\ OneBack(i, n) = (IF i = 1 THEN n ELSE i - 1)
  BY OneTurn
<1> QED BY <1>1, <1>2, <1>3

(* NewRing's loop: zero values, linked in a circle.                        *)
LEMMA CircleClosed ==
  ASSUME NEW k, Closed(k), NEW n \in Nat \ {0}, NEW new \in [1 .. n -> Elem],
         \A i \in 1 .. n : k.next[new[i]] = Nil,
         \A i, j \in 1 .. n : new[i] = new[j] => i = j,
         NEW m, m \in LinkType,
         \A i \in 1 .. n : /\ m.next[new[i]] = new[OneOn(i, n)]
                           /\ m.prev[new[i]] = new[OneBack(i, n)],
         \A e \in Elem : (\A i \in 1 .. n : new[i] # e) =>
                           m.next[e] = k.next[e] /\ m.prev[e] = k.prev[e]
  PROVE  Closed(m)
<1>1. ASSUME NEW i \in 1 .. n PROVE Mutual(m, new[i])
  <2> DEFINE a == OneOn(i, n)
             b == OneBack(i, n)
  <2>1. a \in 1 .. n /\ b \in 1 .. n /\ OneOn(b, n) = i /\ OneBack(a, n) = i
    BY OneTurn, OnAndBack
  <2>2. m.next[new[i]] = new[a] /\ m.prev[new[i]] = new[b]
    OBVIOUS
  <2> HIDE DEF a, b
  <2>3. m.prev[new[a]] = new[i] /\ m.next[new[b]] = new[i]
    BY <2>1
  <2>4. new[a] \in Elem /\ new[b] \in Elem
    BY <2>1
  <2> QED BY <2>2, <2>3, <2>4 DEF Mutual
<1>2. ASSUME NEW e \in Elem, \A i \in 1 .. n : new[i] # e PROVE Mutual(m, e)
  <2>1. m.next[e] = k.next[e] /\ m.prev[e] = k.prev[e] /\ Mutual(k, e)
    BY <1>2 DEF Closed
  <2>2. CASE k.next[e] = Nil
    BY <2>1, <2>2, NilApart DEF Mutual
  <2>3. CASE k.next[e] # Nil
    <3>1. /\ k.next[e] \in Elem /\ k.prev[e] \in Elem
          /\ k.prev[k.next[e]] = e /\ k.next[k.prev[e]] = e
      BY <2>1, <2>3 DEF Mutual
    <3>2. \A i \in 1 .. n : new[i] # k.next[e] /\ new[i] # k.prev[e]
      <4>1. \A i \in 1 .. n : k.next[new[i]] = Nil /\ k.prev[new[i]] = Nil
        BY NilApart DEF Closed, Mutual
      <4> QED BY <3>1, <4>1, NilApart
    <3>3. m.prev[k.next[e]] = k.prev[k.next[e]] /\ m.next[k.prev[e]] = k.next[k.prev[e]]
      BY <3>1, <3>2
    <3> QED BY <2>1, <3>1, <3>3 DEF Mutual
  <2> QED BY <2>2, <2>3
<1> QED BY <1>1, <1>2 DEF Closed

NewLinks(k, m, n, new) ==
  /\ new \in [1 .. n -> Elem] /\ \A i, j \in 1 .. n : new[i] = new[j] => i = j
  /\ \A i \in 1 .. n : k.next[new[i]] = Nil
  /\ m \in LinkType
  /\ \A i \in 1 .. n : m.next[new[i]] = new[OneOn(i, n)] /\ m.prev[new[i]] = new[OneBack(i, n)]
  /\ \A e \in Elem : (\A i \in 1 .. n : new[i] # e) => m.next[e] = k.next[e] /\ m.prev[e] = k.prev[e]

LEMMA NewLinksClosed ==
  ASSUME NEW k, Closed(k), NEW n \in Nat \ {0}, NEW m, NEW new, NewLinks(k, m, n, new)
  PROVE  Closed(m)
<1>1. new \in [1 .. n -> Elem] /\ m \in LinkType
  BY DEF NewLinks
<1>2. /\ \A i \in 1 .. n : k.next[new[i]] = Nil
      /\ \A i, j \in 1 .. n : new[i] = new[j] => i = j
  BY DEF NewLinks
<1>3. /\ \A i \in 1 .. n : /\ m.next[new[i]] = new[OneOn(i, n)]
                            /\ m.prev[new[i]] = new[OneBack(i, n)]
      /\ \A e \in Elem : (\A i \in 1 .. n : new[i] # e) =>
                         m.next[e] = k.next[e] /\ m.prev[e] = k.prev[e]
  BY DEF NewLinks
<1> QED BY <1>1, <1>2, <1>3, CircleClosed

LEMMA NewRingIs ==
  ASSUME Closed(links), NEW n \in Nat \ {0}, R!NewRing(n)
  PROVE  \E new : /\ NewLinks(links, links', n, new)
                  /\ ringResult' = [op |-> "NewRing", r |-> Nil, s |-> Nil, n |-> n,
                                    e |-> new[1], seen |-> <<>>]
<1> DEFINE zero == {e \in Elem : links.next[e] = Nil}
           i(new, e) == CHOOSE j \in 1 .. n : new[j] = e
           after(new, e) == new[(i(new, e) % n) + 1]
           before(new, e) == new[((i(new, e) + n - 2) % n) + 1]
<1>0. ~ (n <= 0)
  OBVIOUS
<1>1. PICK new \in R!Injection(1 .. n, zero) :
        /\ links' = [next |-> [e \in Elem |-> IF e \in R!Range(new) THEN after(new, e) ELSE links.next[e]],
                     prev |-> [e \in Elem |-> IF e \in R!Range(new) THEN before(new, e) ELSE links.prev[e]]]
        /\ ringResult' = [op |-> "NewRing", r |-> Nil, s |-> Nil, n |-> n, e |-> new[1], seen |-> <<>>]
  BY <1>0 DEF R!NewRing, R!Return
<1>2. /\ new \in [1 .. n -> Elem] /\ DOMAIN new = 1 .. n
      /\ \A j \in 1 .. n : links.next[new[j]] = Nil
      /\ \A j, l \in 1 .. n : new[j] = new[l] => j = l
  BY <1>1 DEF R!Injection, R!IsInjective
<1>3. R!Range(new) = {new[j] : j \in 1 .. n}
  BY <1>2 DEF R!Range
<1>4. \A j \in 1 .. n : i(new, new[j]) = j
  BY <1>2
<1>5. \A j \in 1 .. n : OneOn(j, n) \in 1 .. n /\ OneBack(j, n) \in 1 .. n
  BY OneTurn
<1>6. \A j \in 1 .. n : /\ after(new, new[j]) = new[OneOn(j, n)]
                        /\ before(new, new[j]) = new[OneBack(j, n)]
  BY <1>4 DEF OneOn, OneBack
<1>7. \A j \in 1 .. n : after(new, new[j]) \in Elem /\ before(new, new[j]) \in Elem
  <2>1. \A j \in 1 .. n : new[OneOn(j, n)] \in Elem /\ new[OneBack(j, n)] \in Elem
    BY <1>2, <1>5
  <2> HIDE DEF after, before
  <2> QED BY <1>6, <2>1
<1> HIDE DEF after, before, i
<1>8. links' \in LinkType
  BY <1>1, <1>3, <1>7 DEF LinkType, Closed
<1>9. \A j \in 1 .. n : /\ links'.next[new[j]] = after(new, new[j])
                        /\ links'.prev[new[j]] = before(new, new[j])
  BY <1>1, <1>2, <1>3
<1>10. \A e \in Elem : (\A j \in 1 .. n : new[j] # e) =>
         links'.next[e] = links.next[e] /\ links'.prev[e] = links.prev[e]
  BY <1>1, <1>3
<1>11. \A j \in 1 .. n : /\ links'.next[new[j]] = new[OneOn(j, n)]
                         /\ links'.prev[new[j]] = new[OneBack(j, n)]
  BY <1>6, <1>9
<1>12. NewLinks(links, links', n, new)
  BY <1>2, <1>8, <1>10, <1>11 DEF NewLinks
<1> QED BY <1>1, <1>12

LEMMA NewRingClosed ==
  ASSUME Closed(links), NEW n \in Int, R!NewRing(n) PROVE Closed(links')
<1>1. CASE n <= 0
  BY <1>1 DEF R!NewRing, R!Return
<1>2. CASE n > 0
  <2>1. n \in Nat \ {0}
    BY <1>2
  <2>2. PICK new : NewLinks(links, links', n, new)
    BY <2>1, NewRingIs
  <2> QED BY <2>1, <2>2, NewLinksClosed
<1> QED BY <1>1, <1>2

LEMMA RingNext == ASSUME Closed(links), R!Next PROVE Closed(links')
<1>1. ASSUME NEW n \in RingCount, R!NewRing(n) PROVE Closed(links')
  <2>1. n \in Int
    BY ContainersAssumption DEF R!RingAssumption
  <2> QED BY <1>1, <2>1, NewRingClosed
<1>2. ASSUME NEW r \in Elem, R!NextOf(r) \/ R!PrevOf(r) PROVE Closed(links')
  BY <1>2, LinkedClosed DEF R!NextOf, R!PrevOf, R!Return
<1>3. ASSUME NEW r \in Elem, NEW n \in RingCount, R!Move(r, n) PROVE Closed(links')
  BY <1>3, LinkedClosed DEF R!Move, R!Return
<1>4. ASSUME NEW r \in Elem, NEW n \in RingCount, R!Unlink(r, n) PROVE Closed(links')
  <2>1. n + 1 \in Int
    BY ContainersAssumption DEF R!RingAssumption
  <2> DEFINE k == R!Linked(links, r)
  <2>2. Closed(k) /\ k.next[r] # Nil
    BY LinkedClosed, NilApart
  <2> HIDE DEF k
  <2>3. R!MovedTo(k, r, n + 1) \in Elem
    BY <2>1, <2>2, MovedToIn
  <2>4. Closed(R!Joined(k, r, R!MovedTo(k, r, n + 1)))
    BY <2>2, <2>3, JoinedClosed
  <2> QED BY <1>4, <2>4 DEF R!Unlink, R!Return, k
<1>5. ASSUME NEW r \in Elem, NEW s \in Elem \cup {Nil}, R!Link(r, s) PROVE Closed(links')
  BY <1>5, LinkedClosed, JoinedClosed DEF R!Link, R!Return
<1>6. ASSUME NEW r \in Elem \cup {Nil}, R!Do(r) PROVE Closed(links')
  BY <1>6, LinkedClosed DEF R!Do, R!Return
<1> QED BY <1>1, <1>2, <1>3, <1>4, <1>5, <1>6 DEF R!Next

(* Every walk along a ring comes back: next and prev are inverse to each   *)
(* other, an element has both links or none, and none links to one         *)
(* without, through every Link and Unlink, for all elements and counts.    *)
THEOREM RingsStayClosed == Spec => []RingsClosed
<1> DEFINE Inv == Closed(links)
<1>1. Init => Inv
  BY DEF Init, R!Init, Closed, LinkType, Mutual
<1>2. Inv /\ [Next]_<<kind, lists, rings, heaps, repeats>> => Inv'
  BY RingNext DEF Next, ListStep, RingStep, HeapStep, RepeatStep, rings
<1>3. Inv => RingsClosed
  BY Zenon DEF Closed, Mutual, RingsClosed, R!TypeOK
<1> HIDE DEF Inv
<1> QED BY <1>1, <1>2, <1>3, PTL DEF Spec

-----------------------------------------------------------------------------
(* Heaps.  Below, n counts the items that take part: Pop and Remove leave  *)
(* out the one they have put last.                                         *)

Parent(j) == (j - 1) \div 2
At(s, i) == s[i + 1]

(* Item j of s is not less than its parent.                                *)
InOrder(s, j) == At(s, Parent(j)) <= At(s, j)

LEMMA ParentIs ==
  ASSUME NEW j \in Nat, j > 0
  PROVE  /\ Parent(j) \in Nat /\ Parent(j) < j
         /\ \A i \in Nat : Parent(j) = i <=> j \in {2 * i + 1, 2 * i + 2}
BY DEF Parent

LEMMA ItemIs == \A s \in Seq(Int), i \in Nat : i < Len(s) => At(s, i) \in Int
BY DEF At

LEMMA SwapIs ==
  ASSUME NEW s \in Seq(Int), NEW i \in Nat, NEW j \in Nat, i < Len(s), j < Len(s)
  PROVE  LET t == H!Swap(s, i, j)
         IN  /\ t \in Seq(Int) /\ Len(t) = Len(s)
             /\ \A k \in Nat : k < Len(s) =>
                  At(t, k) = IF k = j THEN At(s, i) ELSE IF k = i THEN At(s, j) ELSE At(s, k)
<1> DEFINE t == H!Swap(s, i, j)
<1>1. t = [s EXCEPT ![i + 1] = At(s, j), ![j + 1] = At(s, i)]
  BY DEF H!Swap, H!At, At
<1>2. At(s, i) \in Int /\ At(s, j) \in Int /\ i + 1 \in 1 .. Len(s) /\ j + 1 \in 1 .. Len(s)
  BY ItemIs
<1> HIDE DEF t
<1>3. t \in Seq(Int) /\ Len(t) = Len(s)
  BY <1>1, <1>2
<1>4. \A k \in 1 .. Len(s) :
        t[k] = IF k = j + 1 THEN At(s, i) ELSE IF k = i + 1 THEN At(s, j) ELSE s[k]
  BY <1>1, <1>2
<1>5. ASSUME NEW k \in Nat, k < Len(s)
      PROVE  At(t, k) = IF k = j THEN At(s, i) ELSE IF k = i THEN At(s, j) ELSE At(s, k)
  <2>1. k + 1 \in 1 .. Len(s) /\ (k + 1 = j + 1 <=> k = j) /\ (k + 1 = i + 1 <=> k = i)
    BY <1>5
  <2> QED BY <1>4, <2>1 DEF At
<1> QED BY <1>3, <1>5 DEF t

(* The indices of x; s and t hold every item equally often.                *)
Places(s, x) == {i \in 1 .. Len(s) : s[i] = x}
SameItems(s, t) == \A x \in Int : Cardinality(Places(s, x)) = Cardinality(Places(t, x))

LEMMA SwapSame ==
  ASSUME NEW s \in Seq(Int), NEW i \in Nat, NEW j \in Nat, i < Len(s), j < Len(s)
  PROVE  SameItems(H!Swap(s, i, j), s)
<1> DEFINE a == i + 1
           b == j + 1
           t == H!Swap(s, i, j)
           N == 1 .. Len(s)
           g == [k \in N |-> IF k = a THEN b ELSE IF k = b THEN a ELSE k]
<1>1. /\ a \in N /\ b \in N /\ Len(t) = Len(s)
      /\ \A k \in N : t[k] = IF k = b THEN s[a] ELSE IF k = a THEN s[b] ELSE s[k]
  BY DEF H!Swap, H!At
<1>2. \A k \in N : g[k] \in N /\ g[g[k]] = k /\ t[k] = s[g[k]]
  BY <1>1
<1>3. Len(s) \in Nat
  OBVIOUS
<1> HIDE DEF a, b, t, g
<1>4. ASSUME NEW x \in Int PROVE Cardinality(Places(t, x)) = Cardinality(Places(s, x))
  <2>1. Places(t, x) = {k \in N : t[k] = x} /\ Places(s, x) = {k \in N : s[k] = x}
    BY <1>1 DEF Places
  <2> DEFINE f == [k \in Places(t, x) |-> g[k]]
  <2>2. f \in Bijection(Places(t, x), Places(s, x))
    <3>1. f \in [Places(t, x) -> Places(s, x)]
      BY <1>2, <2>1
    <3>2. \A k, m \in Places(t, x) : f[k] = f[m] => k = m
      BY <1>2, <2>1
    <3>3. \A m \in Places(s, x) : g[m] \in Places(t, x) /\ f[g[m]] = m
      BY <1>2, <2>1
    <3> HIDE DEF f
    <3>4. f \in Injection(Places(t, x), Places(s, x))
      BY <3>1, <3>2 DEF Injection, IsInjective
    <3>5. f \in Surjection(Places(t, x), Places(s, x))
      BY <3>1, <3>3 DEF Surjection
    <3> QED BY <3>4, <3>5 DEF Bijection
  <2>3. IsFiniteSet(Places(t, x))
    <3>1. IsFiniteSet(N) /\ Places(t, x) \subseteq N
      BY <1>3, <2>1, FS_Interval
    <3> QED BY <3>1, FS_Subset
  <2> QED BY <2>2, <2>3, FS_Bijection DEF ExistsBijection
<1> QED BY <1>4 DEF SameItems, t

(* The first n items are in order from parent lo on.                       *)
OrderedFrom(s, n, lo) == \A j \in 1 .. n - 1 : Parent(j) >= lo => InOrder(s, j)

-----------------------------------------------------------------------------
(* down.                                                                   *)

(* All is in order but what is below item i, and i's children are not less *)
(* than its parent.                                                        *)
Sinking(s, i, n, lo) ==
  /\ \A j \in 1 .. n - 1 : Parent(j) >= lo /\ Parent(j) # i => InOrder(s, j)
  /\ i > 0 /\ Parent(i) >= lo =>
       \A j \in 1 .. n - 1 : Parent(j) = i => At(s, Parent(i)) <= At(s, j)

Sunk(s, i, n) == \A j \in 1 .. n - 1 : Parent(j) = i => At(s, i) <= At(s, j)

Lesser(s, j, n) == IF j + 1 < n /\ H!Less(s, j + 1, j) THEN j + 1 ELSE j

Fall(c, n) ==
  LET j == Lesser(c.s, 2 * c.i + 1, n)
  IN  IF 2 * c.i + 1 >= n \/ ~ H!Less(c.s, j, c.i) THEN c
      ELSE [s |-> H!Swap(c.s, c.i, j), i |-> j]

(* The lesser child of item i.                                             *)
LEMMA LesserIs ==
  ASSUME NEW s \in Seq(Int), NEW n \in Nat, n <= Len(s), NEW i \in Nat, 2 * i + 1 < n
  PROVE  LET j == Lesser(s, 2 * i + 1, n)
         IN  /\ j \in 1 .. n - 1 /\ Parent(j) = i /\ j > i
             /\ \A m \in 1 .. n - 1 : Parent(m) = i => At(s, j) <= At(s, m)
<1> DEFINE a == 2 * i + 1
           j == Lesser(s, a, n)
<1>1. a \in 1 .. n - 1 /\ a \in Nat /\ a + 1 \in Nat /\ At(s, a) \in Int
  BY ItemIs
<1>2. a + 1 < n => At(s, a + 1) \in Int
  BY <1>1, ItemIs
<1>3. j = IF a + 1 < n /\ At(s, a + 1) < At(s, a) THEN a + 1 ELSE a
  BY DEF Lesser, H!Less, H!At, At
<1>4. \A m \in 1 .. n - 1 : Parent(m) = i => m = a \/ m = a + 1
  BY ParentIs
<1>5. Parent(a) = i /\ Parent(a + 1) = i
  BY ParentIs
<1>6. a > i /\ a + 1 > i /\ (a + 1 < n => a + 1 \in 1 .. n - 1)
  OBVIOUS
<1> HIDE DEF a
<1>7. CASE a + 1 < n /\ At(s, a + 1) < At(s, a)
  <2>1. j = a + 1
    BY <1>3, <1>7
  <2> HIDE DEF j
  <2>2. \A m \in 1 .. n - 1 : Parent(m) = i => At(s, j) <= At(s, m)
    <3>1. ASSUME NEW m \in 1 .. n - 1, Parent(m) = i PROVE At(s, j) <= At(s, m)
      <4>1. CASE m = a
        BY <1>1, <1>2, <1>7, <2>1, <4>1
      <4>2. CASE m = a + 1
        BY <1>2, <1>7, <2>1, <4>2
      <4> QED BY <1>4, <3>1, <4>1, <4>2
    <3> QED BY <3>1
  <2>3. j \in 1 .. n - 1 /\ Parent(j) = i /\ j > i
    BY <1>5, <1>6, <1>7, <2>1
  <2> QED BY <2>2, <2>3 DEF a, j
<1>8. CASE ~ (a + 1 < n /\ At(s, a + 1) < At(s, a))
  <2>1. \A m \in 1 .. n - 1 : Parent(m) = i => At(s, a) <= At(s, m)
    BY <1>1, <1>2, <1>4, <1>8
  <2> QED BY <1>1, <1>3, <1>5, <1>6, <1>8, <2>1 DEF a, j
<1> QED BY <1>7, <1>8

(* A turn of down: item i and its lesser child change places.              *)
LEMMA SwapDown ==
  ASSUME NEW s \in Seq(Int), NEW n \in Nat, n <= Len(s), NEW i \in Nat, NEW j \in 1 .. n - 1,
         NEW lo \in Nat, lo <= i, i < n, j > i, Parent(j) = i, At(s, j) < At(s, i),
         \A m \in 1 .. n - 1 : Parent(m) = i => At(s, j) <= At(s, m),
         Sinking(s, i, n, lo)
  PROVE  Sinking(H!Swap(s, i, j), j, n, lo)
<1> DEFINE u == H!Swap(s, i, j)
<1>1. j \in Nat /\ j < Len(s) /\ i < Len(s)
  OBVIOUS
<1>2. \A m \in Nat : m < Len(s) =>
        At(u, m) = IF m = j THEN At(s, i) ELSE IF m = i THEN At(s, j) ELSE At(s, m)
  BY <1>1, SwapIs
<1> HIDE DEF u
<1>3. /\ At(u, i) = At(s, j) /\ At(u, j) = At(s, i)
      /\ \A m \in 0 .. n - 1 : m # i /\ m # j => At(u, m) = At(s, m)
  <2>1. i # j /\ \A m \in 0 .. n - 1 : m \in Nat /\ m < Len(s)
    OBVIOUS
  <2> QED BY <1>1, <1>2, <2>1
<1>4. \A m \in 0 .. n - 1 : At(s, m) \in Int
  <2>1. \A m \in 0 .. n - 1 : m \in Nat /\ m < Len(s)
    OBVIOUS
  <2> QED BY <2>1, ItemIs
<1>5. i \in 0 .. n - 1 /\ j \in 0 .. n - 1 /\ \A m \in 1 .. n - 1 : m \in 0 .. n - 1
  OBVIOUS
<1>6. \A m \in 1 .. n - 1 : Parent(m) \in 0 .. n - 1 /\ Parent(m) < m
  BY ParentIs
<1>7. ASSUME NEW m \in 1 .. n - 1, Parent(m) >= lo, Parent(m) # j PROVE InOrder(u, m)
  <2>1. CASE m = j
    <3>1. At(s, j) <= At(s, i)
      BY <1>4, <1>5
    <3> QED BY <1>3, <2>1, <3>1 DEF InOrder
  <2>2. CASE m # j /\ Parent(m) = i
    <3>1. m # i
      BY <1>6, <2>2
    <3> QED BY <1>3, <1>5, <2>2, <3>1 DEF InOrder
  <2>3. CASE m = i
    <3>1. i > 0 /\ Parent(i) # i /\ Parent(i) \in 0 .. n - 1
      BY <1>6, <2>3
    <3>2. At(s, Parent(i)) <= At(s, j)
      BY <1>7, <2>3, <3>1 DEF Sinking
    <3> QED BY <1>3, <1>7, <2>3, <3>1, <3>2 DEF InOrder
  <2>4. CASE m # j /\ m # i /\ Parent(m) # i
    <3>1. InOrder(s, m)
      BY <1>7, <2>4 DEF Sinking
    <3> QED BY <1>3, <1>5, <1>6, <1>7, <2>4, <3>1 DEF InOrder
  <2> QED BY <2>1, <2>2, <2>3, <2>4
<1>8. ASSUME NEW m \in 1 .. n - 1, Parent(m) = j PROVE At(u, Parent(j)) <= At(u, m)
  <2>1. m # i /\ m # j /\ Parent(m) # i /\ Parent(m) >= lo
    <3>1. j < m
      BY <1>6, <1>8
    <3> QED BY <1>8, <3>1
  <2>2. InOrder(s, m)
    BY <2>1 DEF Sinking
  <2> QED BY <1>3, <1>5, <1>8, <2>1, <2>2 DEF InOrder
<1>9. Sinking(u, j, n, lo)
  BY <1>7, <1>8 DEF Sinking
<1> QED BY <1>9 DEF u

(* What is known after k turns of down's loop on t from item i0.           *)
Falls(t, i0, n, lo, k) ==
  {c \in [s : Seq(Int), i : Nat] :
     /\ Len(c.s) = Len(t) /\ c.i >= i0
     /\ Sinking(c.s, c.i, n, lo)
     /\ \A j \in Nat : j >= n /\ j < Len(t) => At(c.s, j) = At(t, j)
     /\ Sunk(c.s, c.i, n) \/ c.i >= i0 + k
     /\ c.i = i0 => c.s = t
     /\ Sunk(t, i0, n) => c.i = i0
     /\ SameItems(c.s, t)}

LEMMA FallKeeps ==
  ASSUME NEW t \in Seq(Int), NEW i0 \in Nat, NEW n \in Nat, n <= Len(t), NEW lo \in Nat,
         lo <= i0, NEW k \in Nat \ {0}, NEW c \in Falls(t, i0, n, lo, k - 1)
  PROVE  Fall(c, n) \in Falls(t, i0, n, lo, k)
<1>1. PICK s \in Seq(Int), i \in Nat : c = [s |-> s, i |-> i]
  BY DEF Falls
<1>2. c.s = s /\ c.i = i
  BY <1>1
<1>3. /\ Len(s) = Len(t) /\ i >= i0 /\ n <= Len(s) /\ lo <= i
      /\ Sinking(s, i, n, lo)
      /\ \A m \in Nat : m >= n /\ m < Len(t) => At(s, m) = At(t, m)
      /\ Sunk(s, i, n) \/ i >= i0 + (k - 1)
      /\ i = i0 => s = t
      /\ Sunk(t, i0, n) => i = i0
      /\ SameItems(s, t)
      /\ c \in [s : Seq(Int), i : Nat]
  BY <1>2 DEF Falls
<1>4. CASE 2 * i + 1 >= n
  <2>1. \A m \in 1 .. n - 1 : Parent(m) # i
    <3>1. SUFFICES ASSUME NEW m \in 1 .. n - 1, Parent(m) = i PROVE FALSE
      OBVIOUS
    <3>2. m \in {2 * i + 1, 2 * i + 2} /\ m < n
      BY <3>1, ParentIs
    <3> QED BY <1>4, <3>2
  <2>2. Sunk(s, i, n)
    BY <2>1 DEF Sunk
  <2>3. Fall(c, n) = c
    BY <1>2, <1>4 DEF Fall
  <2> QED BY <1>2, <1>3, <2>2, <2>3 DEF Falls
<1>5. CASE 2 * i + 1 < n
  <2>1. PICK j \in 1 .. n - 1 :
          /\ j = Lesser(s, 2 * i + 1, n) /\ Parent(j) = i /\ j > i
          /\ \A m \in 1 .. n - 1 : Parent(m) = i => At(s, j) <= At(s, m)
    BY <1>3, <1>5, LesserIs
  <2>2. j \in Nat /\ j < Len(s) /\ i < Len(s) /\ j < n /\ i < n /\ ~ (2 * i + 1 >= n)
    <3>1. n <= Len(s) /\ j \in 1 .. n - 1 /\ j > i
      BY <1>3, <2>1
    <3> QED BY <1>5, <3>1
  <2>3. At(s, i) \in Int /\ At(s, j) \in Int
    BY <2>2, ItemIs
  <2>4. \A m \in 1 .. n - 1 : At(s, m) \in Int
    <3>1. \A m \in 1 .. n - 1 : m \in Nat /\ m < Len(s)
      BY <1>3
    <3> QED BY <3>1, ItemIs
  <2>5. H!Less(s, j, i) <=> At(s, j) < At(s, i)
    BY DEF H!Less, H!At, At
  <2>6. Fall(c, n) = IF At(s, j) < At(s, i) THEN [s |-> H!Swap(s, i, j), i |-> j] ELSE c
    BY <1>2, <2>1, <2>2, <2>5 DEF Fall
  <2>7. CASE ~ (At(s, j) < At(s, i))
    <3>1. Sunk(s, i, n)
      BY <2>1, <2>3, <2>4, <2>7 DEF Sunk
    <3> QED BY <1>2, <1>3, <2>6, <2>7, <3>1 DEF Falls
  <2>8. CASE At(s, j) < At(s, i)
    <3> DEFINE u == H!Swap(s, i, j)
    <3>1. /\ u \in Seq(Int) /\ Len(u) = Len(s)
          /\ \A m \in Nat : m < Len(s) =>
               At(u, m) = IF m = j THEN At(s, i) ELSE IF m = i THEN At(s, j) ELSE At(s, m)
      BY <2>2, SwapIs
    <3>2. Sinking(u, j, n, lo)
      BY <1>3, <2>1, <2>2, <2>8, SwapDown
    <3> HIDE DEF u
    <3>3. ~ Sunk(s, i, n)
      BY <2>1, <2>3, <2>8 DEF Sunk
    <3>4. j >= i0 /\ j # i0 /\ j >= i0 + k
      <4>1. i >= i0 + (k - 1)
        BY <1>3, <3>3
      <4>2. i >= i0 /\ j > i /\ j \in Int
        BY <1>3, <2>1
      <4> QED BY <4>1, <4>2
    <3>5. \A m \in Nat : m >= n /\ m < Len(t) => At(u, m) = At(t, m)
      BY <1>3, <2>2, <3>1
    <3>6. Fall(c, n) = [s |-> u, i |-> j]
      BY <2>6, <2>8 DEF u
    <3>7. SameItems(u, t)
      <4>1. SameItems(u, s)
        BY <2>2, SwapSame DEF u
      <4> QED BY <1>3, <4>1 DEF SameItems
    <3>8. ~ Sunk(t, i0, n)
      BY <1>3, <3>3
    <3> QED BY <1>3, <2>2, <3>1, <3>2, <3>4, <3>5, <3>6, <3>7, <3>8 DEF Falls
  <2> QED BY <2>7, <2>8
<1> QED BY <1>3, <1>4, <1>5

(* What down returns.                                                      *)
LEMMA DownIs ==
  ASSUME NEW t \in Seq(Int), NEW i0 \in Nat, NEW n \in Nat, n <= Len(t), NEW lo \in Nat,
         lo <= i0, Sinking(t, i0, n, lo)
  PROVE  LET d == H!Down(t, i0, n)
         IN  /\ d.s \in Seq(Int) /\ d.i \in Nat /\ Len(d.s) = Len(t) /\ d.i >= i0
             /\ OrderedFrom(d.s, n, lo)
             /\ \A j \in Nat : j >= n /\ j < Len(t) => At(d.s, j) = At(t, j)
             /\ d.i = i0 => d.s = t
             /\ Sunk(t, i0, n) => d.i = i0
             /\ SameItems(d.s, t)
<1>k. ASSUME NEW k \in Nat \ {0}, NEW c \in Falls(t, i0, n, lo, k - 1)
      PROVE  Fall(c, n) \in Falls(t, i0, n, lo, k)
  BY FallKeeps
<1> DEFINE m == Len(t)
           x == [s |-> t, i |-> i0]
           D == [k \in 0 .. m |-> Falls(t, i0, n, lo, k)]
           F == [k \in 1 .. m |-> [c \in D[k - 1] |-> Fall(c, n)]]
           Is(f) == f = [k \in 0 .. m |-> IF k = 0 THEN x ELSE Fall(f[k - 1], n)]
           loop == CHOOSE f : Is(f)
<1>1. m \in Nat
  OBVIOUS
<1>2. x \in Falls(t, i0, n, lo, 0)
  BY DEF Falls, SameItems
<1>3. H!Down(t, i0, n) = loop[m]
  BY DEF H!Down, Fall, Lesser
<1> HIDE DEF m, x
<1>4. D[0] = Falls(t, i0, n, lo, 0) /\ D[m] = Falls(t, i0, n, lo, m)
  BY <1>1
<1>5. \A k \in 1 .. m :
        /\ D[k - 1] = Falls(t, i0, n, lo, k - 1) /\ D[k] = Falls(t, i0, n, lo, k)
        /\ F[k] = [c \in D[k - 1] |-> Fall(c, n)]
        /\ k \in Nat \ {0} /\ k - 1 \in 0 .. m
  BY <1>1
<1> HIDE DEF D, F
<1>6. \A k \in 1 .. m : \A c \in D[k - 1] : Fall(c, n) \in D[k] /\ F[k][c] = Fall(c, n)
  <2>1. SUFFICES ASSUME NEW k \in 1 .. m, NEW c \in D[k - 1]
                 PROVE  Fall(c, n) \in D[k] /\ F[k][c] = Fall(c, n)
    OBVIOUS
  <2>2. k \in Nat \ {0} /\ c \in Falls(t, i0, n, lo, k - 1)
    BY <1>5
  <2>3. Fall(c, n) \in Falls(t, i0, n, lo, k)
    BY <1>k, <2>2
  <2>4. D[k] = Falls(t, i0, n, lo, k)
    BY <1>5
  <2>5. F[k] = [d \in D[k - 1] |-> Fall(d, n)]
    BY <1>5
  <2> QED BY <2>3, <2>4, <2>5
<1>7. \E f : Is(f)
  <2>1. PICK f : Loop(f, m, x, F) /\ \A k \in 0 .. m : f[k] \in D[k]
    <3>1. x \in D[0] /\ \A k \in 1 .. m : \A c \in D[k - 1] : F[k][c] \in D[k]
      BY <1>2, <1>4, <1>6
    <3> QED BY <1>1, <3>1, LoopExists
  <2>2. ASSUME NEW k \in 0 .. m, k # 0 PROVE F[k][f[k - 1]] = Fall(f[k - 1], n)
    <3>1. k \in 1 .. m /\ k - 1 \in 0 .. m
      BY <1>1, <2>2
    <3>2. f[k - 1] \in D[k - 1]
      BY <2>1, <3>1
    <3> QED BY <1>6, <3>1, <3>2
  <2>3. [k \in 0 .. m |-> IF k = 0 THEN x ELSE F[k][f[k - 1]]]
        = [k \in 0 .. m |-> IF k = 0 THEN x ELSE Fall(f[k - 1], n)]
    BY <2>2
  <2> QED BY <2>1, <2>3 DEF Loop
<1>8. Is(loop)
  BY <1>7
<1> HIDE DEF loop
<1>9. loop[0] \in D[0] /\ \A k \in 1 .. m : loop[k - 1] \in D[k - 1] => loop[k] \in D[k]
  <2>1. loop[0] = x /\ \A k \in 1 .. m : loop[k] = Fall(loop[k - 1], n)
    BY <1>1, <1>8
  <2> QED BY <1>2, <1>4, <1>6, <2>1
<1>10. loop[m] \in Falls(t, i0, n, lo, m)
  <2>1. \A k \in 0 .. m : loop[k] \in D[k]
    BY <1>1, <1>9, LoopHolds
  <2> QED BY <1>1, <1>4, <2>1
<1> DEFINE d == loop[m]
<1>11. /\ d.s \in Seq(Int) /\ d.i \in Nat /\ Len(d.s) = m /\ d.i >= i0
       /\ Sinking(d.s, d.i, n, lo) /\ (Sunk(d.s, d.i, n) \/ d.i >= i0 + m)
       /\ \A j \in Nat : j >= n /\ j < m => At(d.s, j) = At(t, j)
       /\ d.i = i0 => d.s = t
       /\ Sunk(t, i0, n) => d.i = i0
       /\ SameItems(d.s, t)
  BY <1>10 DEF Falls, m
<1> HIDE DEF d
<1>12. Sunk(d.s, d.i, n)
  <2>1. CASE d.i >= i0 + m
    <3>1. \A j \in 1 .. n - 1 : Parent(j) < n
      BY ParentIs
    <3>2. d.i >= n
      BY <1>1, <1>11, <2>1 DEF m
    <3> QED BY <1>11, <3>1, <3>2 DEF Sunk
  <2> QED BY <1>11, <2>1
<1>13. OrderedFrom(d.s, n, lo)
  BY <1>11, <1>12 DEF OrderedFrom, Sinking, Sunk, InOrder
<1> QED BY <1>3, <1>11, <1>13 DEF d, m

-----------------------------------------------------------------------------
(* up.                                                                     *)

(* All is in order but item j, and j's children are not less than its      *)
(* parent.                                                                 *)
Rising(s, j, n) ==
  /\ \A m \in 1 .. n - 1 : m # j => InOrder(s, m)
  /\ j > 0 => \A m \in 1 .. n - 1 : Parent(m) = j => At(s, Parent(j)) <= At(s, m)

Risen(s, j) == j = 0 \/ InOrder(s, j)

Rise(c) ==
  IF c.j = 0 \/ ~ H!Less(c.s, c.j, Parent(c.j)) THEN c
  ELSE [s |-> H!Swap(c.s, Parent(c.j), c.j), j |-> Parent(c.j)]

(* A turn of up: item j and its parent change places.                      *)
LEMMA SwapUp ==
  ASSUME NEW s \in Seq(Int), NEW n \in Nat, n <= Len(s), NEW j \in 1 .. n - 1,
         NEW p \in Nat, Parent(j) = p, p < j, At(s, j) < At(s, p), Rising(s, j, n)
  PROVE  Rising(H!Swap(s, p, j), p, n)
<1> DEFINE u == H!Swap(s, p, j)
<1>1. p < Len(s) /\ j \in Nat /\ j < Len(s)
  OBVIOUS
<1>2. \A m \in Nat : m < Len(s) =>
        At(u, m) = IF m = j THEN At(s, p) ELSE IF m = p THEN At(s, j) ELSE At(s, m)
  BY <1>1, SwapIs
<1> HIDE DEF u
<1>3. /\ At(u, p) = At(s, j) /\ At(u, j) = At(s, p)
      /\ \A m \in 0 .. n - 1 : m # p /\ m # j => At(u, m) = At(s, m)
  <2>1. p # j /\ \A m \in 0 .. n - 1 : m \in Nat /\ m < Len(s)
    OBVIOUS
  <2> QED BY <1>1, <1>2, <2>1
<1>4. \A m \in 0 .. n - 1 : At(s, m) \in Int
  <2>1. \A m \in 0 .. n - 1 : m \in Nat /\ m < Len(s)
    OBVIOUS
  <2> QED BY <2>1, ItemIs
<1>5. p \in 0 .. n - 1 /\ j \in 0 .. n - 1 /\ \A m \in 1 .. n - 1 : m \in 0 .. n - 1
  OBVIOUS
<1>6. \A m \in 1 .. n - 1 : Parent(m) \in 0 .. n - 1 /\ Parent(m) < m
  BY ParentIs
<1>7. ASSUME NEW m \in 1 .. n - 1, m # p PROVE InOrder(u, m)
  <2>1. CASE m = j
    <3>1. At(s, j) <= At(s, p)
      BY <1>4, <1>5
    <3> QED BY <1>3, <2>1, <3>1 DEF InOrder
  <2>2. CASE m # j /\ Parent(m) = p
    <3>1. At(s, p) <= At(s, m)
      BY <2>2 DEF Rising, InOrder
    <3>2. At(s, j) <= At(s, m)
      BY <1>4, <1>5, <3>1
    <3> QED BY <1>3, <1>5, <1>7, <2>2, <3>2 DEF InOrder
  <2>3. CASE m # j /\ Parent(m) = j
    <3>1. At(s, p) <= At(s, m)
      BY <2>3 DEF Rising
    <3> QED BY <1>3, <1>5, <1>7, <2>3, <3>1 DEF InOrder
  <2>4. CASE m # j /\ Parent(m) # p /\ Parent(m) # j
    <3>1. InOrder(s, m)
      BY <2>4 DEF Rising
    <3> QED BY <1>3, <1>5, <1>6, <1>7, <2>4, <3>1 DEF InOrder
  <2> QED BY <2>1, <2>2, <2>3, <2>4
<1>8. ASSUME p > 0, NEW m \in 1 .. n - 1, Parent(m) = p PROVE At(u, Parent(p)) <= At(u, m)
  <2>1. p \in 1 .. n - 1 /\ p # j
    BY <1>8
  <2>2. Parent(p) # p /\ Parent(p) # j /\ Parent(p) \in 0 .. n - 1
    BY <1>6, <2>1
  <2>3. At(s, Parent(p)) <= At(s, p)
    BY <2>1 DEF Rising, InOrder
  <2>4. CASE m = j
    BY <1>3, <2>2, <2>3, <2>4
  <2>5. CASE m # j
    <3>1. At(s, p) <= At(s, m)
      BY <1>8, <2>5 DEF Rising, InOrder
    <3>2. At(s, Parent(p)) <= At(s, m)
      <4>1. At(s, Parent(p)) \in Int /\ At(s, p) \in Int /\ At(s, m) \in Int
        BY <1>4, <1>5, <2>2
      <4> QED BY <2>3, <3>1, <4>1
    <3>3. m # p
      BY <1>6, <1>8
    <3> QED BY <1>3, <1>5, <2>2, <2>5, <3>2, <3>3
  <2> QED BY <2>4, <2>5
<1>9. Rising(u, p, n)
  BY <1>7, <1>8 DEF Rising
<1> QED BY <1>9 DEF u

(* What is known after k turns of up's loop on t from item j0.             *)
Rises(t, j0, n, k) ==
  {c \in [s : Seq(Int), j : Nat] :
     /\ Len(c.s) = Len(t) /\ c.j < n
     /\ Rising(c.s, c.j, n)
     /\ \A m \in Nat : m >= n /\ m < Len(t) => At(c.s, m) = At(t, m)
     /\ Risen(c.s, c.j) \/ c.j <= j0 - k
     /\ SameItems(c.s, t)}

LEMMA RiseKeeps ==
  ASSUME NEW t \in Seq(Int), NEW j0 \in Nat, NEW n \in Nat, n <= Len(t),
         NEW k \in Nat \ {0}, NEW c \in Rises(t, j0, n, k - 1)
  PROVE  Rise(c) \in Rises(t, j0, n, k)
<1>1. PICK s \in Seq(Int), j \in Nat : c = [s |-> s, j |-> j]
  BY DEF Rises
<1>2. c.s = s /\ c.j = j
  BY <1>1
<1>3. /\ Len(s) = Len(t) /\ n <= Len(s) /\ j < n
      /\ Rising(s, j, n)
      /\ \A m \in Nat : m >= n /\ m < Len(t) => At(s, m) = At(t, m)
      /\ Risen(s, j) \/ j <= j0 - (k - 1)
      /\ SameItems(s, t)
      /\ c \in [s : Seq(Int), j : Nat]
  BY <1>2 DEF Rises
<1>4. CASE j = 0
  <2>1. Rise(c) = c /\ Risen(s, j)
    BY <1>2, <1>4 DEF Rise, Risen
  <2> QED BY <1>2, <1>3, <2>1 DEF Rises
<1>5. CASE j # 0
  <2>1. PICK p \in Nat : p = Parent(j) /\ p < j
    BY <1>5, ParentIs
  <2>2. p < Len(s) /\ j < Len(s) /\ p < n /\ j \in 1 .. n - 1
    <3>1. n <= Len(s) /\ j < n
      BY <1>3
    <3> QED BY <1>5, <2>1, <3>1
  <2>3. At(s, p) \in Int /\ At(s, j) \in Int
    BY <2>2, ItemIs
  <2>4. H!Less(s, j, p) <=> At(s, j) < At(s, p)
    BY DEF H!Less, H!At, At
  <2>5. Rise(c) = IF At(s, j) < At(s, p) THEN [s |-> H!Swap(s, p, j), j |-> p] ELSE c
    BY <1>2, <1>5, <2>1, <2>4 DEF Rise
  <2>6. CASE ~ (At(s, j) < At(s, p))
    <3>1. Risen(s, j)
      BY <2>1, <2>3, <2>6 DEF Risen, InOrder
    <3> QED BY <1>2, <1>3, <2>5, <2>6, <3>1 DEF Rises
  <2>7. CASE At(s, j) < At(s, p)
    <3> DEFINE u == H!Swap(s, p, j)
    <3>1. /\ u \in Seq(Int) /\ Len(u) = Len(s)
          /\ \A m \in Nat : m < Len(s) =>
               At(u, m) = IF m = j THEN At(s, p) ELSE IF m = p THEN At(s, j) ELSE At(s, m)
      BY <2>2, SwapIs
    <3>2. Rising(u, p, n)
      BY <1>3, <2>1, <2>2, <2>7, SwapUp
    <3>3. SameItems(u, t)
      <4>1. SameItems(u, s)
        BY <2>2, SwapSame
      <4> QED BY <1>3, <4>1 DEF SameItems
    <3> HIDE DEF u
    <3>4. p <= j0 - k
      <4>1. ~ Risen(s, j)
        BY <1>5, <2>1, <2>3, <2>7 DEF Risen, InOrder
      <4>2. j <= j0 - (k - 1)
        BY <1>3, <4>1
      <4> QED BY <2>1, <4>2
    <3>5. \A m \in Nat : m >= n /\ m < Len(t) => At(u, m) = At(t, m)
      BY <1>3, <2>2, <3>1
    <3>6. Rise(c) = [s |-> u, j |-> p]
      BY <2>5, <2>7 DEF u
    <3> QED BY <1>3, <2>2, <3>1, <3>2, <3>3, <3>4, <3>5, <3>6 DEF Rises
  <2> QED BY <2>6, <2>7
<1> QED BY <1>4, <1>5

(* What up leaves.                                                         *)
LEMMA UpIs ==
  ASSUME NEW t \in Seq(Int), NEW j0 \in Nat, NEW n \in Nat, n <= Len(t), j0 < n,
         Rising(t, j0, n)
  PROVE  LET u == H!Up(t, j0)
         IN  /\ u \in Seq(Int) /\ Len(u) = Len(t)
             /\ OrderedFrom(u, n, 0)
             /\ \A m \in Nat : m >= n /\ m < Len(t) => At(u, m) = At(t, m)
             /\ SameItems(u, t)
<1>k. ASSUME NEW k \in Nat \ {0}, NEW c \in Rises(t, j0, n, k - 1)
      PROVE  Rise(c) \in Rises(t, j0, n, k)
  BY RiseKeeps
<1> DEFINE m == Len(t)
           x == [s |-> t, j |-> j0]
           D == [k \in 0 .. m |-> Rises(t, j0, n, k)]
           F == [k \in 1 .. m |-> [c \in D[k - 1] |-> Rise(c)]]
           Is(f) == f = [k \in 0 .. m |-> IF k = 0 THEN x ELSE Rise(f[k - 1])]
           loop == CHOOSE f : Is(f)
<1>1. m \in Nat
  OBVIOUS
<1>2. x \in Rises(t, j0, n, 0)
  BY DEF Rises, SameItems
<1>3. H!Up(t, j0) = loop[m].s
  BY DEF H!Up, Rise, Parent
<1> HIDE DEF m, x
<1>4. D[0] = Rises(t, j0, n, 0) /\ D[m] = Rises(t, j0, n, m)
  BY <1>1
<1>5. \A k \in 1 .. m :
        /\ D[k - 1] = Rises(t, j0, n, k - 1) /\ D[k] = Rises(t, j0, n, k)
        /\ F[k] = [c \in D[k - 1] |-> Rise(c)]
        /\ k \in Nat \ {0} /\ k - 1 \in 0 .. m
  BY <1>1
<1> HIDE DEF D, F
<1>6. \A k \in 1 .. m : \A c \in D[k - 1] : Rise(c) \in D[k] /\ F[k][c] = Rise(c)
  <2>1. SUFFICES ASSUME NEW k \in 1 .. m, NEW c \in D[k - 1]
                 PROVE  Rise(c) \in D[k] /\ F[k][c] = Rise(c)
    OBVIOUS
  <2>2. k \in Nat \ {0} /\ c \in Rises(t, j0, n, k - 1)
    BY <1>5
  <2>3. Rise(c) \in Rises(t, j0, n, k)
    BY <1>k, <2>2
  <2>4. D[k] = Rises(t, j0, n, k)
    BY <1>5
  <2>5. F[k] = [d \in D[k - 1] |-> Rise(d)]
    BY <1>5
  <2> QED BY <2>3, <2>4, <2>5
<1>7. \E f : Is(f)
  <2>1. PICK f : Loop(f, m, x, F) /\ \A k \in 0 .. m : f[k] \in D[k]
    <3>1. x \in D[0] /\ \A k \in 1 .. m : \A c \in D[k - 1] : F[k][c] \in D[k]
      BY <1>2, <1>4, <1>6
    <3> QED BY <1>1, <3>1, LoopExists
  <2>2. ASSUME NEW k \in 0 .. m, k # 0 PROVE F[k][f[k - 1]] = Rise(f[k - 1])
    <3>1. k \in 1 .. m /\ k - 1 \in 0 .. m
      BY <1>1, <2>2
    <3>2. f[k - 1] \in D[k - 1]
      BY <2>1, <3>1
    <3> QED BY <1>6, <3>1, <3>2
  <2>3. [k \in 0 .. m |-> IF k = 0 THEN x ELSE F[k][f[k - 1]]]
        = [k \in 0 .. m |-> IF k = 0 THEN x ELSE Rise(f[k - 1])]
    BY <2>2
  <2> QED BY <2>1, <2>3 DEF Loop
<1>8. Is(loop)
  BY <1>7
<1> HIDE DEF loop
<1>9. loop[0] \in D[0] /\ \A k \in 1 .. m : loop[k - 1] \in D[k - 1] => loop[k] \in D[k]
  <2>1. loop[0] = x /\ \A k \in 1 .. m : loop[k] = Rise(loop[k - 1])
    BY <1>1, <1>8
  <2> QED BY <1>2, <1>4, <1>6, <2>1
<1>10. loop[m] \in Rises(t, j0, n, m)
  <2>1. \A k \in 0 .. m : loop[k] \in D[k]
    BY <1>1, <1>9, LoopHolds
  <2> QED BY <1>1, <1>4, <2>1
<1> DEFINE d == loop[m]
<1>11. /\ d.s \in Seq(Int) /\ d.j \in Nat /\ Len(d.s) = m
       /\ Rising(d.s, d.j, n) /\ (Risen(d.s, d.j) \/ d.j <= j0 - m)
       /\ \A i \in Nat : i >= n /\ i < m => At(d.s, i) = At(t, i)
       /\ SameItems(d.s, t)
  BY <1>10 DEF Rises, m
<1> HIDE DEF d
<1>12. Risen(d.s, d.j)
  <2>1. ~ (d.j <= j0 - m)
    BY <1>1, <1>11 DEF m
  <2> QED BY <1>11, <2>1
<1>13. OrderedFrom(d.s, n, 0)
  BY <1>11, <1>12 DEF OrderedFrom, Rising, Risen
<1> QED BY <1>3, <1>11, <1>13 DEF d, m

-----------------------------------------------------------------------------
(* The routines.                                                           *)

(* All is in order but item i, and i's children are not less than its      *)
(* parent.                                                                 *)
Holed(s, i, n) ==
  /\ \A m \in 1 .. n - 1 : m # i /\ Parent(m) # i => InOrder(s, m)
  /\ i > 0 => \A m \in 1 .. n - 1 : Parent(m) = i => At(s, Parent(i)) <= At(s, m)

(* So it is when only item i has changed.                                  *)
LEMMA HoledBy ==
  ASSUME NEW s \in Seq(Int), NEW t, NEW n \in Nat, n <= Len(s), NEW i \in Nat,
         \A m \in 0 .. n - 1 : m # i => At(t, m) = At(s, m),
         OrderedFrom(s, n, 0)
  PROVE  Holed(t, i, n)
<1>1. \A m \in 1 .. n - 1 :
        Parent(m) \in 0 .. n - 1 /\ Parent(m) < m /\ Parent(m) >= 0 /\ m \in 0 .. n - 1
  BY ParentIs
<1>2. \A m \in 1 .. n - 1 : InOrder(s, m)
  BY <1>1 DEF OrderedFrom
<1>3. \A m \in 0 .. n - 1 : At(s, m) \in Int
  <2>1. \A m \in 0 .. n - 1 : m \in Nat /\ m < Len(s)
    OBVIOUS
  <2> QED BY <2>1, ItemIs
<1>4. ASSUME NEW m \in 1 .. n - 1, m # i, Parent(m) # i PROVE InOrder(t, m)
  BY <1>1, <1>2, <1>4 DEF InOrder
<1>5. ASSUME i > 0, NEW m \in 1 .. n - 1, Parent(m) = i PROVE At(t, Parent(i)) <= At(t, m)
  <2>1. i \in 1 .. n - 1 /\ i # m
    BY <1>1, <1>5
  <2>2. Parent(i) # i /\ Parent(i) \in 0 .. n - 1
    BY <1>1, <2>1
  <2>3. At(s, Parent(i)) <= At(s, i) /\ At(s, i) <= At(s, m)
    BY <1>2, <1>5, <2>1 DEF InOrder
  <2>4. At(s, Parent(i)) <= At(s, m)
    BY <1>1, <1>3, <2>1, <2>2, <2>3
  <2> QED BY <1>1, <2>1, <2>2, <2>4
<1> QED BY <1>4, <1>5 DEF Holed

LEMMA DownOrUpIs ==
  ASSUME NEW t \in Seq(Int), NEW i \in Nat, NEW n \in Nat, i < n, n <= Len(t), Holed(t, i, n)
  PROVE  LET u == H!DownOrUp(t, i, n)
         IN  /\ u \in Seq(Int) /\ Len(u) = Len(t)
             /\ OrderedFrom(u, n, 0)
             /\ \A m \in Nat : m >= n /\ m < Len(t) => At(u, m) = At(t, m)
             /\ SameItems(u, t)
<1> DEFINE d == H!Down(t, i, n)
<1>1. \A m \in 1 .. n - 1 : Parent(m) < m /\ Parent(m) \in Nat
  BY ParentIs
<1>2. H!DownOrUp(t, i, n) = IF d.i > i THEN d.s ELSE H!Up(d.s, i)
  BY DEF H!DownOrUp
<1>3. CASE Sunk(t, i, n)
  <2>1. Sinking(t, i, n, i)
    <3>1. \A m \in 1 .. n - 1 : Parent(m) >= i => m # i
      BY <1>1
    <3>2. i > 0 => ~ (Parent(i) >= i)
      BY ParentIs
    <3> QED BY <3>1, <3>2 DEF Sinking, Holed
  <2>2. d.i = i /\ d.s = t
    BY <1>3, <2>1, DownIs
  <2> HIDE DEF d
  <2>3. Rising(t, i, n)
    BY <1>3 DEF Rising, Holed, Sunk, InOrder
  <2>4. H!DownOrUp(t, i, n) = H!Up(t, i)
    BY <1>2, <2>2
  <2> QED BY <2>3, <2>4, UpIs
<1>4. CASE ~ Sunk(t, i, n)
  <2>1. PICK c \in 1 .. n - 1 : Parent(c) = i /\ ~ (At(t, i) <= At(t, c))
    BY <1>4 DEF Sunk
  <2>2. \A m \in 0 .. n - 1 : At(t, m) \in Int
    <3>1. \A m \in 0 .. n - 1 : m \in Nat /\ m < Len(t)
      OBVIOUS
    <3> QED BY <3>1, ItemIs
  <2>3. i > 0 => InOrder(t, i)
    <3>1. SUFFICES ASSUME i > 0 PROVE InOrder(t, i)
      OBVIOUS
    <3>2. At(t, Parent(i)) <= At(t, c)
      BY <2>1, <3>1 DEF Holed
    <3>3. Parent(i) \in 0 .. n - 1
      BY <3>1, ParentIs
    <3>4. At(t, Parent(i)) \in Int /\ At(t, c) \in Int /\ At(t, i) \in Int
      BY <2>2, <3>3
    <3>5. At(t, Parent(i)) <= At(t, i)
      BY <2>1, <3>2, <3>4
    <3> QED BY <3>5 DEF InOrder
  <2>4. Sinking(t, i, n, 0)
    BY <2>3 DEF Sinking, Holed
  <2>5. /\ d.s \in Seq(Int) /\ d.i \in Nat /\ Len(d.s) = Len(t) /\ d.i >= i
        /\ OrderedFrom(d.s, n, 0)
        /\ \A j \in Nat : j >= n /\ j < Len(t) => At(d.s, j) = At(t, j)
        /\ d.i = i => d.s = t
        /\ SameItems(d.s, t)
    BY <2>4, DownIs
  <2> HIDE DEF d
  <2>6. d.i # i
    <3>1. ~ InOrder(t, c) /\ Parent(c) >= 0
      BY <1>1, <2>1 DEF InOrder
    <3> QED BY <2>5, <3>1 DEF OrderedFrom
  <2>7. H!DownOrUp(t, i, n) = d.s
    BY <1>2, <2>5, <2>6
  <2> QED BY <2>5, <2>7
<1> QED BY <1>3, <1>4

(* What is known when Init has gone down from the last k parents.          *)
Heaping(t, k) ==
  {s \in Seq(Int) : /\ Len(s) = Len(t)
                    /\ OrderedFrom(s, Len(t), (Len(t) \div 2) - k)
                    /\ SameItems(s, t)}

LEMMA HeapingKeeps ==
  ASSUME NEW t \in Seq(Int), NEW k \in 1 .. Len(t) \div 2, NEW s \in Heaping(t, k - 1)
  PROVE  H!Down(s, (Len(t) \div 2) - k, Len(s)).s \in Heaping(t, k)
<1> DEFINE i == (Len(t) \div 2) - k
           d == H!Down(s, i, Len(s))
<1>1. i \in Nat /\ (Len(t) \div 2) - (k - 1) = i + 1 /\ Len(s) \in Nat
  BY DEF Heaping
<1>2. s \in Seq(Int) /\ Len(s) = Len(t) /\ OrderedFrom(s, Len(t), i + 1) /\ SameItems(s, t)
  BY <1>1 DEF Heaping
<1> HIDE DEF i
<1>3. Sinking(s, i, Len(s), i)
  <2>1. ASSUME NEW j \in 1 .. Len(s) - 1 PROVE Parent(j) \in Nat
    <3>1. j \in Nat /\ j > 0
      BY <1>1
    <3> QED BY <3>1, ParentIs
  <2>2. \A j \in 1 .. Len(s) - 1 : Parent(j) >= i /\ Parent(j) # i => Parent(j) >= i + 1
    BY <1>1, <2>1
  <2>3. i > 0 => ~ (Parent(i) >= i)
    BY <1>1, ParentIs
  <2> QED BY <1>2, <2>2, <2>3 DEF Sinking, OrderedFrom
<1>4. /\ d.s \in Seq(Int) /\ Len(d.s) = Len(s) /\ OrderedFrom(d.s, Len(s), i)
      /\ SameItems(d.s, s)
  <2>1. i <= i /\ Len(s) <= Len(s)
    BY <1>1
  <2> QED BY <1>1, <1>2, <1>3, <2>1, DownIs
<1> HIDE DEF d
<1>5. d.s \in Heaping(t, k)
  BY <1>2, <1>4 DEF Heaping, SameItems, i
<1> QED BY <1>5 DEF d, i

(* What Init makes of the caller's slice.                                  *)
LEMMA HeapifiedIs ==
  ASSUME NEW t \in Seq(Int)
  PROVE  LET u == H!Heapified(t)
         IN  /\ u \in Seq(Int) /\ Len(u) = Len(t) /\ OrderedFrom(u, Len(u), 0)
             /\ SameItems(u, t)
<1> DEFINE m == Len(t) \div 2
           D == [k \in 0 .. m |-> Heaping(t, k)]
           F == [k \in 1 .. m |-> [c \in D[k - 1] |-> H!Down(c, m - k, Len(t)).s]]
           Is(f) == f = [k \in 0 .. m |-> IF k = 0 THEN t ELSE H!Down(f[k - 1], m - k, Len(t)).s]
           loop == CHOOSE f : Is(f)
<1>1. m \in Nat /\ m - m = 0 /\ m - 0 = m
  OBVIOUS
<1>2. t \in Heaping(t, 0)
  <2>1. \A j \in 1 .. Len(t) - 1 : ~ (Parent(j) >= m)
    BY DEF Parent
  <2> QED BY <1>1, <2>1 DEF Heaping, SameItems, OrderedFrom
<1>3. H!Heapified(t) = loop[m]
  BY DEF H!Heapified
<1> HIDE DEF m
<1>4. D[0] = Heaping(t, 0) /\ D[m] = Heaping(t, m)
  BY <1>1
<1>5. \A k \in 1 .. m :
        /\ D[k - 1] = Heaping(t, k - 1) /\ D[k] = Heaping(t, k)
        /\ F[k] = [c \in D[k - 1] |-> H!Down(c, m - k, Len(t)).s]
        /\ k - 1 \in 0 .. m
  BY <1>1
<1> HIDE DEF D, F
<1>6. \A k \in 1 .. m : \A c \in D[k - 1] :
        /\ H!Down(c, m - k, Len(t)).s \in D[k]
        /\ F[k][c] = H!Down(c, m - k, Len(t)).s
  <2>1. SUFFICES ASSUME NEW k \in 1 .. m, NEW c \in D[k - 1]
                 PROVE  /\ H!Down(c, m - k, Len(t)).s \in D[k]
                        /\ F[k][c] = H!Down(c, m - k, Len(t)).s
    OBVIOUS
  <2>2. c \in Heaping(t, k - 1) /\ Len(c) = Len(t)
    BY <1>5 DEF Heaping
  <2>3. H!Down(c, m - k, Len(t)).s \in Heaping(t, k)
    BY <2>2, HeapingKeeps DEF m
  <2> QED BY <1>5, <2>3
<1>7. \E f : Is(f)
  <2>1. PICK f : Loop(f, m, t, F) /\ \A k \in 0 .. m : f[k] \in D[k]
    <3>1. t \in D[0] /\ \A k \in 1 .. m : \A c \in D[k - 1] : F[k][c] \in D[k]
      BY <1>2, <1>4, <1>6
    <3> QED BY <1>1, <3>1, LoopExists
  <2>2. \A k \in 0 .. m : k # 0 =>
          k \in 1 .. m /\ F[k][f[k - 1]] = H!Down(f[k - 1], m - k, Len(t)).s
    BY <1>1, <1>5, <1>6, <2>1
  <2> QED BY <2>1, <2>2 DEF Loop
<1>8. Is(loop)
  BY <1>7
<1> HIDE DEF loop
<1>9. loop[0] \in D[0] /\ \A k \in 1 .. m : loop[k - 1] \in D[k - 1] => loop[k] \in D[k]
  <2>1. loop[0] = t /\ \A k \in 1 .. m : loop[k] = H!Down(loop[k - 1], m - k, Len(t)).s
    BY <1>1, <1>8
  <2> QED BY <1>2, <1>4, <1>6, <2>1
<1>10. loop[m] \in Heaping(t, m)
  <2>1. \A k \in 0 .. m : loop[k] \in D[k]
    BY <1>1, <1>9, LoopHolds
  <2> QED BY <1>1, <1>4, <2>1
<1>11. loop[m] \in Seq(Int) /\ Len(loop[m]) = Len(t) /\ OrderedFrom(loop[m], Len(t), 0)
       /\ SameItems(loop[m], t)
  BY <1>1, <1>10 DEF Heaping, m
<1> QED BY <1>3, <1>11

Occurs(s, x) == Cardinality(Places(s, x))
One(x, y) == IF x = y THEN 1 ELSE 0

LEMMA PlacesIs ==
  ASSUME NEW s \in Seq(Int), NEW x
  PROVE  /\ IsFiniteSet(Places(s, x)) /\ Occurs(s, x) \in Nat
         /\ Occurs(s, x) > 0 <=> \E i \in 1 .. Len(s) : s[i] = x
<1>1. IsFiniteSet(1 .. Len(s)) /\ Places(s, x) \subseteq 1 .. Len(s)
  BY FS_Interval DEF Places
<1>2. IsFiniteSet(Places(s, x))
  BY <1>1, FS_Subset
<1>3. Occurs(s, x) \in Nat /\ (Occurs(s, x) = 0 <=> Places(s, x) = {})
  BY <1>2, FS_EmptySet, FS_CardinalityType DEF Occurs
<1>4. Places(s, x) # {} <=> \E i \in 1 .. Len(s) : s[i] = x
  BY DEF Places
<1> QED BY <1>2, <1>3, <1>4

LEMMA AppendOccurs ==
  ASSUME NEW s \in Seq(Int), NEW x \in Int, NEW y \in Int
  PROVE  Occurs(Append(s, x), y) = Occurs(s, y) + One(x, y)
<1> DEFINE t == Append(s, x)
           m == Len(s) + 1
<1>1. /\ Len(t) = m /\ t[m] = x /\ \A i \in 1 .. Len(s) : t[i] = s[i]
      /\ Len(s) \in Nat /\ m \notin 1 .. Len(s)
      /\ \A i : i \in 1 .. m <=> i \in 1 .. Len(s) \/ i = m
  OBVIOUS
<1> HIDE DEF t, m
<1>2. m \notin Places(s, y)
  BY <1>1 DEF Places
<1>3. CASE x = y
  <2>1. Places(t, y) = Places(s, y) \cup {m}
    BY <1>1, <1>3 DEF Places
  <2>2. Occurs(t, y) = Occurs(s, y) + 1
    BY <1>2, <2>1, PlacesIs, FS_AddElement DEF Occurs
  <2> QED BY <1>3, <2>2 DEF t, One
<1>4. CASE x # y
  <2>1. Places(t, y) = Places(s, y)
    BY <1>1, <1>4 DEF Places
  <2> QED BY <1>4, <2>1, PlacesIs DEF t, One, Occurs
<1> QED BY <1>3, <1>4

LEMMA ChangedOccurs ==
  ASSUME NEW s \in Seq(Int), NEW i \in 1 .. Len(s), NEW x \in Int, NEW y \in Int
  PROVE  Occurs([s EXCEPT ![i] = x], y) = Occurs(s, y) - One(s[i], y) + One(x, y)
<1> DEFINE t == [s EXCEPT ![i] = x]
           rest == {k \in 1 .. Len(s) : k # i /\ s[k] = y}
<1>1. Len(t) = Len(s) /\ t[i] = x /\ \A k \in 1 .. Len(s) : k # i => t[k] = s[k]
  OBVIOUS
<1> HIDE DEF t
<1>2. /\ Places(s, y) = IF s[i] = y THEN rest \cup {i} ELSE rest
      /\ Places(t, y) = IF x = y THEN rest \cup {i} ELSE rest
  BY <1>1 DEF Places
<1>3. i \notin rest /\ rest \subseteq Places(s, y)
  BY DEF Places
<1> HIDE DEF rest
<1>4. IsFiniteSet(rest) /\ Cardinality(rest) \in Nat
  BY <1>3, PlacesIs, FS_Subset, FS_CardinalityType
<1>5. Cardinality(rest \cup {i}) = Cardinality(rest) + 1
  BY <1>3, <1>4, FS_AddElement
<1>6. Occurs(s, y) = Cardinality(rest) + One(s[i], y)
  BY <1>2, <1>4, <1>5 DEF Occurs, One
<1>7. Occurs(t, y) = Cardinality(rest) + One(x, y)
  BY <1>2, <1>4, <1>5 DEF Occurs, One
<1>8. One(s[i], y) \in Int /\ One(x, y) \in Int
  BY DEF One
<1> QED BY <1>4, <1>6, <1>7, <1>8 DEF t

LEMMA SeqWider == ASSUME NEW S, NEW T, S \subseteq T PROVE Seq(S) \subseteq Seq(T)
<1>1. ASSUME NEW s \in Seq(S) PROVE s \in Seq(T)
  <2>1. PICK n \in Nat : s \in [1 .. n -> S]
    BY SeqDef
  <2>2. s \in [1 .. n -> T]
    BY <2>1
  <2> QED BY <2>2, SeqDef
<1> QED BY <1>1

(* What has the same items holds no others.                                *)
LEMMA SameRanks ==
  ASSUME NEW S \in SUBSET Int, NEW t \in Seq(S), NEW u \in Seq(Int), SameItems(u, t)
  PROVE  u \in Seq(S)
<1>1. ASSUME NEW i \in 1 .. Len(u) PROVE u[i] \in S
  <2>1. u[i] \in Int /\ t \in Seq(Int)
    <3>1. Seq(S) \subseteq Seq(Int)
      BY SeqWider
    <3> QED BY <3>1
  <2>2. Occurs(u, u[i]) > 0
    BY PlacesIs
  <2>3. Occurs(t, u[i]) > 0
    BY <2>1, <2>2 DEF SameItems, Occurs
  <2>4. PICK j \in 1 .. Len(t) : t[j] = u[i]
    BY <2>1, <2>3, PlacesIs
  <2> QED BY <2>4
<1> QED BY <1>1

(* Nor does what has fewer.                                                *)
LEMMA FewerRanks ==
  ASSUME NEW S \in SUBSET Int, NEW t \in Seq(S), NEW u \in Seq(Int), NEW y,
         \A x \in Int : Occurs(u, x) = Occurs(t, x) - One(y, x)
  PROVE  u \in Seq(S)
<1>1. ASSUME NEW i \in 1 .. Len(u) PROVE u[i] \in S
  <2>1. u[i] \in Int /\ t \in Seq(Int)
    <3>1. Seq(S) \subseteq Seq(Int)
      BY SeqWider
    <3> QED BY <3>1
  <2>2. Occurs(u, u[i]) > 0 /\ Occurs(u, u[i]) \in Nat /\ Occurs(t, u[i]) \in Nat
    BY <2>1, PlacesIs
  <2>3. Occurs(u, u[i]) = Occurs(t, u[i]) - One(y, u[i]) /\ One(y, u[i]) \in {0, 1}
    BY <2>1 DEF One
  <2>4. Occurs(t, u[i]) > 0
    BY <2>2, <2>3
  <2>5. PICK j \in 1 .. Len(t) : t[j] = u[i]
    <3> DEFINE v == u[i]
    <3>1. Occurs(t, v) > 0 <=> \E j \in 1 .. Len(t) : t[j] = v
      <4> HIDE DEF v
      <4> QED BY <2>1, PlacesIs
    <3> QED BY <2>4, <3>1
  <2> QED BY <2>5
<1> QED BY <1>1

Heaped(s) == OrderedFrom(s, Len(s), 0)

(* A heap's first item is a least one.                                     *)
LEMMA FirstIsLeast ==
  ASSUME NEW s \in Seq(Int), Heaped(s), NEW j \in Nat, j < Len(s)
  PROVE  At(s, 0) <= At(s, j)
<1> DEFINE T == {i \in Nat : i < Len(s) /\ ~ (At(s, 0) <= At(s, i))}
<1>1. SUFFICES ASSUME T # {} PROVE FALSE
  OBVIOUS
<1>2. PICK i \in T : \A k \in T : i <= k
  <2>1. T \in SUBSET Nat
    OBVIOUS
  <2> HIDE DEF T
  <2> QED BY <1>1, <2>1, LeastNatural
<1>3. i \in Nat /\ i < Len(s) /\ ~ (At(s, 0) <= At(s, i))
  OBVIOUS
<1>4. At(s, 0) \in Int /\ At(s, i) \in Int
  BY <1>3, ItemIs
<1>5. i \in 1 .. Len(s) - 1
  BY <1>3, <1>4
<1>6. Parent(i) \in Nat /\ Parent(i) < i
  BY <1>5, ParentIs
<1>7. Parent(i) \notin T /\ Parent(i) < Len(s)
  <2> HIDE DEF T
  <2> QED BY <1>2, <1>3, <1>6
<1>8. At(s, 0) <= At(s, Parent(i)) /\ At(s, Parent(i)) \in Int
  BY <1>6, <1>7, ItemIs
<1>9. At(s, Parent(i)) <= At(s, i)
  BY <1>5, <1>6 DEF Heaped, OrderedFrom, InOrder
<1> QED BY <1>3, <1>4, <1>8, <1>9

LEMMA PushIs ==
  ASSUME NEW s \in Seq(Int), Heaped(s), NEW x \in Int
  PROVE  LET u == H!Up(Append(s, x), Len(s))
         IN  u \in Seq(Int) /\ Heaped(u) /\ SameItems(u, Append(s, x))
<1> DEFINE t == Append(s, x)
           n == Len(s) + 1
<1>1. /\ t \in Seq(Int) /\ Len(t) = n /\ n \in Nat /\ Len(s) < n /\ n <= Len(t)
      /\ Len(s) \in Nat
  OBVIOUS
<1>2. \A m \in 0 .. n - 1 : m # Len(s) => At(t, m) = At(s, m)
  BY DEF At
<1> HIDE DEF t
<1>3. \A m \in 1 .. n - 1 :
        Parent(m) \in 0 .. n - 1 /\ Parent(m) # Len(s) /\ Parent(m) >= 0
  BY ParentIs
<1>4. ASSUME NEW m \in 1 .. n - 1, m # Len(s) PROVE InOrder(t, m)
  <2>1. m \in 1 .. Len(s) - 1 /\ m \in 0 .. n - 1
    BY <1>1, <1>4
  <2>2. InOrder(s, m)
    BY <1>3, <2>1 DEF Heaped, OrderedFrom
  <2> QED BY <1>2, <1>3, <1>4, <2>1, <2>2 DEF InOrder
<1> HIDE DEF n
<1>5. Rising(t, Len(s), n)
  BY <1>3, <1>4 DEF Rising
<1> QED BY <1>1, <1>5, UpIs DEF t, Heaped

(* What is known of a heap's items when item i has been put last.          *)
LEMMA TakenIs ==
  ASSUME NEW s \in Seq(Int), NEW i \in Nat, i < Len(s), NEW u \in Seq(Int), Len(u) = Len(s),
         OrderedFrom(u, Len(s) - 1, 0), At(u, Len(s) - 1) = At(s, i), SameItems(u, s)
  PROVE  /\ H!Front(u) \in Seq(Int) /\ Heaped(H!Front(u))
         /\ \A x \in Int : Occurs(H!Front(u), x) = Occurs(s, x) - One(At(s, i), x)
<1> DEFINE n == Len(s) - 1
           f == H!Front(u)
<1>1. n \in Nat /\ Len(u) = n + 1
  OBVIOUS
<1>2. f \in Seq(Int) /\ Len(f) = n /\ \A m \in 1 .. n : f[m] = u[m]
  BY <1>1 DEF H!Front
<1> HIDE DEF f
<1>3. \A m \in 0 .. n - 1 : At(f, m) = At(u, m)
  <2>1. \A m \in 0 .. n - 1 : m + 1 \in 1 .. n
    BY <1>1
  <2> QED BY <1>2, <2>1 DEF At
<1>4. At(u, n) \in Int /\ u[n + 1] = At(u, n)
  BY <1>1, ItemIs DEF At
<1>5. u = Append(f, At(u, n))
  <2> DEFINE g == Append(f, At(u, n))
  <2>1. /\ g \in Seq(Int) /\ Len(g) = Len(f) + 1 /\ g[Len(f) + 1] = At(u, n)
        /\ \A m \in 1 .. Len(f) : g[m] = f[m]
    BY <1>2, <1>4
  <2> HIDE DEF g
  <2>2. Len(g) = Len(u) /\ \A m \in 1 .. Len(u) : m \in 1 .. n \/ m = n + 1
    BY <1>1, <1>2, <2>1
  <2>3. \A m \in 1 .. Len(u) : g[m] = u[m]
    BY <1>2, <1>4, <2>1, <2>2
  <2>4. g = u
    BY <2>1, <2>2, <2>3, SeqEqual
  <2> QED BY <2>4 DEF g
<1>6. \A m \in 1 .. n - 1 : Parent(m) >= 0 /\ Parent(m) \in 0 .. n - 1 /\ m \in 0 .. n - 1
  <2>0. n \in Nat
    BY <1>1
  <2> HIDE DEF n
  <2> SUFFICES ASSUME NEW m \in 1 .. n - 1
               PROVE  Parent(m) >= 0 /\ Parent(m) \in 0 .. n - 1 /\ m \in 0 .. n - 1
    OBVIOUS
  <2>1. m \in Nat /\ m > 0 /\ m <= n - 1
    BY <2>0
  <2>2. Parent(m) \in Nat /\ Parent(m) < m
    BY <2>1, ParentIs
  <2> QED BY <2>0, <2>1, <2>2
<1>7. Heaped(f)
  BY <1>2, <1>3, <1>6 DEF Heaped, OrderedFrom, InOrder
<1>8. ASSUME NEW x \in Int PROVE Occurs(f, x) = Occurs(s, x) - One(At(s, i), x)
  <2>1. Occurs(u, x) = Occurs(f, x) + One(At(s, i), x)
    <3>1. Occurs(Append(f, At(u, n)), x) = Occurs(f, x) + One(At(u, n), x)
      BY <1>2, <1>4, AppendOccurs
    <3> QED BY <1>5, <3>1
  <2>2. Occurs(u, x) = Occurs(s, x)
    BY DEF SameItems, Occurs
  <2>3. Occurs(f, x) \in Nat /\ Occurs(s, x) \in Nat /\ One(At(s, i), x) \in Int
    BY <1>2, PlacesIs DEF One
  <2> QED BY <2>1, <2>2, <2>3
<1> QED BY <1>2, <1>7, <1>8 DEF f

(* A heap with items i and n changed is a heap of n items but for item i.  *)
LEMMA SwappedLast ==
  ASSUME NEW s \in Seq(Int), Heaped(s), NEW i \in Nat, i < Len(s)
  PROVE  LET n == Len(s) - 1
             t == H!Swap(s, i, n)
         IN  /\ t \in Seq(Int) /\ Len(t) = Len(s) /\ n \in Nat /\ n < Len(s)
             /\ At(t, n) = At(s, i) /\ Holed(t, i, n) /\ SameItems(t, s)
<1> DEFINE n == Len(s) - 1
           t == H!Swap(s, i, n)
<1>1. n \in Nat /\ n < Len(s) /\ n <= Len(s)
  OBVIOUS
<1> HIDE DEF n
<1>2. /\ t \in Seq(Int) /\ Len(t) = Len(s)
      /\ \A k \in Nat : k < Len(s) =>
           At(t, k) = IF k = n THEN At(s, i) ELSE IF k = i THEN At(s, n) ELSE At(s, k)
  BY <1>1, SwapIs
<1>3. SameItems(t, s)
  BY <1>1, SwapSame
<1> HIDE DEF t
<1>4. \A m \in 0 .. n - 1 : m # i => At(t, m) = At(s, m)
  <2>1. \A m \in 0 .. n - 1 : m \in Nat /\ m < Len(s) /\ m # n
    BY <1>1
  <2> QED BY <1>2, <2>1
<1>5. OrderedFrom(s, n, 0)
  BY <1>1 DEF Heaped, OrderedFrom, n
<1>6. Holed(t, i, n)
  BY <1>1, <1>4, <1>5, HoledBy
<1> QED BY <1>1, <1>2, <1>3, <1>6 DEF n, t

LEMMA PopIs ==
  ASSUME NEW s \in Seq(Int), Heaped(s), s # <<>>
  PROVE  LET n == Len(s) - 1
             u == H!Down(H!Swap(s, 0, n), 0, n).s
         IN  /\ H!Front(u) \in Seq(Int) /\ Heaped(H!Front(u)) /\ At(u, n) = At(s, 0)
             /\ \A x \in Int : Occurs(H!Front(u), x) = Occurs(s, x) - One(At(s, 0), x)
<1> DEFINE n == Len(s) - 1
           t == H!Swap(s, 0, n)
           u == H!Down(t, 0, n).s
<1>1. 0 < Len(s)
  OBVIOUS
<1>2. /\ t \in Seq(Int) /\ Len(t) = Len(s) /\ n \in Nat /\ n < Len(s)
      /\ At(t, n) = At(s, 0) /\ Holed(t, 0, n) /\ SameItems(t, s)
  BY <1>1, SwappedLast
<1> HIDE DEF t
<1>3. Sinking(t, 0, n, 0)
  BY <1>2 DEF Sinking, Holed
<1>4. n <= Len(t) /\ n < Len(t)
  BY <1>2
<1> HIDE DEF n
<1>5. /\ u \in Seq(Int) /\ Len(u) = Len(t) /\ OrderedFrom(u, n, 0) /\ At(u, n) = At(t, n)
      /\ SameItems(u, t)
  <2>1. n >= n
    BY <1>2
  <2> QED BY <1>2, <1>3, <1>4, <2>1, DownIs
<1> HIDE DEF u
<1>6. /\ u \in Seq(Int) /\ Len(u) = Len(s) /\ OrderedFrom(u, n, 0) /\ At(u, n) = At(s, 0)
      /\ SameItems(u, s)
  BY <1>2, <1>5 DEF SameItems
<1> QED BY <1>1, <1>6, TakenIs DEF u, t, n

LEMMA RemoveIs ==
  ASSUME NEW s \in Seq(Int), Heaped(s), NEW i \in Nat, i < Len(s)
  PROVE  LET n == Len(s) - 1
             u == IF n = i THEN s ELSE H!DownOrUp(H!Swap(s, i, n), i, n)
         IN  /\ H!Front(u) \in Seq(Int) /\ Heaped(H!Front(u)) /\ At(u, n) = At(s, i)
             /\ \A x \in Int : Occurs(H!Front(u), x) = Occurs(s, x) - One(At(s, i), x)
<1> DEFINE n == Len(s) - 1
           t == H!Swap(s, i, n)
           u == IF n = i THEN s ELSE H!DownOrUp(t, i, n)
<1>1. CASE n = i
  <2>1. u = s /\ SameItems(s, s) /\ At(s, n) = At(s, i)
    BY <1>1 DEF SameItems
  <2>2. OrderedFrom(s, n, 0)
    BY DEF Heaped, OrderedFrom
  <2> HIDE DEF u
  <2> QED BY <2>1, <2>2, TakenIs DEF u
<1>2. CASE n # i
  <2>1. u = H!DownOrUp(t, i, n)
    BY <1>2
  <2>2. /\ t \in Seq(Int) /\ Len(t) = Len(s) /\ n \in Nat /\ n < Len(s)
        /\ At(t, n) = At(s, i) /\ Holed(t, i, n) /\ SameItems(t, s)
    BY SwappedLast
  <2> HIDE DEF t, u
  <2>3. i < n /\ n <= Len(t) /\ n < Len(t) /\ n >= n
    BY <1>2, <2>2
  <2> HIDE DEF n
  <2>4. /\ u \in Seq(Int) /\ Len(u) = Len(t) /\ OrderedFrom(u, n, 0) /\ At(u, n) = At(t, n)
        /\ SameItems(u, t)
    BY <2>1, <2>2, <2>3, DownOrUpIs
  <2>5. /\ u \in Seq(Int) /\ Len(u) = Len(s) /\ OrderedFrom(u, n, 0) /\ At(u, n) = At(s, i)
        /\ SameItems(u, s)
    BY <2>2, <2>4 DEF SameItems
  <2> QED BY <2>5, TakenIs DEF u, t, n
<1> QED BY <1>1, <1>2

LEMMA FixIs ==
  ASSUME NEW s \in Seq(Int), Heaped(s), NEW i \in Nat, i < Len(s), NEW x \in Int
  PROVE  LET t == [s EXCEPT ![i + 1] = x]
             u == H!DownOrUp(t, i, Len(s))
         IN  u \in Seq(Int) /\ Heaped(u) /\ SameItems(u, t)
<1> DEFINE t == [s EXCEPT ![i + 1] = x]
           n == Len(s)
<1>1. t \in Seq(Int) /\ Len(t) = n /\ n \in Nat /\ n <= n /\ i < n
  OBVIOUS
<1>2. \A m \in 0 .. n - 1 : m # i => At(t, m) = At(s, m)
  BY DEF At
<1> HIDE DEF t
<1>3. OrderedFrom(s, n, 0)
  BY DEF Heaped
<1>4. Holed(t, i, n)
  BY <1>1, <1>2, <1>3, HoledBy
<1> HIDE DEF n
<1> QED BY <1>1, <1>4, DownOrUpIs DEF t, n, Heaped

-----------------------------------------------------------------------------

HeapInv == h \in Seq(Rank) /\ Heaped(h)

LEMMA RankIs == Rank \in SUBSET Int /\ Seq(Rank) \subseteq Seq(Int)
<1>1. Rank \in SUBSET Int
  BY ContainersAssumption DEF H!HeapAssumption
<1> QED BY <1>1, SeqWider

(* Every routine leaves a heap.                                            *)
LEMMA HeapNext == ASSUME HeapInv, H!Next PROVE HeapInv'
<1>1. Rank \in SUBSET Int /\ h \in Seq(Int) /\ h \in Seq(Rank) /\ Heaped(h)
  BY RankIs DEF HeapInv
<1>2. ASSUME NEW u \in Seq(Int), NEW t \in Seq(Rank), Heaped(u), SameItems(u, t), h' = u
      PROVE  HeapInv'
  BY <1>1, <1>2, SameRanks DEF HeapInv
<1>3. ASSUME NEW n \in 0 .. MaxHeap, NEW s \in [1 .. n -> Rank], H!InitHeap(s) PROVE HeapInv'
  <2>1. s \in Seq(Rank) /\ s \in Seq(Int)
    <3>1. s \in Seq(Rank)
      BY SeqDef
    <3> QED BY <3>1, RankIs
  <2>2. h' = H!Heapified(s)
    BY <1>3 DEF H!InitHeap, H!Return
  <2> QED BY <1>2, <2>1, <2>2, HeapifiedIs DEF Heaped
<1>4. ASSUME NEW x \in Rank, H!Push(x) PROVE HeapInv'
  <2>1. h' = H!Up(Append(h, x), Len(h)) /\ x \in Int /\ Append(h, x) \in Seq(Rank)
    BY <1>1, <1>4 DEF H!Push, H!Return
  <2> QED BY <1>1, <1>2, <2>1, PushIs
<1>5. ASSUME H!Pop PROVE HeapInv'
  <2> DEFINE u == H!Down(H!Swap(h, 0, Len(h) - 1), 0, Len(h) - 1).s
  <2>1. h # <<>> /\ h' = H!Front(u)
    BY <1>5 DEF H!Pop, H!Return
  <2>2. /\ H!Front(u) \in Seq(Int) /\ Heaped(H!Front(u))
        /\ \A x \in Int : Occurs(H!Front(u), x) = Occurs(h, x) - One(At(h, 0), x)
    BY <1>1, <2>1, PopIs
  <2> HIDE DEF u
  <2>3. h' \in Seq(Rank)
    BY <1>1, <2>1, <2>2, FewerRanks
  <2> QED BY <2>1, <2>2, <2>3 DEF HeapInv
<1>6. ASSUME NEW i \in 0 .. MaxHeap - 1, H!Remove(i) PROVE HeapInv'
  <2> DEFINE n == Len(h) - 1
             u == IF n = i THEN h ELSE H!DownOrUp(H!Swap(h, i, n), i, n)
  <2>1. i \in Nat /\ i < Len(h) /\ h' = H!Front(u)
    BY <1>6 DEF H!Remove, H!Return
  <2>2. /\ H!Front(u) \in Seq(Int) /\ Heaped(H!Front(u))
        /\ \A x \in Int : Occurs(H!Front(u), x) = Occurs(h, x) - One(At(h, i), x)
    BY <1>1, <2>1, RemoveIs
  <2> DEFINE f == H!Front(u)
             y == At(h, i)
  <2> HIDE DEF u
  <2>3. f \in Seq(Rank)
    <3>1. f \in Seq(Int) /\ \A x \in Int : Occurs(f, x) = Occurs(h, x) - One(y, x)
      BY <2>2
    <3> HIDE DEF f, y
    <3> QED BY <1>1, <3>1, FewerRanks
  <2> QED BY <2>1, <2>2, <2>3 DEF HeapInv
<1>7. ASSUME NEW i \in 0 .. MaxHeap - 1, NEW x \in Rank, H!Fix(i, x) PROVE HeapInv'
  <2> DEFINE t == [h EXCEPT ![i + 1] = x]
  <2>1. i \in Nat /\ i < Len(h) /\ h' = H!DownOrUp(t, i, Len(h)) /\ x \in Int
    BY <1>1, <1>7 DEF H!Fix, H!Return
  <2>2. t \in Seq(Rank)
    BY <1>1, <2>1
  <2>3. LET u == H!DownOrUp(t, i, Len(h)) IN u \in Seq(Int) /\ Heaped(u) /\ SameItems(u, t)
    BY <1>1, <2>1, FixIs
  <2> HIDE DEF t
  <2> QED BY <1>2, <2>1, <2>2, <2>3
<1> QED BY <1>3, <1>4, <1>5, <1>6, <1>7 DEF H!Next

(* After every routine, in any order the owner calls them in, no item is   *)
(* less than its parent: the heap invariant heap.go states.                *)
THEOREM HeapStaysOrdered == Spec => []HeapOrder
<1> DEFINE Inv == HeapInv
<1>1. Init => Inv
  BY DEF Init, H!Init, HeapInv, Heaped, OrderedFrom
<1>2. Inv /\ [Next]_<<kind, lists, rings, heaps, repeats>> => Inv'
  BY HeapNext DEF Next, ListStep, RingStep, HeapStep, RepeatStep, heaps, HeapInv
<1>3. Inv => HeapOrder
  <2>1. SUFFICES ASSUME HeapInv, NEW i \in 0 .. Len(h) - 1, NEW j \in 1 .. Len(h) - 1,
                        j \in {2 * i + 1, 2 * i + 2}
                 PROVE  ~ H!Less(h, j, i)
    BY DEF HeapOrder, H!HeapOrder
  <2>2. h \in Seq(Int)
    BY <2>1, RankIs DEF HeapInv
  <2>3. Parent(j) = i /\ Parent(j) >= 0
    BY <2>1, ParentIs
  <2>4. At(h, i) <= At(h, j)
    BY <2>1, <2>3 DEF HeapInv, Heaped, OrderedFrom, InOrder
  <2>5. At(h, i) \in Int /\ At(h, j) \in Int
    BY <2>2, ItemIs
  <2> QED BY <2>4, <2>5 DEF H!Less, H!At, At
<1> HIDE DEF Inv
<1> QED BY <1>1, <1>2, <1>3, PTL DEF Spec

-----------------------------------------------------------------------------
(* The priority queue the heap is: how often it holds every value.         *)

Bag(s) == [x \in Rank |-> Occurs(s, x)]

LEMMA SameCardinality ==
  \A S : H!Cardinality(S) = Cardinality(S) /\ H!Promise!Cardinality(S) = Cardinality(S)
BY Zenon DEF H!Cardinality, H!Promise!Cardinality, Cardinality

LEMMA BagIs == H!Promise!vars = <<Bag(h), heapResult>>
BY SameCardinality DEF H!Promise!vars, Bag, Occurs, Places

(* The bag of the heap, as the refinement has it.                          *)
LEMMA BagReads ==
  ASSUME NEW s
  PROVE  [x \in Rank |-> H!Cardinality({i \in 1 .. Len(s) : s[i] = x})] = Bag(s)
BY SameCardinality DEF Bag, Occurs, Places

(* What a routine says of the bag follows from how often items occur.      *)
LEMMA BagMoves ==
  ASSUME NEW s \in Seq(Int), NEW t \in Seq(Int), NEW x \in Rank
  PROVE  /\ (\A y \in Int : Occurs(t, y) = Occurs(s, y) + One(x, y))
              => Bag(t) = [Bag(s) EXCEPT ![x] = @ + 1]
         /\ (\A y \in Int : Occurs(t, y) = Occurs(s, y) - One(x, y))
              => Bag(t) = [Bag(s) EXCEPT ![x] = @ - 1]
<1>1. \A y \in Rank : y \in Int /\ Occurs(s, y) \in Nat /\ Occurs(t, y) \in Nat
  BY RankIs, PlacesIs
<1>2. \A y \in Rank : y # x => One(x, y) = 0
  BY DEF One
<1>3. One(x, x) = 1
  BY DEF One
<1>4. ASSUME \A y \in Int : Occurs(t, y) = Occurs(s, y) + One(x, y)
      PROVE  Bag(t) = [Bag(s) EXCEPT ![x] = @ + 1]
  <2>1. \A y \in Rank : y # x => Occurs(t, y) = Occurs(s, y)
    BY <1>1, <1>2, <1>4
  <2>2. Occurs(t, x) = Occurs(s, x) + 1
    BY <1>1, <1>3, <1>4
  <2> QED BY <2>1, <2>2 DEF Bag
<1>5. ASSUME \A y \in Int : Occurs(t, y) = Occurs(s, y) - One(x, y)
      PROVE  Bag(t) = [Bag(s) EXCEPT ![x] = @ - 1]
  <2>1. \A y \in Rank : y # x => Occurs(t, y) = Occurs(s, y)
    BY <1>1, <1>2, <1>5
  <2>2. Occurs(t, x) = Occurs(s, x) - 1
    BY <1>1, <1>3, <1>5
  <2> QED BY <2>1, <2>2 DEF Bag
<1> QED BY <1>4, <1>5

LEMMA PushPromised ==
  ASSUME HeapInv, NEW x \in Rank, H!Push(x)
  PROVE  H!Promise!Push(x)
<1> DEFINE t == Append(h, x)
<1>1. /\ h \in Seq(Int) /\ Heaped(h) /\ x \in Int
      /\ h' = H!Up(t, Len(h)) /\ heapResult' = [op |-> "Push", given |-> <<x>>, out |-> 0]
  BY RankIs DEF HeapInv, H!Push, H!Return
<1>2. h' \in Seq(Int) /\ SameItems(h', t)
  BY <1>1, PushIs
<1>3. \A y \in Int : Occurs(t, y) = Occurs(h, y) + One(x, y)
  BY <1>1, AppendOccurs
<1> HIDE DEF t
<1>4. \A y \in Int : Occurs(h', y) = Occurs(h, y) + One(x, y)
  BY <1>2, <1>3 DEF SameItems, Occurs
<1>5. Bag(h') = [Bag(h) EXCEPT ![x] = @ + 1]
  BY <1>1, <1>2, <1>4, BagMoves
<1>6. H!Promise!Says("Push", <<x>>, 0)
  BY <1>1 DEF H!Promise!Says
<1> QED BY <1>5, <1>6, BagReads DEF H!Promise!Push

LEMMA PopPromised ==
  ASSUME HeapInv, H!Pop
  PROVE  \E x \in Rank : H!Promise!Pop(x)
<1> DEFINE n == Len(h) - 1
           u == H!Down(H!Swap(h, 0, n), 0, n).s
           x == At(h, 0)
<1>1. /\ h \in Seq(Int) /\ h \in Seq(Rank) /\ Heaped(h) /\ h # <<>>
      /\ h' = H!Front(u) /\ heapResult' = [op |-> "Pop", given |-> <<>>, out |-> H!At(u, n)]
  BY RankIs DEF HeapInv, H!Pop, H!Return
<1>2. /\ h' \in Seq(Int) /\ At(u, n) = x
      /\ \A y \in Int : Occurs(h', y) = Occurs(h, y) - One(x, y)
  BY <1>1, PopIs
<1>3. x \in Rank /\ h[1] = x /\ 1 \in 1 .. Len(h) /\ x \in Int
  BY <1>1, RankIs DEF At
<1>4. H!At(u, n) = x
  BY <1>2 DEF H!At, At
<1> HIDE DEF n, u, x
<1>5. Bag(h') = [Bag(h) EXCEPT ![x] = @ - 1]
  BY <1>1, <1>2, <1>3, BagMoves
<1>6. H!Promise!Says("Pop", <<>>, x)
  BY <1>1, <1>4 DEF H!Promise!Says
<1>7. Bag(h)[x] > 0
  <2>1. Occurs(h, x) > 0
    BY <1>1, <1>3, PlacesIs
  <2> QED BY <1>3, <2>1 DEF Bag
<1>8. ASSUME NEW y \in Rank, Bag(h)[y] > 0 PROVE x <= y
  <2>1. Occurs(h, y) > 0
    BY <1>8 DEF Bag
  <2>2. PICK i \in 1 .. Len(h) : h[i] = y
    BY <1>1, <2>1, PlacesIs
  <2>3. i - 1 \in Nat /\ i - 1 < Len(h) /\ (i - 1) + 1 = i
    BY <1>1
  <2>4. At(h, 0) <= At(h, i - 1)
    BY <1>1, <2>3, FirstIsLeast
  <2> QED BY <2>2, <2>3, <2>4 DEF At, x
<1>9. H!Promise!Pop(x)
  BY <1>5, <1>6, <1>7, <1>8, BagReads DEF H!Promise!Pop
<1> QED BY <1>3, <1>9

LEMMA RemovePromised ==
  ASSUME HeapInv, NEW i \in 0 .. MaxHeap - 1, H!Remove(i)
  PROVE  \E x \in Rank : H!Promise!Remove(x)
<1> DEFINE n == Len(h) - 1
           u == IF n = i THEN h ELSE H!DownOrUp(H!Swap(h, i, n), i, n)
           x == At(h, i)
<1>1. /\ h \in Seq(Int) /\ h \in Seq(Rank) /\ Heaped(h) /\ i \in Nat /\ i < Len(h)
      /\ h' = H!Front(u)
      /\ heapResult' = [op |-> "Remove", given |-> <<H!At(h, i)>>, out |-> H!At(u, n)]
  BY RankIs DEF HeapInv, H!Remove, H!Return
<1>2. /\ h' \in Seq(Int) /\ At(u, n) = x
      /\ \A y \in Int : Occurs(h', y) = Occurs(h, y) - One(x, y)
  BY <1>1, RemoveIs
<1>3. x \in Rank /\ h[i + 1] = x /\ i + 1 \in 1 .. Len(h) /\ x \in Int
  BY <1>1, RankIs DEF At
<1>4. H!At(u, n) = x /\ H!At(h, i) = x
  BY <1>2 DEF H!At, At
<1> HIDE DEF n, u, x
<1>5. Bag(h') = [Bag(h) EXCEPT ![x] = @ - 1]
  BY <1>1, <1>2, <1>3, BagMoves
<1>6. H!Promise!Says("Remove", <<x>>, x)
  BY <1>1, <1>4 DEF H!Promise!Says
<1>7. Bag(h)[x] > 0
  <2>1. Occurs(h, x) > 0
    BY <1>1, <1>3, PlacesIs
  <2> QED BY <1>3, <2>1 DEF Bag
<1>8. H!Promise!Remove(x)
  BY <1>5, <1>6, <1>7, BagReads DEF H!Promise!Remove
<1> QED BY <1>3, <1>8

LEMMA FixPromised ==
  ASSUME HeapInv, NEW i \in 0 .. MaxHeap - 1, NEW y \in Rank, H!Fix(i, y)
  PROVE  \E x \in Rank : H!Promise!Fix(x, y)
<1> DEFINE t == [h EXCEPT ![i + 1] = y]
           x == At(h, i)
<1>1. /\ h \in Seq(Int) /\ h \in Seq(Rank) /\ Heaped(h) /\ i \in Nat /\ i < Len(h)
      /\ h' = H!DownOrUp(t, i, Len(h)) /\ y \in Int
      /\ heapResult' = [op |-> "Fix", given |-> <<H!At(h, i), y>>, out |-> 0]
  BY RankIs DEF HeapInv, H!Fix, H!Return
<1>2. h' \in Seq(Int) /\ SameItems(h', t)
  BY <1>1, FixIs
<1>3. x \in Rank /\ h[i + 1] = x /\ i + 1 \in 1 .. Len(h) /\ x \in Int /\ H!At(h, i) = x
  BY <1>1, RankIs DEF At, H!At
<1>4. \A z \in Int : Occurs(t, z) = Occurs(h, z) - One(x, z) + One(y, z)
  BY <1>1, <1>3, ChangedOccurs
<1> HIDE DEF t, x
<1>5. \A z \in Int : Occurs(h', z) = Occurs(h, z) - One(x, z) + One(y, z)
  BY <1>2, <1>4 DEF SameItems, Occurs
<1>6. Bag(h') = [[Bag(h) EXCEPT ![x] = @ - 1] EXCEPT ![y] = @ + 1]
  <2>1. \A z \in Rank : z \in Int /\ Occurs(h, z) \in Nat /\ Occurs(h', z) \in Nat
    BY <1>1, <1>2, RankIs, PlacesIs
  <2>2. ASSUME NEW z \in Rank
        PROVE  Occurs(h', z) = [[Bag(h) EXCEPT ![x] = @ - 1] EXCEPT ![y] = @ + 1][z]
    <3>1. Occurs(h', z) = Occurs(h, z) - One(x, z) + One(y, z) /\ Occurs(h, z) \in Nat
      BY <1>5, <2>1
    <3>2. CASE z = x /\ z = y
      BY <3>1, <3>2 DEF Bag, One
    <3>3. CASE z = x /\ z # y
      BY <3>1, <3>3 DEF Bag, One
    <3>4. CASE z # x /\ z = y
      BY <3>1, <3>4 DEF Bag, One
    <3>5. CASE z # x /\ z # y
      BY <3>1, <3>5 DEF Bag, One
    <3> QED BY <3>2, <3>3, <3>4, <3>5
  <2>3. DOMAIN Bag(h) = Rank /\ Bag(h') = [z \in Rank |-> Occurs(h', z)]
    BY DEF Bag
  <2> QED BY <2>2, <2>3
<1>7. H!Promise!Says("Fix", <<x, y>>, 0)
  BY <1>1, <1>3 DEF H!Promise!Says
<1>8. Bag(h)[x] > 0
  <2>1. Occurs(h, x) > 0
    BY <1>1, <1>3, PlacesIs
  <2> QED BY <1>3, <2>1 DEF Bag
<1>9. H!Promise!Fix(x, y)
  BY <1>6, <1>7, <1>8, BagReads DEF H!Promise!Fix
<1> QED BY <1>3, <1>9

LEMMA InitPromised ==
  ASSUME NEW n \in 0 .. MaxHeap, NEW s \in [1 .. n -> Rank], H!InitHeap(s)
  PROVE  H!Promise!Start
<1>1. /\ h' = H!Heapified(s)
      /\ heapResult' = [op |-> "Init", given |-> s, out |-> 0]
  BY DEF H!InitHeap, H!Return
<1>2. s \in Seq(Int)
  <2>1. s \in Seq(Rank)
    BY SeqDef
  <2> QED BY <2>1, RankIs
<1>3. SameItems(h', s)
  BY <1>1, <1>2, HeapifiedIs
<1>4. Bag(h') = Bag(s)
  BY <1>3, RankIs DEF SameItems, Bag, Occurs
<1>5. heapResult'.given = s /\ H!Promise!Says("Init", heapResult'.given, 0)
  BY <1>1 DEF H!Promise!Says
<1>6. H!Promise!Counted(s) = Bag(s)
  BY SameCardinality DEF H!Promise!Counted, Bag, Occurs, Places
<1> QED BY <1>4, <1>5, <1>6, BagReads DEF H!Promise!Start

LEMMA HeapPromised == ASSUME HeapInv, H!Next PROVE H!Promise!Next
BY InitPromised, PushPromised, PopPromised, RemovePromised, FixPromised
   DEF H!Next, H!Promise!Next

(* The heap routines implement the priority queue: none loses or doubles   *)
(* an item, Pop returns a least one, Remove the one at its index, and Fix  *)
(* exchanges one.                                                          *)
THEOREM HeapIsPriorityQueue == Spec => IsPriorityQueue
<1> DEFINE Inv == HeapInv
<1>1. Init => Inv /\ H!Promise!Init
  <2>1. ASSUME Init PROVE H!Promise!Init
    <3>1. h = <<>> /\ heapResult = [op |-> "none", given |-> <<>>, out |-> 0]
      BY <2>1 DEF Init, H!Init, H!NoResult
    <3>2. \A x : Places(h, x) = {}
      BY <3>1 DEF Places
    <3>3. Bag(h) = [x \in Rank |-> 0]
      BY <3>2, FS_EmptySet DEF Bag, Occurs
    <3> QED BY <3>1, <3>3, BagReads DEF H!Promise!Init
  <2> QED BY <2>1 DEF Init, H!Init, HeapInv, Heaped, OrderedFrom
<1>2. Inv /\ [Next]_<<kind, lists, rings, heaps, repeats>> => Inv'
  BY HeapNext DEF Next, ListStep, RingStep, HeapStep, RepeatStep, heaps, HeapInv
<1>3. Inv /\ [Next]_<<kind, lists, rings, heaps, repeats>> => [H!Promise!Next]_(H!Promise!vars)
  <2>1. HeapInv /\ HeapStep => H!Promise!Next
    BY HeapPromised DEF HeapStep
  <2>2. UNCHANGED heaps => UNCHANGED H!Promise!vars
    BY DEF heaps, H!Promise!vars
  <2> QED BY <2>1, <2>2 DEF Next, ListStep, RingStep, RepeatStep
<1> HIDE DEF Inv
<1> QED BY <1>1, <1>2, <1>3, PTL DEF Spec, IsPriorityQueue, H!IsPriorityQueue, H!Promise!Spec

-----------------------------------------------------------------------------
(* Lists.  The memory m of the lists holds the sequences q: from the root  *)
(* of a list the links run through its sequence and back to the root, both *)
(* ways, and an element not in a sequence has no links, unless the list it *)
(* was in has been cleared: such elements make up d.                       *)

ListType ==
  [next : [L!Node -> L!Node \cup {Nil}], prev : [L!Node -> L!Node \cup {Nil}],
   list : [Elem -> Lists \cup {Nil}], value : [Elem -> Mark], len : [Lists -> Nat]]

(* The i-th node of the list l of the elements s, the root before and      *)
(* behind them.                                                            *)
Nth(l, s, i) == IF i \in 1 .. Len(s) THEN s[i] ELSE l

Circle(m, l, s) ==
  \A i \in 0 .. Len(s) : /\ m.next[Nth(l, s, i)] = Nth(l, s, i + 1)
                         /\ m.prev[Nth(l, s, i + 1)] = Nth(l, s, i)

(* No element is in two places.                                            *)
Single(q) ==
  \A l, k \in Lists : \A i \in 1 .. Len(q[l]), j \in 1 .. Len(q[k]) :
    q[l][i] = q[k][j] => l = k /\ i = j

Owned(m, d, q) ==
  /\ \A l \in Lists : \A i \in 1 .. Len(q[l]) : q[l][i] \notin d /\ m.list[q[l][i]] = l
  /\ \A e \in Elem \ d : m.list[e] # Nil => \E i \in 1 .. Len(q[m.list[e]]) : q[m.list[e]][i] = e
  /\ \A e \in Elem \ d : m.list[e] = Nil => m.next[e] = Nil /\ m.prev[e] = Nil

Strung(m, q) ==
  \A l \in Lists : \/ m.next[l] = Nil /\ m.prev[l] = Nil /\ q[l] = <<>>
                   \/ m.next[l] # Nil /\ Circle(m, l, q[l])

Holds(m, d, q) ==
  /\ m \in ListType /\ q \in [Lists -> Seq(Elem)] /\ d \in SUBSET Elem
  /\ \A l \in Lists : m.len[l] = Len(q[l])
  /\ Single(q) /\ Owned(m, d, q) /\ Strung(m, q)

LEMMA NodesApart == /\ Lists \cap Elem = {} /\ Nil \notin Lists /\ Nil \notin Elem
                    /\ L!Node = Lists \cup Elem /\ Zero \in Mark
BY ContainersAssumption DEF L!ListAssumption, L!Node

LEMMA NthIs ==
  ASSUME NEW l \in Lists, NEW s \in Seq(Elem), NEW i \in Int
  PROVE  /\ Nth(l, s, i) \in L!Node
         /\ i \in 1 .. Len(s) => Nth(l, s, i) = s[i] /\ Nth(l, s, i) \in Elem
         /\ i \notin 1 .. Len(s) => Nth(l, s, i) = l
BY NodesApart DEF Nth

(* The nodes of lists are as many as there are places.                     *)
LEMMA NthApart ==
  ASSUME NEW q \in [Lists -> Seq(Elem)], Single(q), NEW l \in Lists, NEW k \in Lists,
         NEW i \in Int, NEW j \in Int, Nth(l, q[l], i) = Nth(k, q[k], j)
  PROVE  /\ l = k
         /\ i \in 1 .. Len(q[l]) <=> j \in 1 .. Len(q[k])
         /\ i \in 1 .. Len(q[l]) => i = j
<1>1. q[l] \in Seq(Elem) /\ q[k] \in Seq(Elem)
  OBVIOUS
<1>2. CASE i \in 1 .. Len(q[l]) /\ j \in 1 .. Len(q[k])
  BY <1>2 DEF Single, Nth
<1>3. CASE i \in 1 .. Len(q[l]) /\ j \notin 1 .. Len(q[k])
  BY <1>1, <1>3, NthIs, NodesApart
<1>4. CASE i \notin 1 .. Len(q[l]) /\ j \in 1 .. Len(q[k])
  BY <1>1, <1>4, NthIs, NodesApart
<1>5. CASE i \notin 1 .. Len(q[l]) /\ j \notin 1 .. Len(q[k])
  BY <1>5 DEF Nth
<1> QED BY <1>2, <1>3, <1>4, <1>5

(* s with e as its (i + 1)-th element, and s without its i-th.             *)
With(s, i, e) == [j \in 1 .. Len(s) + 1 |-> IF j <= i THEN s[j] ELSE IF j = i + 1 THEN e ELSE s[j - 1]]
Without(s, i) == [j \in 1 .. Len(s) - 1 |-> IF j < i THEN s[j] ELSE s[j + 1]]

LEMMA WithIs ==
  ASSUME NEW s \in Seq(Elem), NEW i \in 0 .. Len(s), NEW e \in Elem
  PROVE  /\ With(s, i, e) \in Seq(Elem) /\ Len(With(s, i, e)) = Len(s) + 1
         /\ \A l : \A j \in 0 .. Len(s) + 2 :
              Nth(l, With(s, i, e), j)
                = IF j <= i THEN Nth(l, s, j) ELSE IF j = i + 1 THEN e ELSE Nth(l, s, j - 1)
<1> DEFINE t == With(s, i, e)
           n == Len(s)
<1>1. n \in Nat /\ i \in 0 .. n
  OBVIOUS
<1>2. t = [j \in 1 .. n + 1 |-> IF j <= i THEN s[j] ELSE IF j = i + 1 THEN e ELSE s[j - 1]]
  BY DEF With
<1>3. \A j \in 1 .. n : s[j] \in Elem
  OBVIOUS
<1> HIDE DEF n, t
<1>4. \A j \in 1 .. n + 1 : (j <= i => j \in 1 .. n) /\ (j # i + 1 /\ ~ (j <= i) => j - 1 \in 1 .. n)
  BY <1>1
<1>5. t \in [1 .. n + 1 -> Elem] /\ n + 1 \in Nat
  BY <1>1, <1>2, <1>3, <1>4
<1>6. t \in Seq(Elem) /\ Len(t) = n + 1
  BY <1>5, SeqDef
<1>7. ASSUME NEW l, NEW j \in 0 .. n + 2
      PROVE  Nth(l, t, j) = IF j <= i THEN Nth(l, s, j)
                            ELSE IF j = i + 1 THEN e ELSE Nth(l, s, j - 1)
  <2>1. CASE j \in 1 .. n + 1
    BY <1>1, <1>2, <1>4, <1>6, <2>1 DEF Nth, n
  <2>2. CASE j = 0
    BY <1>1, <1>6, <2>2 DEF Nth
  <2>3. CASE j = n + 2
    BY <1>1, <1>6, <2>3 DEF Nth, n
  <2> QED BY <1>1, <2>1, <2>2, <2>3
<1> QED BY <1>6, <1>7 DEF t, n

(* t is s with e put in after its first i elements.                        *)
Inserts(t, s, i, e) ==
  /\ t \in Seq(Elem) /\ Len(t) = Len(s) + 1
  /\ \A l : \A j \in 0 .. Len(s) + 2 :
       Nth(l, t, j) = IF j <= i THEN Nth(l, s, j) ELSE IF j = i + 1 THEN e ELSE Nth(l, s, j - 1)

LEMMA WithInserts ==
  ASSUME NEW s \in Seq(Elem), NEW i \in 0 .. Len(s), NEW e \in Elem
  PROVE  Inserts(With(s, i, e), s, i, e)
BY WithIs DEF Inserts

LEMMA WithoutIs ==
  ASSUME NEW s \in Seq(Elem), NEW i \in 1 .. Len(s)
  PROVE  /\ Without(s, i) \in Seq(Elem) /\ Len(Without(s, i)) = Len(s) - 1
         /\ \A l : \A j \in 0 .. Len(s) :
              Nth(l, Without(s, i), j) = IF j < i THEN Nth(l, s, j) ELSE Nth(l, s, j + 1)
<1> DEFINE t == Without(s, i)
           n == Len(s)
<1>1. n \in Nat /\ i \in 1 .. n
  OBVIOUS
<1>2. t = [j \in 1 .. n - 1 |-> IF j < i THEN s[j] ELSE s[j + 1]]
  BY DEF Without
<1>3. \A j \in 1 .. n : s[j] \in Elem
  OBVIOUS
<1> HIDE DEF n, t
<1>4. \A j \in 1 .. n - 1 : j \in 1 .. n /\ j + 1 \in 1 .. n
  BY <1>1
<1>5. t \in [1 .. n - 1 -> Elem] /\ n - 1 \in Nat
  BY <1>1, <1>2, <1>3, <1>4
<1>6. t \in Seq(Elem) /\ Len(t) = n - 1
  BY <1>5, SeqDef
<1>7. ASSUME NEW l, NEW j \in 0 .. n
      PROVE  Nth(l, t, j) = IF j < i THEN Nth(l, s, j) ELSE Nth(l, s, j + 1)
  <2>1. CASE j \in 1 .. n - 1
    BY <1>1, <1>2, <1>4, <1>6, <2>1 DEF Nth, n
  <2>2. CASE j = 0
    BY <1>1, <1>6, <2>2 DEF Nth
  <2>3. CASE j = n
    BY <1>1, <1>6, <2>3 DEF Nth, n
  <2> QED BY <1>1, <2>1, <2>2, <2>3
<1> QED BY <1>6, <1>7 DEF t, n

(* What the helpers assign.                                                *)
IsInserted(g, m, l, e, at, after) ==
  /\ g \in ListType
  /\ g.next = [[m.next EXCEPT ![e] = after] EXCEPT ![at] = e]
  /\ g.prev = [[m.prev EXCEPT ![after] = e] EXCEPT ![e] = at]
  /\ g.list = [m.list EXCEPT ![e] = l] /\ g.value = m.value
  /\ g.len = [m.len EXCEPT ![l] = @ + 1]

IsRemoved(g, m, l, e, before, after) ==
  /\ g \in ListType
  /\ g.next = [[m.next EXCEPT ![before] = after] EXCEPT ![e] = Nil]
  /\ g.prev = [[m.prev EXCEPT ![after] = before] EXCEPT ![e] = Nil]
  /\ g.list = [m.list EXCEPT ![e] = Nil] /\ g.value = m.value
  /\ g.len = [m.len EXCEPT ![l] = @ - 1]

LEMMA InsertedFields ==
  ASSUME NEW m \in ListType, NEW l \in Lists, NEW e \in Elem, NEW at \in L!Node,
         NEW after \in L!Node, m.next[at] = after
  PROVE  IsInserted(L!Inserted(m, l, e, at), m, l, e, at, after)
<1> DEFINE g == L!Inserted(m, l, e, at)
           a == L!Joined(m, e, after)
           b == L!Joined(a, at, e)
<1>1. g = [b EXCEPT !.list[e] = l, !.len[l] = @ + 1]
  BY DEF L!Inserted
<1>2. e \in L!Node
  BY NodesApart
<1>3. /\ a = [m EXCEPT !.next[e] = after, !.prev[after] = e]
      /\ b = [a EXCEPT !.next[at] = e, !.prev[e] = at]
  BY DEF L!Joined
<1> HIDE DEF a, b, g
<1>4. /\ a \in ListType /\ a.next = [m.next EXCEPT ![e] = after]
      /\ a.prev = [m.prev EXCEPT ![after] = e]
      /\ a.list = m.list /\ a.value = m.value /\ a.len = m.len
  BY <1>2, <1>3 DEF ListType
<1>5. /\ b \in ListType /\ b.next = [a.next EXCEPT ![at] = e] /\ b.prev = [a.prev EXCEPT ![e] = at]
      /\ b.list = a.list /\ b.value = a.value /\ b.len = a.len
  BY <1>2, <1>3, <1>4 DEF ListType
<1>6. /\ g.next = b.next /\ g.prev = b.prev
      /\ g.list = [b.list EXCEPT ![e] = l] /\ g.value = b.value
      /\ g.len = [b.len EXCEPT ![l] = @ + 1]
      /\ g = [next |-> g.next, prev |-> g.prev, list |-> g.list, value |-> g.value, len |-> g.len]
  BY <1>1, <1>5 DEF ListType
<1>7. g \in ListType
  <2>1. /\ g.next \in [L!Node -> L!Node \cup {Nil}] /\ g.prev \in [L!Node -> L!Node \cup {Nil}]
        /\ g.value \in [Elem -> Mark] /\ b.list \in [Elem -> Lists \cup {Nil}]
    BY <1>5, <1>6 DEF ListType
  <2>3. g.list \in [Elem -> Lists \cup {Nil}]
    BY <1>6, <2>1
  <2>2. g.len \in [Lists -> Nat]
    <3>1. b.len \in [Lists -> Nat] /\ b.len[l] + 1 \in Nat
      BY <1>5 DEF ListType
    <3> QED BY <1>6, <3>1
  <2> QED BY <1>6, <2>1, <2>2, <2>3 DEF ListType
<1> QED BY <1>4, <1>5, <1>6, <1>7 DEF g, IsInserted

LEMMA RemovedFields ==
  ASSUME NEW m \in ListType, NEW l \in Lists, NEW e \in Elem, m.len[l] > 0,
         NEW before \in L!Node, m.prev[e] = before, NEW after \in L!Node, m.next[e] = after
  PROVE  IsRemoved(L!Removed(m, l, e), m, l, e, before, after)
<1> DEFINE g == L!Removed(m, l, e)
           a == L!Joined(m, before, after)
<1>1. g = [a EXCEPT !.next[e] = Nil, !.prev[e] = Nil, !.list[e] = Nil, !.len[l] = @ - 1]
  BY DEF L!Removed
<1>2. e \in L!Node /\ m.len[l] \in Nat
  BY NodesApart DEF ListType
<1>3. a = [m EXCEPT !.next[before] = after, !.prev[after] = before]
  BY DEF L!Joined
<1> HIDE DEF a, g
<1>4. /\ a \in ListType /\ a.next = [m.next EXCEPT ![before] = after]
      /\ a.prev = [m.prev EXCEPT ![after] = before]
      /\ a.list = m.list /\ a.value = m.value /\ a.len = m.len
  BY <1>3 DEF ListType
<1>5. /\ g.next = [a.next EXCEPT ![e] = Nil] /\ g.prev = [a.prev EXCEPT ![e] = Nil]
      /\ g.list = [a.list EXCEPT ![e] = Nil] /\ g.value = a.value
      /\ g.len = [a.len EXCEPT ![l] = @ - 1]
      /\ g = [next |-> g.next, prev |-> g.prev, list |-> g.list, value |-> g.value, len |-> g.len]
  BY <1>1, <1>4 DEF ListType
<1>6. g \in ListType
  <2>1. /\ g.next \in [L!Node -> L!Node \cup {Nil}] /\ g.prev \in [L!Node -> L!Node \cup {Nil}]
        /\ g.list \in [Elem -> Lists \cup {Nil}] /\ g.value \in [Elem -> Mark]
    BY <1>2, <1>4, <1>5 DEF ListType
  <2>2. g.len \in [Lists -> Nat]
    <3>1. a.len \in [Lists -> Nat] /\ a.len[l] - 1 \in Nat
      BY <1>2, <1>4 DEF ListType
    <3> QED BY <1>5, <3>1
  <2> QED BY <1>5, <2>1, <2>2 DEF ListType
<1> QED BY <1>4, <1>5, <1>6 DEF g, IsRemoved

Extended(q, l, i, e) == [q EXCEPT ![l] = With(q[l], i, e)]

Reduced(q, l, i) == [q EXCEPT ![l] = Without(q[l], i)]

(* g holds r; l has been initialised, and e belongs to o.                  *)
Became(g, m, d, r, l, e, o) ==
  /\ Holds(g, d, r) /\ g.value = m.value /\ g.next[l] # Nil
  /\ g.list = [m.list EXCEPT ![e] = o]

(* insert: e stands behind the i-th node of l.                             *)
LEMMA InsertedHolds ==
  ASSUME NEW m, NEW d, NEW q, Holds(m, d, q), NEW l \in Lists, m.next[l] # Nil,
         NEW i \in 0 .. Len(q[l]), NEW e \in Elem \ d, m.list[e] = Nil
  PROVE  Became(L!Inserted(m, l, e, Nth(l, q[l], i)), m, d, Extended(q, l, i, e), l, e, l)
<1> DEFINE s == q[l]
           n == Len(s)
           at == Nth(l, s, i)
           after == Nth(l, s, i + 1)
           t == With(s, i, e)
           r == [q EXCEPT ![l] = t]
           g == L!Inserted(m, l, e, at)
<1>1. /\ m \in ListType /\ q \in [Lists -> Seq(Elem)] /\ \A k \in Lists : m.len[k] = Len(q[k])
      /\ Single(q) /\ Owned(m, d, q) /\ Strung(m, q)
  BY DEF Holds
<1>2. s \in Seq(Elem) /\ n \in Nat /\ i \in 0 .. n /\ i \in Int
  BY <1>1
<1>3. Circle(m, l, s)
  BY <1>1 DEF Strung
<1>4. at \in L!Node /\ after \in L!Node /\ m.next[at] = after /\ m.prev[after] = at
  BY <1>2, <1>3, NthIs DEF Circle
<1>5. /\ t \in Seq(Elem) /\ Len(t) = n + 1
      /\ \A k : \A j \in 0 .. n + 2 :
           Nth(k, t, j) = IF j <= i THEN Nth(k, s, j) ELSE IF j = i + 1 THEN e ELSE Nth(k, s, j - 1)
  <2> HIDE DEF s
  <2>1. s \in Seq(Elem) /\ i \in 0 .. Len(s) /\ e \in Elem
    BY <1>2
  <2>2. Inserts(t, s, i, e)
    BY <2>1, WithInserts
  <2> HIDE DEF t
  <2> QED BY <1>2, <2>2 DEF Inserts
<1>6. /\ r \in [Lists -> Seq(Elem)] /\ r[l] = t /\ \A k \in Lists : k # l => r[k] = q[k]
  BY <1>1, <1>5
<1>7. \A k \in Lists : \A j \in Int : Nth(k, q[k], j) # e
  <2>1. SUFFICES ASSUME NEW k \in Lists, NEW j \in Int, Nth(k, q[k], j) = e PROVE FALSE
    OBVIOUS
  <2>2. j \in 1 .. Len(q[k]) /\ q[k][j] = e
    BY <1>1, <2>1, NthIs, NodesApart
  <2> QED BY <1>1, <2>2, NodesApart DEF Owned
<1>8. /\ g \in ListType
      /\ g.next = [[m.next EXCEPT ![e] = after] EXCEPT ![at] = e]
      /\ g.prev = [[m.prev EXCEPT ![after] = e] EXCEPT ![e] = at]
      /\ g.list = [m.list EXCEPT ![e] = l] /\ g.value = m.value
      /\ g.len = [m.len EXCEPT ![l] = @ + 1]
  <2> HIDE DEF at, after
  <2>1. m \in ListType /\ e \in Elem /\ at \in L!Node /\ after \in L!Node /\ m.next[at] = after
    BY <1>1, <1>4
  <2>2. IsInserted(g, m, l, e, at, after)
    BY <2>1, InsertedFields
  <2> QED BY <2>2 DEF IsInserted
<1>9. at # e /\ after # e /\ e \in L!Node /\ e # l
  <2>1. i + 1 \in Int
    BY <1>2
  <2> QED BY <1>2, <1>7, <2>1, NodesApart
<1>10. /\ m.next \in [L!Node -> L!Node \cup {Nil}] /\ m.prev \in [L!Node -> L!Node \cup {Nil}]
       /\ m.list \in [Elem -> Lists \cup {Nil}] /\ m.len \in [Lists -> Nat]
  BY <1>1 DEF ListType
<1> HIDE DEF g
<1>11. /\ g.next[e] = after /\ g.next[at] = e /\ g.prev[e] = at /\ g.prev[after] = e
       /\ \A x \in L!Node : x # e /\ x # at => g.next[x] = m.next[x]
       /\ \A x \in L!Node : x # e /\ x # after => g.prev[x] = m.prev[x]
       /\ g.list[e] = l /\ \A x \in Elem : x # e => g.list[x] = m.list[x]
       /\ g.len[l] = m.len[l] + 1 /\ \A k \in Lists : k # l => g.len[k] = m.len[k]
  BY <1>4, <1>8, <1>9, <1>10
<1>12. \A j \in 0 .. n : (Nth(l, s, j) = at => j = i) /\ (Nth(l, s, j + 1) = after => j = i)
  <2>1. ASSUME NEW j \in 0 .. n, Nth(l, s, j) = at PROVE j = i
    <3>1. (j \in 1 .. n <=> i \in 1 .. n) /\ (j \in 1 .. n => j = i)
      BY <1>1, <1>2, <2>1, NthApart
    <3> QED BY <1>2, <3>1
  <2>2. ASSUME NEW j \in 0 .. n, Nth(l, s, j + 1) = after PROVE j = i
    <3>1. j + 1 \in Int /\ i + 1 \in Int
      BY <1>2
    <3>2. (j + 1 \in 1 .. n <=> i + 1 \in 1 .. n) /\ (j + 1 \in 1 .. n => j + 1 = i + 1)
      BY <1>1, <2>2, <3>1, NthApart
    <3> QED BY <1>2, <3>2
  <2> QED BY <2>1, <2>2
<1>13. \A j \in 0 .. n + 1 : Nth(l, s, j) \in L!Node /\ Nth(l, s, j) # e
  <2>1. \A j \in 0 .. n + 1 : j \in Int
    OBVIOUS
  <2> QED BY <1>2, <1>7, <2>1, NthIs
<1> HIDE DEF at, after, t
<1>14. Circle(g, l, t)
  <2>1. SUFFICES ASSUME NEW j \in 0 .. n + 1
                 PROVE  g.next[Nth(l, t, j)] = Nth(l, t, j + 1) /\ g.prev[Nth(l, t, j + 1)] = Nth(l, t, j)
    BY <1>5 DEF Circle
  <2>2. j \in 0 .. n + 2 /\ j + 1 \in 0 .. n + 2
    BY <1>2
  <2>3. CASE j < i
    <3>1. Nth(l, t, j) = Nth(l, s, j) /\ Nth(l, t, j + 1) = Nth(l, s, j + 1)
      BY <1>2, <1>5, <2>2, <2>3
    <3>2. j \in 0 .. n /\ j # i /\ j + 1 \in 0 .. n + 1 /\ j \in 0 .. n + 1
      BY <1>2, <2>3
    <3>3. /\ m.next[Nth(l, s, j)] = Nth(l, s, j + 1) /\ m.prev[Nth(l, s, j + 1)] = Nth(l, s, j)
      BY <1>3, <3>2 DEF Circle
    <3> QED BY <1>11, <1>12, <1>13, <3>1, <3>2, <3>3
  <2>4. CASE j = i
    <3>1. Nth(l, t, j) = at /\ Nth(l, t, j + 1) = e
      BY <1>2, <1>5, <2>2, <2>4 DEF at
    <3> QED BY <1>11, <3>1
  <2>5. CASE j = i + 1
    <3>1. Nth(l, t, j) = e /\ Nth(l, t, j + 1) = after
      <4>1. (j + 1) - 1 = i + 1 /\ ~ (j + 1 <= i) /\ j + 1 # i + 1 /\ ~ (j <= i)
        BY <1>2, <2>5
      <4> QED BY <1>5, <2>2, <2>5, <4>1 DEF after
    <3> QED BY <1>11, <3>1
  <2>6. CASE j > i + 1
    <3>1. /\ (j + 1) - 1 = j /\ ~ (j + 1 <= i) /\ j + 1 # i + 1 /\ ~ (j <= i) /\ j # i + 1
          /\ j - 1 \in 0 .. n /\ j - 1 # i /\ (j - 1) + 1 = j /\ j \in 0 .. n + 1 /\ j - 1 \in 0 .. n + 1
      BY <1>2, <2>6
    <3>2. Nth(l, t, j) = Nth(l, s, j - 1) /\ Nth(l, t, j + 1) = Nth(l, s, j)
      BY <1>5, <2>2, <3>1
    <3>3. /\ m.next[Nth(l, s, j - 1)] = Nth(l, s, j) /\ m.prev[Nth(l, s, j)] = Nth(l, s, j - 1)
      BY <1>3, <3>1 DEF Circle
    <3>4. Nth(l, s, j - 1) # at /\ Nth(l, s, j) # after
      BY <1>12, <3>1
    <3> QED BY <1>11, <1>13, <3>1, <3>2, <3>3, <3>4
  <2> QED BY <1>2, <2>3, <2>4, <2>5, <2>6
<1>15. g.next[l] # Nil
  <2>1. 0 \in 0 .. n + 1 /\ Nth(l, t, 0) = l /\ 0 + 1 = 1 /\ 1 \in Int
    BY <1>2 DEF Nth
  <2>2. g.next[l] = Nth(l, t, 1)
    BY <1>5, <1>14, <2>1 DEF Circle
  <2> QED BY <1>5, <2>1, <2>2, NthIs, NodesApart
<1>16. ASSUME NEW k \in Lists, k # l
       PROVE  \/ g.next[k] = Nil /\ g.prev[k] = Nil /\ q[k] = <<>>
              \/ g.next[k] # Nil /\ Circle(g, k, q[k])
  <2>1. \A j \in Int : Nth(k, q[k], j) # at /\ Nth(k, q[k], j) # after /\ Nth(k, q[k], j) # e
                      /\ Nth(k, q[k], j) \in L!Node
    <3>1. i + 1 \in Int /\ q[k] \in Seq(Elem)
      BY <1>1, <1>2
    <3> QED BY <1>1, <1>2, <1>7, <1>16, <3>1, NthApart, NthIs DEF at, after
  <2>2. k = Nth(k, q[k], 0) /\ 0 \in Int
    BY DEF Nth
  <2>3. g.next[k] = m.next[k] /\ g.prev[k] = m.prev[k]
    BY <1>11, <2>1, <2>2
  <2>4. ASSUME Circle(m, k, q[k]) PROVE Circle(g, k, q[k])
    <3>1. \A j \in 0 .. Len(q[k]) : j \in Int /\ j + 1 \in Int
      OBVIOUS
    <3> QED BY <1>11, <2>1, <2>4, <3>1 DEF Circle
  <2> QED BY <1>1, <2>3, <2>4 DEF Strung
<1>17. Strung(g, r)
  BY <1>6, <1>14, <1>15, <1>16 DEF Strung
<1>18. /\ \A j \in 1 .. n + 1 : t[j] = e \/ \E x \in 1 .. n : t[j] = s[x]
       /\ t[i + 1] = e /\ \A x \in 1 .. n : \E j \in 1 .. n + 1 : t[j] = s[x]
       /\ \A j, x \in 1 .. n + 1 : t[j] = t[x] => j = x
  <2>1. t = [j \in 1 .. n + 1 |-> IF j <= i THEN s[j] ELSE IF j = i + 1 THEN e ELSE s[j - 1]]
    BY DEF t, With
  <2>2. \A j, x \in 1 .. n : s[j] = s[x] => j = x
    BY <1>1 DEF Single
  <2>3. \A x \in 1 .. n : s[x] # e
    <3>1. \A x \in 1 .. n : x \in Int /\ Nth(l, s, x) = s[x]
      BY DEF Nth
    <3> QED BY <1>7, <3>1
  <2> HIDE DEF n, s
  <2>4. \A j \in 1 .. n + 1 : j <= i => j \in 1 .. n /\ t[j] = s[j]
    BY <1>2, <2>1
  <2>5. \A j \in 1 .. n + 1 : j > i + 1 => j - 1 \in 1 .. n /\ t[j] = s[j - 1]
    BY <1>2, <2>1
  <2>6. t[i + 1] = e /\ i + 1 \in 1 .. n + 1
    BY <1>2, <2>1
  <2>7. \A j \in 1 .. n + 1 : j <= i \/ j = i + 1 \/ j > i + 1
    BY <1>2
  <2>8. \A x \in 1 .. n : \E j \in 1 .. n + 1 : t[j] = s[x]
    <3>1. ASSUME NEW x \in 1 .. n, x <= i PROVE x \in 1 .. n + 1 /\ t[x] = s[x]
      BY <1>2, <2>4, <3>1
    <3>2. ASSUME NEW x \in 1 .. n, ~ (x <= i) PROVE x + 1 \in 1 .. n + 1 /\ t[x + 1] = s[x]
      <4>1. x + 1 \in 1 .. n + 1 /\ x + 1 > i + 1 /\ (x + 1) - 1 = x
        BY <1>2, <3>2
      <4> QED BY <2>5, <4>1
    <3> QED BY <3>1, <3>2
  <2>9. ASSUME NEW j \in 1 .. n + 1, NEW x \in 1 .. n + 1, t[j] = t[x] PROVE j = x
    <3>1. CASE j <= i
      BY <1>2, <2>2, <2>3, <2>4, <2>5, <2>6, <2>7, <2>9, <3>1
    <3>2. CASE j = i + 1
      BY <1>2, <2>2, <2>3, <2>4, <2>5, <2>6, <2>7, <2>9, <3>2
    <3>3. CASE j > i + 1
      BY <1>2, <2>2, <2>3, <2>4, <2>5, <2>6, <2>7, <2>9, <3>3
    <3> QED BY <2>7, <3>1, <3>2, <3>3
  <2> QED BY <2>4, <2>5, <2>6, <2>7, <2>8, <2>9
<1>19. \A k \in Lists : \A j \in 1 .. Len(q[k]) : q[k][j] # e /\ (k # l => r[k] = q[k])
  <2>1. \A k \in Lists : \A j \in 1 .. Len(q[k]) : j \in Int /\ Nth(k, q[k], j) = q[k][j]
    BY DEF Nth
  <2> QED BY <1>6, <1>7, <2>1
<1> HIDE DEF r
<1>20. Single(r)
  <2>1. SUFFICES ASSUME NEW a \in Lists, NEW k \in Lists, NEW x \in 1 .. Len(r[a]), NEW j \in 1 .. Len(r[k]),
                        r[a][x] = r[k][j]
                 PROVE  a = k /\ x = j
    BY DEF Single
  <2>2. CASE a = l /\ k = l
    BY <1>5, <1>6, <1>18, <2>1, <2>2
  <2>3. CASE a = l /\ k # l
    <3>1. t[x] = e \/ \E y \in 1 .. n : t[x] = s[y]
      BY <1>5, <1>6, <1>18, <2>3
    <3>2. t[x] = q[k][j] /\ j \in 1 .. Len(q[k])
      BY <1>6, <2>1, <2>3
    <3> QED BY <1>1, <1>19, <2>3, <3>1, <3>2 DEF Single
  <2>4. CASE a # l /\ k = l
    <3>1. t[j] = e \/ \E y \in 1 .. n : t[j] = s[y]
      BY <1>5, <1>6, <1>18, <2>4
    <3>2. t[j] = q[a][x] /\ x \in 1 .. Len(q[a])
      BY <1>6, <2>1, <2>4
    <3> QED BY <1>1, <1>19, <2>4, <3>1, <3>2 DEF Single
  <2>5. CASE a # l /\ k # l
    BY <1>1, <1>6, <2>1, <2>5 DEF Single
  <2> QED BY <2>2, <2>3, <2>4, <2>5
<1>21. Owned(g, d, r)
  <2>1. ASSUME NEW k \in Lists, NEW j \in 1 .. Len(r[k]) PROVE r[k][j] \notin d /\ g.list[r[k][j]] = k
    <3>1. CASE k = l
      <4>1. t[j] = e \/ \E x \in 1 .. n : t[j] = s[x]
        BY <1>5, <1>6, <1>18, <3>1
      <4>2. \A x \in 1 .. n : s[x] \notin d /\ m.list[s[x]] = l /\ s[x] \in Elem /\ s[x] # e
        BY <1>1, <1>2, <1>19 DEF Owned
      <4> QED BY <1>6, <1>11, <3>1, <4>1, <4>2
    <3>2. CASE k # l
      <4>1. r[k] = q[k] /\ j \in 1 .. Len(q[k]) /\ q[k][j] \in Elem
        BY <1>1, <1>6, <3>2
      <4> QED BY <1>1, <1>11, <1>19, <4>1 DEF Owned
    <3> QED BY <3>1, <3>2
  <2>2. ASSUME NEW x \in Elem \ d, g.list[x] # Nil
        PROVE  \E j \in 1 .. Len(r[g.list[x]]) : r[g.list[x]][j] = x
    <3>1. CASE x = e
      <4>1. i + 1 \in 1 .. n + 1
        BY <1>2
      <4> QED BY <1>5, <1>6, <1>11, <1>18, <3>1, <4>1
    <3>2. CASE x # e
      <4>1. g.list[x] = m.list[x] /\ m.list[x] \in Lists
        BY <1>10, <1>11, <2>2, <3>2
      <4>2. PICK j \in 1 .. Len(q[m.list[x]]) : q[m.list[x]][j] = x
        BY <1>1, <2>2, <4>1 DEF Owned
      <4>3. CASE m.list[x] = l
        <5>1. j \in 1 .. n /\ s[j] = x
          BY <4>2, <4>3
        <5>2. PICK y \in 1 .. n + 1 : t[y] = x
          BY <1>18, <5>1
        <5> QED BY <1>5, <1>6, <4>1, <4>3, <5>2
      <4>4. CASE m.list[x] # l
        BY <1>6, <4>1, <4>2, <4>4
      <4> QED BY <4>3, <4>4
    <3> QED BY <3>1, <3>2
  <2>3. ASSUME NEW x \in Elem \ d, g.list[x] = Nil PROVE g.next[x] = Nil /\ g.prev[x] = Nil
    <3>1. x # e /\ m.list[x] = Nil
      BY <1>11, <2>3, NodesApart
    <3>2. m.next[x] = Nil /\ m.prev[x] = Nil
      BY <1>1, <3>1 DEF Owned
    <3>3. x # at /\ x # after
      <4>1. \A y \in 0 .. n + 1 : Nth(l, s, y) = x => FALSE
        <5>1. SUFFICES ASSUME NEW y \in 0 .. n + 1, Nth(l, s, y) = x PROVE FALSE
          OBVIOUS
        <5>2. y \in 1 .. n /\ s[y] = x
          BY <1>2, <5>1, NthIs, NodesApart
        <5> QED BY <1>1, <3>1, <5>2, NodesApart DEF Owned
      <4>2. i \in 0 .. n + 1 /\ i + 1 \in 0 .. n + 1
        BY <1>2
      <4> QED BY <4>1, <4>2 DEF at, after
    <3> QED BY <1>11, <3>1, <3>2, <3>3, NodesApart
  <2> QED BY <2>1, <2>2, <2>3 DEF Owned
<1>22. \A k \in Lists : g.len[k] = Len(r[k])
  BY <1>1, <1>5, <1>6, <1>11
<1>23. Holds(g, d, r)
  BY <1>6, <1>8, <1>17, <1>20, <1>21, <1>22 DEF Holds
<1> QED BY <1>8, <1>15, <1>23 DEF g, r, t, at, Became, Extended

(* remove: the i-th element of l leaves it.                                *)
LEMMA RemovedHolds ==
  ASSUME NEW m, NEW d, NEW q, Holds(m, d, q), NEW l \in Lists, NEW i \in 1 .. Len(q[l])
  PROVE  Became(L!Removed(m, l, q[l][i]), m, d, Reduced(q, l, i), l, q[l][i], Nil)
<1> DEFINE s == q[l]
           n == Len(s)
           e == s[i]
           before == Nth(l, s, i - 1)
           after == Nth(l, s, i + 1)
           t == Without(s, i)
           r == [q EXCEPT ![l] = t]
           g == L!Removed(m, l, e)
<1>1. /\ m \in ListType /\ q \in [Lists -> Seq(Elem)] /\ \A k \in Lists : m.len[k] = Len(q[k])
      /\ Single(q) /\ Owned(m, d, q) /\ Strung(m, q)
  BY DEF Holds
<1>2. s \in Seq(Elem) /\ n \in Nat /\ i \in 1 .. n /\ i \in Int /\ i - 1 \in Int /\ i + 1 \in Int
  BY <1>1
<1>3. Circle(m, l, s) /\ m.len[l] = n
  <2>1. s # <<>>
    BY <1>2
  <2> QED BY <1>1, <2>1 DEF Strung
<1>4. e \in Elem /\ e = Nth(l, s, i) /\ e \in L!Node /\ e # l
  BY <1>2, NthIs, NodesApart
<1>5. /\ before \in L!Node /\ after \in L!Node
      /\ m.prev[e] = before /\ m.next[before] = e /\ m.next[e] = after /\ m.prev[after] = e
  <2>1. i - 1 \in 0 .. n /\ i \in 0 .. n /\ (i - 1) + 1 = i
    BY <1>2
  <2> QED BY <1>2, <1>3, <1>4, <2>1, NthIs DEF Circle
<1>6. /\ t \in Seq(Elem) /\ Len(t) = n - 1
      /\ \A k : \A j \in 0 .. n : Nth(k, t, j) = IF j < i THEN Nth(k, s, j) ELSE Nth(k, s, j + 1)
  BY <1>2, WithoutIs
<1>7. /\ r \in [Lists -> Seq(Elem)] /\ r[l] = t /\ \A k \in Lists : k # l => r[k] = q[k]
  BY <1>1, <1>6
<1>8. /\ g \in ListType
      /\ g.next = [[m.next EXCEPT ![before] = after] EXCEPT ![e] = Nil]
      /\ g.prev = [[m.prev EXCEPT ![after] = before] EXCEPT ![e] = Nil]
      /\ g.list = [m.list EXCEPT ![e] = Nil] /\ g.value = m.value
      /\ g.len = [m.len EXCEPT ![l] = @ - 1]
  <2>1. m.len[l] > 0
    BY <1>2, <1>3
  <2> HIDE DEF e, before, after
  <2>2. IsRemoved(g, m, l, e, before, after)
    BY <1>1, <1>4, <1>5, <2>1, RemovedFields
  <2> QED BY <2>2 DEF IsRemoved
<1>9. ASSUME NEW j \in 0 .. n + 1
      PROVE  /\ Nth(l, s, j) \in L!Node
             /\ j # i => Nth(l, s, j) # e
             /\ j <= n /\ j # i - 1 => Nth(l, s, j) # before
             /\ j >= 1 /\ j # i + 1 => Nth(l, s, j) # after
  <2>1. j \in Int
    OBVIOUS
  <2>2. Nth(l, s, j) \in L!Node
    BY <1>2, <2>1, NthIs
  <2>3. ASSUME Nth(l, s, j) = e PROVE j = i
    BY <1>1, <1>2, <1>4, <2>1, <2>3, NthApart
  <2>4. ASSUME Nth(l, s, j) = before, j <= n PROVE j = i - 1
    <3>1. (j \in 1 .. n <=> i - 1 \in 1 .. n) /\ (j \in 1 .. n => j = i - 1)
      BY <1>1, <1>2, <2>1, <2>4, NthApart
    <3> QED BY <1>2, <2>4, <3>1
  <2>5. ASSUME Nth(l, s, j) = after, j >= 1 PROVE j = i + 1
    <3>1. (j \in 1 .. n <=> i + 1 \in 1 .. n) /\ (j \in 1 .. n => j = i + 1)
      BY <1>1, <1>2, <2>1, <2>5, NthApart
    <3> QED BY <1>2, <2>5, <3>1
  <2> HIDE DEF e, before, after
  <2> QED BY <2>2, <2>3, <2>4, <2>5
<1>10. /\ m.next \in [L!Node -> L!Node \cup {Nil}] /\ m.prev \in [L!Node -> L!Node \cup {Nil}]
       /\ m.list \in [Elem -> Lists \cup {Nil}] /\ m.len \in [Lists -> Nat]
  BY <1>1 DEF ListType
<1>11. e # before /\ e # after
  <2>1. i - 1 \in 0 .. n + 1 /\ i + 1 \in 0 .. n + 1 /\ i - 1 # i /\ i + 1 # i
    BY <1>2
  <2>2. Nth(l, s, i - 1) # e /\ Nth(l, s, i + 1) # e
    <3> HIDE DEF e, before, after, n
    <3> QED BY <1>9, <2>1
  <2> QED BY <2>2
<1> HIDE DEF g
<1>12. /\ g.next[before] = after /\ g.prev[after] = before /\ g.next[e] = Nil /\ g.prev[e] = Nil
       /\ \A x \in L!Node : x # e /\ x # before => g.next[x] = m.next[x]
       /\ \A x \in L!Node : x # e /\ x # after => g.prev[x] = m.prev[x]
       /\ g.list[e] = Nil /\ \A x \in Elem : x # e => g.list[x] = m.list[x]
       /\ g.len[l] = m.len[l] - 1 /\ \A k \in Lists : k # l => g.len[k] = m.len[k]
  <2> HIDE DEF e, before, after
  <2> QED BY <1>4, <1>5, <1>8, <1>10, <1>11
<1> HIDE DEF e, before, after, t
<1>13. Circle(g, l, t)
  <2>1. SUFFICES ASSUME NEW j \in 0 .. n - 1
                 PROVE  g.next[Nth(l, t, j)] = Nth(l, t, j + 1) /\ g.prev[Nth(l, t, j + 1)] = Nth(l, t, j)
    BY <1>6 DEF Circle
  <2>2. j \in 0 .. n /\ j + 1 \in 0 .. n
    BY <1>2
  <2>3. CASE j < i - 1
    <3>1. /\ j < i /\ j + 1 < i /\ j \in 0 .. n + 1 /\ j + 1 \in 0 .. n + 1 /\ j + 1 # i /\ j # i
          /\ j <= n /\ j + 1 >= 1 /\ j # i - 1 /\ j + 1 # i + 1
      BY <1>2, <2>3
    <3>2. Nth(l, t, j) = Nth(l, s, j) /\ Nth(l, t, j + 1) = Nth(l, s, j + 1)
      BY <1>6, <2>2, <3>1
    <3>3. /\ m.next[Nth(l, s, j)] = Nth(l, s, j + 1) /\ m.prev[Nth(l, s, j + 1)] = Nth(l, s, j)
      BY <1>3, <2>2 DEF Circle
    <3>4. /\ Nth(l, s, j) # before /\ Nth(l, s, j) # e /\ Nth(l, s, j) \in L!Node
          /\ Nth(l, s, j + 1) # after /\ Nth(l, s, j + 1) # e /\ Nth(l, s, j + 1) \in L!Node
      BY <1>9, <3>1
    <3> QED BY <1>12, <3>2, <3>3, <3>4
  <2>4. CASE j = i - 1
    <3>1. j < i /\ ~ (j + 1 < i) /\ (j + 1) + 1 = i + 1
      BY <1>2, <2>4
    <3>2. Nth(l, t, j) = before /\ Nth(l, t, j + 1) = after
      BY <1>6, <2>2, <2>4, <3>1 DEF before, after
    <3> QED BY <1>12, <3>2
  <2>5. CASE j > i - 1
    <3> DEFINE x == j + 1
    <3>1. /\ ~ (j < i) /\ ~ (x < i) /\ x \in 0 .. n /\ x \in 0 .. n + 1 /\ x + 1 \in 0 .. n + 1
          /\ x + 1 # i /\ x # i /\ x <= n /\ x + 1 >= 1 /\ x # i - 1 /\ x + 1 # i + 1
      BY <1>2, <2>5
    <3>2. Nth(l, t, j) = Nth(l, s, x) /\ Nth(l, t, j + 1) = Nth(l, s, x + 1)
      BY <1>6, <2>2, <3>1
    <3> HIDE DEF x
    <3>3. /\ m.next[Nth(l, s, x)] = Nth(l, s, x + 1) /\ m.prev[Nth(l, s, x + 1)] = Nth(l, s, x)
      BY <1>3, <3>1 DEF Circle
    <3>4. /\ Nth(l, s, x) # before /\ Nth(l, s, x) # e /\ Nth(l, s, x) \in L!Node
          /\ Nth(l, s, x + 1) # after /\ Nth(l, s, x + 1) # e /\ Nth(l, s, x + 1) \in L!Node
      BY <1>9, <3>1
    <3> QED BY <1>12, <3>2, <3>3, <3>4
  <2> QED BY <1>2, <2>3, <2>4, <2>5
<1>14. g.next[l] # Nil
  <2>1. 0 \in 0 .. n - 1 /\ Nth(l, t, 0) = l /\ 0 + 1 = 1 /\ 1 \in Int
    BY <1>2 DEF Nth
  <2>2. g.next[l] = Nth(l, t, 1)
    BY <1>6, <1>13, <2>1 DEF Circle
  <2> QED BY <1>6, <2>1, <2>2, NthIs, NodesApart
<1>15. ASSUME NEW k \in Lists, k # l
       PROVE  \/ g.next[k] = Nil /\ g.prev[k] = Nil /\ q[k] = <<>>
              \/ g.next[k] # Nil /\ Circle(g, k, q[k])
  <2>1. \A j \in Int : Nth(k, q[k], j) # before /\ Nth(k, q[k], j) # after /\ Nth(k, q[k], j) # e
                      /\ Nth(k, q[k], j) \in L!Node
    <3>1. q[k] \in Seq(Elem)
      BY <1>1
    <3> QED BY <1>1, <1>2, <1>4, <1>15, <3>1, NthApart, NthIs DEF before, after
  <2>2. k = Nth(k, q[k], 0) /\ 0 \in Int
    BY DEF Nth
  <2>3. g.next[k] = m.next[k] /\ g.prev[k] = m.prev[k]
    BY <1>12, <2>1, <2>2
  <2>4. ASSUME Circle(m, k, q[k]) PROVE Circle(g, k, q[k])
    <3>1. \A j \in 0 .. Len(q[k]) : j \in Int /\ j + 1 \in Int
      OBVIOUS
    <3> QED BY <1>12, <2>1, <2>4, <3>1 DEF Circle
  <2> QED BY <1>1, <2>3, <2>4 DEF Strung
<1>16. Strung(g, r)
  BY <1>7, <1>13, <1>14, <1>15 DEF Strung
<1>17. /\ \A j \in 1 .. n - 1 : t[j] # e /\ \E x \in 1 .. n : t[j] = s[x]
       /\ \A x \in 1 .. n : x # i => \E j \in 1 .. n - 1 : t[j] = s[x]
       /\ \A j, x \in 1 .. n - 1 : t[j] = t[x] => j = x
  <2>1. t = [j \in 1 .. n - 1 |-> IF j < i THEN s[j] ELSE s[j + 1]]
    BY DEF t, Without
  <2>2. (\A j, x \in 1 .. n : s[j] = s[x] => j = x) /\ e = s[i]
    BY <1>1 DEF Single, e
  <2> HIDE DEF n, s
  <2>3. \A j \in 1 .. n - 1 : j < i => j \in 1 .. n /\ t[j] = s[j]
    BY <1>2, <2>1
  <2>4. \A j \in 1 .. n - 1 : ~ (j < i) => j + 1 \in 1 .. n /\ j + 1 # i /\ t[j] = s[j + 1]
    BY <1>2, <2>1
  <2>5. \A j \in 1 .. n - 1 : t[j] # e /\ \E x \in 1 .. n : t[j] = s[x]
    <3>1. \A j \in 1 .. n - 1 : j < i => j # i
      BY <1>2
    <3> QED BY <1>2, <2>2, <2>3, <2>4, <3>1
  <2>6. ASSUME NEW x \in 1 .. n, x # i PROVE \E j \in 1 .. n - 1 : t[j] = s[x]
    <3>1. CASE x < i
      <4>1. x \in 1 .. n - 1
        BY <1>2, <3>1
      <4> QED BY <2>3, <3>1, <4>1
    <3>2. CASE ~ (x < i)
      <4>1. x - 1 \in 1 .. n - 1 /\ ~ (x - 1 < i) /\ (x - 1) + 1 = x
        BY <1>2, <2>6, <3>2
      <4> QED BY <2>4, <4>1
    <3> QED BY <3>1, <3>2
  <2>7. ASSUME NEW j \in 1 .. n - 1, NEW x \in 1 .. n - 1, t[j] = t[x] PROVE j = x
    <3>1. CASE j < i /\ x < i
      BY <2>2, <2>3, <2>7, <3>1
    <3>2. CASE j < i /\ ~ (x < i)
      <4>1. j = x + 1
        BY <2>2, <2>3, <2>4, <2>7, <3>2
      <4> QED BY <1>2, <3>2, <4>1
    <3>3. CASE ~ (j < i) /\ x < i
      <4>1. j + 1 = x
        BY <2>2, <2>3, <2>4, <2>7, <3>3
      <4> QED BY <1>2, <3>3, <4>1
    <3>4. CASE ~ (j < i) /\ ~ (x < i)
      <4>1. j + 1 = x + 1
        BY <2>2, <2>4, <2>7, <3>4
      <4> QED BY <4>1
    <3> QED BY <3>1, <3>2, <3>3, <3>4
  <2> QED BY <2>5, <2>6, <2>7
<1>18. \A k \in Lists : \A j \in 1 .. Len(q[k]) : k # l => q[k][j] # e
  BY <1>1, <1>2 DEF Single, e
<1> HIDE DEF r
<1>19. Single(r)
  <2>1. SUFFICES ASSUME NEW a \in Lists, NEW k \in Lists, NEW x \in 1 .. Len(r[a]), NEW j \in 1 .. Len(r[k]),
                        r[a][x] = r[k][j]
                 PROVE  a = k /\ x = j
    BY DEF Single
  <2>2. CASE a = l /\ k = l
    BY <1>6, <1>7, <1>17, <2>1, <2>2
  <2>3. CASE a = l /\ k # l
    <3>1. PICK y \in 1 .. n : t[x] = s[y]
      BY <1>6, <1>7, <1>17, <2>3
    <3>2. q[l][y] = q[k][j] /\ j \in 1 .. Len(q[k]) /\ y \in 1 .. Len(q[l])
      BY <1>7, <2>1, <2>3, <3>1
    <3> QED BY <1>1, <2>3, <3>2 DEF Single
  <2>4. CASE a # l /\ k = l
    <3>1. PICK y \in 1 .. n : t[j] = s[y]
      BY <1>6, <1>7, <1>17, <2>4
    <3>2. q[l][y] = q[a][x] /\ x \in 1 .. Len(q[a]) /\ y \in 1 .. Len(q[l])
      BY <1>7, <2>1, <2>4, <3>1
    <3> QED BY <1>1, <2>4, <3>2 DEF Single
  <2>5. CASE a # l /\ k # l
    BY <1>1, <1>7, <2>1, <2>5 DEF Single
  <2> QED BY <2>2, <2>3, <2>4, <2>5
<1>20. Owned(g, d, r)
  <2>1. ASSUME NEW k \in Lists, NEW j \in 1 .. Len(r[k]) PROVE r[k][j] \notin d /\ g.list[r[k][j]] = k
    <3>1. CASE k = l
      <4>1. t[j] # e /\ \E x \in 1 .. n : t[j] = s[x]
        BY <1>6, <1>7, <1>17, <3>1
      <4>2. \A x \in 1 .. n : s[x] \notin d /\ m.list[s[x]] = l /\ s[x] \in Elem
        BY <1>1, <1>2 DEF Owned
      <4> QED BY <1>7, <1>12, <3>1, <4>1, <4>2
    <3>2. CASE k # l
      <4>1. r[k] = q[k] /\ j \in 1 .. Len(q[k]) /\ q[k][j] \in Elem /\ q[k][j] # e
        BY <1>1, <1>7, <1>18, <3>2
      <4> QED BY <1>1, <1>12, <4>1 DEF Owned
    <3> QED BY <3>1, <3>2
  <2>2. ASSUME NEW x \in Elem \ d, g.list[x] # Nil
        PROVE  \E j \in 1 .. Len(r[g.list[x]]) : r[g.list[x]][j] = x
    <3>1. x # e
      BY <1>12, <2>2
    <3>2. g.list[x] = m.list[x] /\ m.list[x] \in Lists
      BY <1>10, <1>12, <2>2, <3>1
    <3>3. PICK j \in 1 .. Len(q[m.list[x]]) : q[m.list[x]][j] = x
      BY <1>1, <2>2, <3>2 DEF Owned
    <3>4. CASE m.list[x] = l
      <4>1. j \in 1 .. n /\ s[j] = x /\ j # i
        BY <3>1, <3>3, <3>4 DEF e
      <4>2. PICK y \in 1 .. n - 1 : t[y] = x
        BY <1>17, <4>1
      <4> QED BY <1>6, <1>7, <3>2, <3>4, <4>2
    <3>5. CASE m.list[x] # l
      BY <1>7, <3>2, <3>3, <3>5
    <3> QED BY <3>4, <3>5
  <2>3. ASSUME NEW x \in Elem \ d, g.list[x] = Nil PROVE g.next[x] = Nil /\ g.prev[x] = Nil
    <3>1. CASE x = e
      BY <1>12, <3>1
    <3>2. CASE x # e
      <4>1. m.list[x] = Nil
        BY <1>12, <2>3, <3>2
      <4>2. m.next[x] = Nil /\ m.prev[x] = Nil
        BY <1>1, <4>1 DEF Owned
      <4>3. x # before /\ x # after
        <5>1. \A y \in 0 .. n + 1 : Nth(l, s, y) = x => FALSE
          <6>1. SUFFICES ASSUME NEW y \in 0 .. n + 1, Nth(l, s, y) = x PROVE FALSE
            OBVIOUS
          <6>2. y \in 1 .. n /\ s[y] = x
            BY <1>2, <6>1, NthIs, NodesApart
          <6> QED BY <1>1, <4>1, <6>2, NodesApart DEF Owned
        <5>2. i - 1 \in 0 .. n + 1 /\ i + 1 \in 0 .. n + 1
          BY <1>2
        <5> QED BY <5>1, <5>2 DEF before, after
      <4> QED BY <1>12, <3>2, <4>2, <4>3, NodesApart
    <3> QED BY <3>1, <3>2
  <2> QED BY <2>1, <2>2, <2>3 DEF Owned
<1>21. \A k \in Lists : g.len[k] = Len(r[k])
  BY <1>1, <1>6, <1>7, <1>12
<1>22. Holds(g, d, r)
  BY <1>7, <1>8, <1>16, <1>19, <1>20, <1>21 DEF Holds
<1> QED BY <1>8, <1>14, <1>22 DEF g, r, t, e, Became, Reduced

(* The memory by its fields.                                               *)
Memory(N, W, A, V, S) == [next |-> N, prev |-> W, list |-> A, value |-> V, len |-> S]

LEMMA JoinedIs ==
  ASSUME NEW N, NEW W, NEW A, NEW V, NEW S, NEW x, NEW y
  PROVE  L!Joined(Memory(N, W, A, V, S), x, y)
           = Memory([N EXCEPT ![x] = y], [W EXCEPT ![y] = x], A, V, S)
<1> DEFINE m == Memory(N, W, A, V, S)
           X == [N EXCEPT ![x] = y]
           Y == [W EXCEPT ![y] = x]
<1>1. L!Joined(m, x, y) = [[m EXCEPT !.next = X] EXCEPT !.prev = Y]
  BY DEF L!Joined, Memory
<1> HIDE DEF X, Y
<1>2. [m EXCEPT !.next = X] = Memory(X, W, A, V, S)
  BY DEF Memory
<1>3. [Memory(X, W, A, V, S) EXCEPT !.prev = Y] = Memory(X, Y, A, V, S)
  BY DEF Memory
<1> QED BY <1>1, <1>2, <1>3 DEF X, Y

Changed(m, e, l, x, y, z, u) ==
  [m EXCEPT !.next[e] = x, !.prev[e] = y, !.list[e] = z, !.len[l] = u]

LEMMA ChangedIs ==
  ASSUME NEW N, NEW W, NEW A, NEW V, NEW S, NEW e, NEW l, NEW x, NEW y, NEW z, NEW u
  PROVE  Changed(Memory(N, W, A, V, S), e, l, x, y, z, u)
           = Memory([N EXCEPT ![e] = x], [W EXCEPT ![e] = y], [A EXCEPT ![e] = z], V,
                    [S EXCEPT ![l] = u])
<1> DEFINE m == Memory(N, W, A, V, S)
           M == [N EXCEPT ![e] = x]
           Q == [W EXCEPT ![e] = y]
           B == [A EXCEPT ![e] = z]
           T == [S EXCEPT ![l] = u]
<1>1. Changed(m, e, l, x, y, z, u)
        = [[[[m EXCEPT !.next = M] EXCEPT !.prev = Q] EXCEPT !.list = B] EXCEPT !.len = T]
  BY DEF Memory, Changed
<1> HIDE DEF M, Q, B, T
<1>2. [m EXCEPT !.next = M] = Memory(M, W, A, V, S)
  BY DEF Memory
<1>3. [Memory(M, W, A, V, S) EXCEPT !.prev = Q] = Memory(M, Q, A, V, S)
  BY DEF Memory
<1>4. [Memory(M, Q, A, V, S) EXCEPT !.list = B] = Memory(M, Q, B, V, S)
  BY DEF Memory
<1>5. [Memory(M, Q, B, V, S) EXCEPT !.len = T] = Memory(M, Q, B, V, T)
  BY DEF Memory
<1> HIDE DEF m
<1>6. [[[[m EXCEPT !.next = M] EXCEPT !.prev = Q] EXCEPT !.list = B] EXCEPT !.len = T]
        = Memory(M, Q, B, V, T)
  BY <1>2, <1>3, <1>4, <1>5
<1> QED BY <1>1, <1>6 DEF m, M, Q, B, T

(* move: e is taken out and put back behind at.                            *)
LEMMA MovedIs ==
  ASSUME NEW m \in ListType, NEW l \in Lists, NEW e \in Elem, m.list[e] = l, m.len[l] > 0,
         NEW at \in L!Node, at # e
  PROVE  L!Moved(m, e, at) = L!Inserted(L!Removed(m, l, e), l, e, at)
<1> DEFINE N == [m.next EXCEPT ![m.prev[e]] = m.next[e]]
           W == [m.prev EXCEPT ![m.next[e]] = m.prev[e]]
           a == L!Joined(m, m.prev[e], m.next[e])
           x == N[at]
           M == [N EXCEPT ![e] = Nil]
           Q == [W EXCEPT ![e] = Nil]
           B == [m.list EXCEPT ![e] = Nil]
           T == [m.len EXCEPT ![l] = m.len[l] - 1]
           gone == L!Removed(m, l, e)
<1>1. /\ m = Memory(m.next, m.prev, m.list, m.value, m.len)
      /\ m.next \in [L!Node -> L!Node \cup {Nil}] /\ m.prev \in [L!Node -> L!Node \cup {Nil}]
      /\ m.list \in [Elem -> Lists \cup {Nil}] /\ m.len \in [Lists -> Nat] /\ e \in L!Node
  BY NodesApart DEF ListType, Memory
<1>2. a = Memory(N, W, m.list, m.value, m.len)
  BY <1>1, JoinedIs
<1>3. DOMAIN N = L!Node /\ DOMAIN W = L!Node
  BY <1>1
<1>4. gone = Memory(M, Q, B, m.value, T)
  <2>1. gone = [a EXCEPT !.next[e] = Nil, !.prev[e] = Nil, !.list[e] = Nil, !.len[l] = a.len[l] - 1]
    BY DEF L!Removed
  <2>2. a.len = m.len
    BY <1>2 DEF Memory
  <2> HIDE DEF a, N, W, gone
  <2>3. gone = Changed(Memory(N, W, m.list, m.value, m.len), e, l, Nil, Nil, Nil, m.len[l] - 1)
    BY <1>2, <2>1, <2>2 DEF Changed
  <2> QED BY <2>3, ChangedIs
<1> HIDE DEF a, N, W, gone
<1>5. L!Moved(m, e, at)
        = Memory([[N EXCEPT ![e] = x] EXCEPT ![at] = e], [[W EXCEPT ![x] = e] EXCEPT ![e] = at],
                 m.list, m.value, m.len)
  <2>1. L!Moved(m, e, at) = L!Joined(L!Joined(a, e, a.next[at]), at, e)
    BY DEF L!Moved, a
  <2>2. a.next[at] = x
    BY <1>2 DEF Memory
  <2> HIDE DEF x
  <2> DEFINE N1 == [N EXCEPT ![e] = x]
             P1 == [W EXCEPT ![x] = e]
  <2>3. L!Joined(a, e, x) = Memory(N1, P1, m.list, m.value, m.len)
    BY <1>2, JoinedIs
  <2> HIDE DEF N1, P1
  <2>4. L!Joined(L!Joined(a, e, x), at, e)
          = Memory([N1 EXCEPT ![at] = e], [P1 EXCEPT ![e] = at], m.list, m.value, m.len)
    BY <2>3, JoinedIs
  <2> QED BY <2>1, <2>2, <2>4 DEF N1, P1
<1>6. M[at] = x
  BY <1>3
<1> DEFINE MM == [[M EXCEPT ![e] = x] EXCEPT ![at] = e]
           QQ == [[Q EXCEPT ![x] = e] EXCEPT ![e] = at]
           BB == [B EXCEPT ![e] = l]
           TT == [T EXCEPT ![l] = T[l] + 1]
           c == L!Joined(L!Joined(gone, e, x), at, e)
<1>7. c = Memory(MM, QQ, B, m.value, T)
  <2> HIDE DEF x, M, Q, B, T
  <2> DEFINE N1 == [M EXCEPT ![e] = x]
             P1 == [Q EXCEPT ![x] = e]
  <2>1. L!Joined(gone, e, x) = Memory(N1, P1, B, m.value, T)
    BY <1>4, JoinedIs
  <2> HIDE DEF N1, P1
  <2>2. c = Memory([N1 EXCEPT ![at] = e], [P1 EXCEPT ![e] = at], B, m.value, T)
    BY <2>1, JoinedIs
  <2> QED BY <2>2 DEF N1, P1
<1>8. L!Inserted(gone, l, e, at) = Memory(MM, QQ, BB, m.value, TT)
  <2>1. gone.next[at] = x
    BY <1>4, <1>6 DEF Memory
  <2> HIDE DEF x, M, Q, B, T, MM, QQ
  <2>2. L!Inserted(gone, l, e, at) = [c EXCEPT !.list[e] = l, !.len[l] = @ + 1]
    BY <2>1 DEF L!Inserted
  <2>3. L!Inserted(gone, l, e, at) = [[c EXCEPT !.list = [c.list EXCEPT ![e] = l]]
                                     EXCEPT !.len = [c.len EXCEPT ![l] = c.len[l] + 1]]
    BY <1>7, <2>2 DEF Memory
  <2>4. c.list = B /\ c.len = T
    BY <1>7 DEF Memory
  <2>5. L!Inserted(gone, l, e, at) = [[c EXCEPT !.list = BB] EXCEPT !.len = TT]
    BY <2>3, <2>4
  <2> HIDE DEF c, BB, TT
  <2>6. [c EXCEPT !.list = BB] = Memory(MM, QQ, BB, m.value, T)
    BY <1>7 DEF Memory
  <2>7. [Memory(MM, QQ, BB, m.value, T) EXCEPT !.len = TT] = Memory(MM, QQ, BB, m.value, TT)
    BY DEF Memory
  <2> QED BY <2>5, <2>6, <2>7
<1>9. MM = [[N EXCEPT ![e] = x] EXCEPT ![at] = e]
  <2> HIDE DEF x
  <2> QED BY <1>1, <1>3
<1>10. QQ = [[W EXCEPT ![x] = e] EXCEPT ![e] = at]
  <2> HIDE DEF x
  <2> QED BY <1>1, <1>3
<1>11. BB = m.list
  BY <1>1
<1>12. TT = m.len
  <2>1. m.len[l] \in Nat /\ DOMAIN m.len = Lists
    BY <1>1
  <2>2. (m.len[l] - 1) + 1 = m.len[l]
    BY <2>1
  <2>3. T[l] = m.len[l] - 1 /\ DOMAIN T = Lists
    BY <2>1
  <2>4. TT[l] = m.len[l] /\ DOMAIN TT = Lists /\ \A k \in Lists : k # l => TT[k] = m.len[k]
    BY <2>1, <2>2, <2>3
  <2> QED BY <1>1, <2>1, <2>4
<1> HIDE DEF MM, QQ, BB, TT, x
<1> QED BY <1>5, <1>8, <1>9, <1>10, <1>11, <1>12 DEF gone

LEMMA MovedHolds ==
  ASSUME NEW m, NEW d, NEW q, Holds(m, d, q), NEW l \in Lists, NEW i \in 1 .. Len(q[l]),
         NEW j \in 0 .. Len(q[l]) - 1
  PROVE  LET e == q[l][i]
             r == Reduced(q, l, i)
         IN  Became(L!Moved(m, e, Nth(l, r[l], j)), m, d, Extended(r, l, j, e), l, e, l)
<1> DEFINE e == q[l][i]
           r == Reduced(q, l, i)
           at == Nth(l, r[l], j)
           gone == L!Removed(m, l, e)
           g == L!Inserted(gone, l, e, at)
<1>1. /\ m \in ListType /\ q[l] \in Seq(Elem) /\ q \in [Lists -> Seq(Elem)]
      /\ m.len[l] = Len(q[l]) /\ Owned(m, d, q)
  BY DEF Holds
<1>2. Len(q[l]) \in Nat /\ e \in Elem /\ e \notin d /\ m.list[e] = l
  BY <1>1 DEF Owned
<1>3. r[l] \in Seq(Elem) /\ Len(r[l]) = Len(q[l]) - 1
  BY <1>1, WithoutIs DEF Reduced
<1> HIDE DEF e, r
<1>4. Became(gone, m, d, r, l, e, Nil)
  BY RemovedHolds DEF e, r
<1>5. Holds(gone, d, r) /\ gone.value = m.value /\ gone.next[l] # Nil /\ gone.list = [m.list EXCEPT ![e] = Nil]
  BY <1>4 DEF Became
<1>6. j \in 0 .. Len(r[l]) /\ gone.list[e] = Nil /\ gone \in ListType
  BY <1>1, <1>2, <1>3, <1>5 DEF ListType, Holds
<1> HIDE DEF gone
<1>7. Became(g, gone, d, Extended(r, l, j, e), l, e, l)
  BY <1>2, <1>5, <1>6, InsertedHolds
<1>8. at \in L!Node /\ at # e
  <2>1. at \in L!Node /\ (j \in 1 .. Len(r[l]) => at = r[l][j]) /\ (j \notin 1 .. Len(r[l]) => at = l)
    BY <1>3, NthIs
  <2>2. j \in 1 .. Len(r[l]) => gone.list[r[l][j]] = l
    BY <1>5 DEF Holds, Owned
  <2> QED BY <1>2, <1>6, <2>1, <2>2, NodesApart
<1> HIDE DEF at
<1>9. L!Moved(m, e, at) = g
  <2>1. m.len[l] > 0
    BY <1>1
  <2> QED BY <1>1, <1>2, <1>8, <2>1, MovedIs DEF gone
<1> HIDE DEF g
<1>10. [gone.list EXCEPT ![e] = l] = [m.list EXCEPT ![e] = l]
  BY <1>1, <1>5 DEF ListType
<1>11. Became(g, m, d, Extended(r, l, j, e), l, e, l)
  BY <1>5, <1>7, <1>10 DEF Became
<1> QED BY <1>9, <1>11 DEF e, r, at

-----------------------------------------------------------------------------
(* lazyInit, Init, and the Value of an element that is in no list.         *)

LEMMA ClearedFields ==
  ASSUME NEW m \in ListType, NEW l \in Lists
  PROVE  LET g == L!Cleared(m, l)
         IN  /\ g \in ListType /\ g.list = m.list /\ g.value = m.value
             /\ g.next = [m.next EXCEPT ![l] = l] /\ g.prev = [m.prev EXCEPT ![l] = l]
             /\ g.len = [m.len EXCEPT ![l] = 0]
BY NodesApart DEF L!Cleared, ListType

LEMMA ClearedHolds ==
  ASSUME NEW m, NEW d, NEW q, Holds(m, d, q), NEW l \in Lists
  PROVE  LET g == L!Cleared(m, l)
         IN  /\ Holds(g, d \cup {e \in Elem : m.list[e] = l}, [q EXCEPT ![l] = <<>>])
             /\ g.value = m.value /\ g.next[l] # Nil /\ g.list = m.list
<1> DEFINE g == L!Cleared(m, l)
           r == [q EXCEPT ![l] = <<>>]
           c == d \cup {e \in Elem : m.list[e] = l}
<1>1. /\ m \in ListType /\ q \in [Lists -> Seq(Elem)] /\ \A k \in Lists : m.len[k] = Len(q[k])
      /\ Single(q) /\ Owned(m, d, q) /\ Strung(m, q)
  BY DEF Holds
<1>2. /\ g \in ListType /\ g.list = m.list /\ g.value = m.value
      /\ g.next = [m.next EXCEPT ![l] = l] /\ g.prev = [m.prev EXCEPT ![l] = l]
      /\ g.len = [m.len EXCEPT ![l] = 0]
  BY <1>1, ClearedFields
<1>3. r \in [Lists -> Seq(Elem)] /\ r[l] = <<>> /\ \A k \in Lists : k # l => r[k] = q[k]
  BY <1>1
<1>4. l \in L!Node /\ \A k \in Lists : k \in L!Node /\ q[k] \in Seq(Elem)
  BY <1>1, NodesApart
<1>5. /\ g.next[l] = l /\ g.prev[l] = l /\ g.len[l] = 0
      /\ \A x \in L!Node : x # l => g.next[x] = m.next[x] /\ g.prev[x] = m.prev[x]
      /\ \A k \in Lists : k # l => g.len[k] = m.len[k]
  BY <1>1, <1>2, <1>4 DEF ListType
<1> HIDE DEF g, r
<1>6. Circle(g, l, <<>>)
  BY <1>5 DEF Circle, Nth
<1>7. ASSUME NEW k \in Lists, k # l, Circle(m, k, q[k]) PROVE Circle(g, k, q[k])
  <2>1. \A j \in 0 .. Len(q[k]) : j \in Int /\ j + 1 \in Int
    OBVIOUS
  <2>2. \A j \in Int : Nth(k, q[k], j) \in L!Node /\ Nth(k, q[k], j) # l
    BY <1>4, <1>7, NthIs, NodesApart
  <2> QED BY <1>5, <1>7, <2>1, <2>2 DEF Circle
<1>8. Strung(g, r)
  <2>1. SUFFICES ASSUME NEW k \in Lists
                 PROVE  \/ g.next[k] = Nil /\ g.prev[k] = Nil /\ r[k] = <<>>
                        \/ g.next[k] # Nil /\ Circle(g, k, r[k])
    BY DEF Strung
  <2>2. CASE k = l
    BY <1>3, <1>5, <1>6, <2>2, NodesApart
  <2>3. CASE k # l
    <3>1. r[k] = q[k] /\ g.next[k] = m.next[k] /\ g.prev[k] = m.prev[k]
      BY <1>3, <1>4, <1>5, <2>3
    <3>2. \/ m.next[k] = Nil /\ m.prev[k] = Nil /\ q[k] = <<>>
          \/ m.next[k] # Nil /\ Circle(m, k, q[k])
      BY <1>1 DEF Strung
    <3> QED BY <1>7, <2>3, <3>1, <3>2
  <2> QED BY <2>2, <2>3
<1>9. Single(r)
  <2>1. \A k \in Lists : \A x \in 1 .. Len(r[k]) : k # l /\ r[k] = q[k]
    BY <1>3
  <2> QED BY <1>1, <2>1 DEF Single
<1>10. Owned(g, c, r)
  <2>1. ASSUME NEW k \in Lists, NEW j \in 1 .. Len(r[k]) PROVE r[k][j] \notin c /\ g.list[r[k][j]] = k
    <3>1. k # l
      BY <1>3
    <3> QED BY <1>1, <1>2, <1>3, <3>1 DEF Owned
  <2>2. ASSUME NEW x \in Elem \ c, g.list[x] # Nil
        PROVE  \E j \in 1 .. Len(r[g.list[x]]) : r[g.list[x]][j] = x
    <3>1. x \in Elem \ d /\ g.list[x] = m.list[x] /\ m.list[x] # l /\ m.list[x] \in Lists
      BY <1>1, <1>2, <2>2 DEF ListType
    <3>2. r[g.list[x]] = q[m.list[x]]
      BY <1>3, <3>1
    <3>3. \E j \in 1 .. Len(q[m.list[x]]) : q[m.list[x]][j] = x
      BY <1>1, <3>1, NodesApart DEF Owned
    <3> QED BY <3>1, <3>2, <3>3
  <2>3. ASSUME NEW x \in Elem \ c, g.list[x] = Nil PROVE g.next[x] = Nil /\ g.prev[x] = Nil
    BY <1>1, <1>2, <1>5, <2>3, NodesApart DEF Owned
  <2> HIDE DEF c
  <2> QED BY <2>1, <2>2, <2>3 DEF Owned
<1>11. \A k \in Lists : g.len[k] = Len(r[k])
  <2>1. Len(<<>>) = 0
    OBVIOUS
  <2>2. \A k \in Lists : k # l => r[k] = q[k] /\ g.len[k] = Len(q[k])
    BY <1>1, <1>3, <1>5
  <2> QED BY <1>3, <1>5, <2>1, <2>2
<1>12. Holds(g, c, r)
  BY <1>2, <1>3, <1>8, <1>9, <1>10, <1>11 DEF Holds
<1> QED BY <1>2, <1>4, <1>5, <1>12, NodesApart DEF g, r
LEMMA Emptied ==
  ASSUME NEW m, NEW d, NEW q, Holds(m, d, q), NEW l \in Lists, m.next[l] = Nil
  PROVE  d \cup {e \in Elem : m.list[e] = l} = d /\ [q EXCEPT ![l] = <<>>] = q
<1>1. Owned(m, d, q) /\ Strung(m, q) /\ q \in [Lists -> Seq(Elem)]
  BY DEF Holds
<1>2. q[l] = <<>>
  BY <1>1 DEF Strung
<1>3. 1 .. Len(q[l]) = {}
  BY <1>2
<1>4. \A e \in Elem \ d : m.list[e] # l
  BY <1>1, <1>3, NodesApart DEF Owned
<1> QED BY <1>1, <1>2, <1>4

(* lazyInit leaves the lists as they are.                                  *)
LEMMA LazyHolds ==
  ASSUME NEW m, NEW d, NEW q, Holds(m, d, q), NEW l \in Lists
  PROVE  /\ Holds(L!LazyInit(m, l), d, q) /\ L!LazyInit(m, l).next[l] # Nil
         /\ L!LazyInit(m, l).list = m.list /\ L!LazyInit(m, l).value = m.value
<1>1. CASE m.next[l] = Nil
  <2>1. L!LazyInit(m, l) = L!Cleared(m, l)
    BY <1>1 DEF L!LazyInit
  <2>2. Holds(L!Cleared(m, l), d, q)
    BY <1>1, ClearedHolds, Emptied
  <2>3. /\ L!Cleared(m, l).next[l] # Nil
        /\ L!Cleared(m, l).list = m.list /\ L!Cleared(m, l).value = m.value
    BY ClearedHolds
  <2> QED BY <2>1, <2>2, <2>3
<1>2. CASE m.next[l] # Nil
  BY <1>2 DEF L!LazyInit
<1> QED BY <1>1, <1>2

LEMMA ValueHolds ==
  ASSUME NEW m, NEW d, NEW q, Holds(m, d, q), NEW e \in Elem, NEW v \in Mark
  PROVE  LET g == [m EXCEPT !.value[e] = v]
         IN  /\ Holds(g, d, q) /\ g.next = m.next /\ g.prev = m.prev /\ g.list = m.list
             /\ g.value = [m.value EXCEPT ![e] = v] /\ g.len = m.len
<1> DEFINE g == [m EXCEPT !.value[e] = v]
<1>1. m \in ListType
  BY DEF Holds
<1>2. /\ g \in ListType /\ g.next = m.next /\ g.prev = m.prev /\ g.list = m.list
      /\ g.value = [m.value EXCEPT ![e] = v] /\ g.len = m.len
  BY <1>1 DEF ListType
<1> HIDE DEF g
<1>3. Owned(g, d, q) /\ Strung(g, q)
  BY <1>2 DEF Holds, Owned, Strung, Circle
<1>4. Holds(g, d, q)
  BY <1>2, <1>3 DEF Holds
<1> QED BY <1>2, <1>4 DEF g

(* g holds r, in which l has e more, with the Value v.                     *)
Put(g, m, d, r, l, e, v) ==
  /\ Holds(g, d, r) /\ g.next[l] # Nil
  /\ g.list = [m.list EXCEPT ![e] = l] /\ g.value = [m.value EXCEPT ![e] = v]

LEMMA PutHolds ==
  ASSUME NEW m, NEW d, NEW q, Holds(m, d, q), NEW l \in Lists, m.next[l] # Nil,
         NEW i \in 0 .. Len(q[l]), NEW e \in Elem \ d, m.list[e] = Nil, NEW v \in Mark
  PROVE  Put(L!InsertedValue(m, l, e, v, Nth(l, q[l], i)), m, d, Extended(q, l, i, e), l, e, v)
<1> DEFINE c == [m EXCEPT !.value[e] = v]
           at == Nth(l, q[l], i)
<1>1. /\ Holds(c, d, q) /\ c.next = m.next /\ c.list = m.list
      /\ c.value = [m.value EXCEPT ![e] = v]
  BY ValueHolds
<1>2. L!InsertedValue(m, l, e, v, at) = L!Inserted(c, l, e, at)
  BY DEF L!InsertedValue
<1> HIDE DEF c
<1>3. Became(L!Inserted(c, l, e, at), c, d, Extended(q, l, i, e), l, e, l)
  BY <1>1, InsertedHolds
<1> QED BY <1>1, <1>2, <1>3 DEF Became, Put

(* The links of a list that is in use.                                     *)
LEMMA LinksAre ==
  ASSUME NEW m, NEW d, NEW q, Holds(m, d, q), NEW l \in Lists, m.next[l] # Nil,
         NEW i \in 0 .. Len(q[l])
  PROVE  /\ m.next[Nth(l, q[l], i)] = Nth(l, q[l], i + 1)
         /\ m.prev[Nth(l, q[l], i + 1)] = Nth(l, q[l], i)
BY DEF Holds, Strung, Circle

(* The place of an element that belongs to l.                              *)
LEMMA PlaceIs ==
  ASSUME NEW m, NEW d, NEW q, Holds(m, d, q), NEW l \in Lists, NEW e \in Elem \ d, m.list[e] = l
  PROVE  m.next[l] # Nil /\ \E i \in 1 .. Len(q[l]) : q[l][i] = e
<1>1. Owned(m, d, q) /\ Strung(m, q)
  BY DEF Holds
<1>2. PICK i \in 1 .. Len(q[l]) : q[l][i] = e
  BY <1>1, NodesApart DEF Owned
<1>3. q[l] # <<>>
  BY <1>2
<1> QED BY <1>1, <1>2, <1>3 DEF Strung

(* move, behind any other node of the list.                                *)
Beyond(i, k) == IF k < i THEN k ELSE k - 1

LEMMA MoveHolds ==
  ASSUME NEW m, NEW d, NEW q, Holds(m, d, q), NEW l \in Lists, NEW i \in 1 .. Len(q[l]),
         NEW k \in 0 .. Len(q[l]), k # i
  PROVE  Became(L!Moved(m, q[l][i], Nth(l, q[l], k)), m, d,
                Extended(Reduced(q, l, i), l, Beyond(i, k), q[l][i]), l, q[l][i], l)
<1> DEFINE j == Beyond(i, k)
<1>1. q[l] \in Seq(Elem) /\ Len(q[l]) \in Nat /\ q \in [Lists -> Seq(Elem)]
  BY DEF Holds
<1>2. j \in 0 .. Len(q[l]) - 1 /\ j \in 0 .. Len(q[l])
  BY <1>1 DEF Beyond
<1>3. Reduced(q, l, i)[l] = Without(q[l], i)
  BY <1>1 DEF Reduced
<1>4. Nth(l, Without(q[l], i), j) = IF j < i THEN Nth(l, q[l], j) ELSE Nth(l, q[l], j + 1)
  BY <1>1, <1>2, WithoutIs
<1>5. Nth(l, Reduced(q, l, i)[l], j) = Nth(l, q[l], k)
  <2>1. CASE k < i
    BY <1>3, <1>4, <2>1 DEF Beyond
  <2>2. CASE ~ (k < i)
    <3>1. j = k - 1 /\ ~ (j < i) /\ j + 1 = k
      BY <1>1, <2>2 DEF Beyond
    <3> QED BY <1>3, <1>4, <3>1
  <2> QED BY <2>1, <2>2
<1> HIDE DEF j
<1>6. Became(L!Moved(m, q[l][i], Nth(l, Reduced(q, l, i)[l], j)), m, d,
             Extended(Reduced(q, l, i), l, j, q[l][i]), l, q[l][i], l)
  BY <1>2, MovedHolds
<1> QED BY <1>5, <1>6 DEF j

-----------------------------------------------------------------------------
(* The methods of one list, from a memory that holds q.                    *)

LEMMA ReturnedIs ==
  ASSUME NEW s \in Seq(Elem), NEW i \in 1 .. Len(s)
  PROVE  With(Without(s, i), i - 1, s[i]) = s
<1> DEFINE n == Len(s)
           t == Without(s, i)
           u == With(t, i - 1, s[i])
<1>1. n \in Nat /\ i \in 1 .. n /\ s \in [1 .. n -> Elem]
  OBVIOUS
<1>2. t \in Seq(Elem) /\ Len(t) = n - 1 /\ t = [j \in 1 .. n - 1 |-> IF j < i THEN s[j] ELSE s[j + 1]]
  BY WithoutIs DEF Without
<1>3. u = [j \in 1 .. (n - 1) + 1 |-> IF j <= i - 1 THEN t[j] ELSE IF j = (i - 1) + 1 THEN s[i] ELSE t[j - 1]]
  BY <1>2 DEF With
<1> HIDE DEF n, t, u
<1>4. (n - 1) + 1 = n /\ (i - 1) + 1 = i
  BY <1>1
<1>5. ASSUME NEW j \in 1 .. n PROVE u[j] = s[j]
  <2>1. CASE j < i
    BY <1>1, <1>2, <1>3, <1>4, <2>1
  <2>2. CASE j = i
    BY <1>1, <1>3, <1>4, <2>2
  <2>3. CASE j > i
    <3>1. /\ ~ (j <= i - 1) /\ j # i /\ j - 1 \in 1 .. n - 1 /\ ~ (j - 1 < i)
          /\ (j - 1) + 1 = j
      BY <1>1, <2>3
    <3> QED BY <1>2, <1>3, <1>4, <3>1
  <2> QED BY <1>1, <2>1, <2>2, <2>3
<1>6. u = [j \in 1 .. n |-> u[j]]
  BY <1>3, <1>4
<1>7. u = s
  BY <1>1, <1>5, <1>6
<1> QED BY <1>7 DEF u, t

Replaced(q, l, i, k) == Extended(Reduced(q, l, i), l, Beyond(i, k), q[l][i])

LEMMA ReplacedSame ==
  ASSUME NEW q \in [Lists -> Seq(Elem)], NEW l \in Lists, NEW i \in 1 .. Len(q[l]), NEW k \in {i - 1, i}
  PROVE  Replaced(q, l, i, k) = q
<1> DEFINE s == q[l]
<1>1. s \in Seq(Elem) /\ Len(s) \in Nat /\ i \in Int
  OBVIOUS
<1>2. Beyond(i, k) = i - 1
  BY <1>1 DEF Beyond
<1>3. Reduced(q, l, i) = [q EXCEPT ![l] = Without(s, i)] /\ Reduced(q, l, i)[l] = Without(s, i)
  BY DEF Reduced
<1>4. With(Without(s, i), i - 1, s[i]) = s
  BY <1>1, ReturnedIs
<1>5. Replaced(q, l, i, k) = [[q EXCEPT ![l] = Without(s, i)] EXCEPT ![l] = s]
  BY <1>2, <1>3, <1>4 DEF Replaced, Extended
<1> QED BY <1>5

(* What the calls do: an element comes to l as the (i + 1)-th, ...         *)
Grows(q, op, l, mark, i) ==
  \E e \in Elem \ dropped, v \in Mark :
    /\ list.list[e] = Nil /\ dropped' = dropped
    /\ listResult' = [op |-> op, list |-> l, e |-> e, at |-> mark, value |-> Zero]
    /\ Put(list', list, dropped, Extended(q, l, i, e), l, e, v)

(* ... the i-th is put behind the k-th node, ...                           *)
Shifts(q, l, i, k) ==
  /\ dropped' = dropped /\ list'.value = list.value
  /\ Holds(list', dropped, Replaced(q, l, i, k))

(* ... or nothing changes.                                                 *)
Stays == list' = list /\ dropped' = dropped

LEMMA InitListMoves ==
  ASSUME NEW q, Holds(list, dropped, q), NEW l \in Lists, L!InitList(l)
  PROVE  Holds(list', dropped', [q EXCEPT ![l] = <<>>]) /\ list'.value = list.value
<1>1. list' = L!Cleared(list, l) /\ dropped' = dropped \cup {e \in Elem : list.list[e] = l}
  BY DEF L!InitList, L!Return
<1>2. Holds(L!Cleared(list, l), dropped \cup {e \in Elem : list.list[e] = l}, [q EXCEPT ![l] = <<>>])
      /\ L!Cleared(list, l).value = list.value
  BY ClearedHolds
<1> QED BY <1>1, <1>2

LEMMA RemoveMoves ==
  ASSUME NEW q, Holds(list, dropped, q), NEW l \in Lists, NEW e \in Elem \ dropped, L!Remove(l, e)
  PROVE  \/ list.list[e] # l /\ Stays
         \/ /\ list.list[e] = l /\ dropped' = dropped /\ list'.value = list.value
            /\ \E i \in 1 .. Len(q[l]) : q[l][i] = e /\ Holds(list', dropped, Reduced(q, l, i))
<1>1. /\ dropped' = dropped
      /\ list' = IF list.list[e] = l THEN L!Removed(list, l, e) ELSE list
  BY DEF L!Remove, L!Return
<1>2. CASE list.list[e] # l
  BY <1>1, <1>2 DEF Stays
<1>3. CASE list.list[e] = l
  <2>1. PICK i \in 1 .. Len(q[l]) : q[l][i] = e
    BY <1>3, PlaceIs
  <2>2. Became(L!Removed(list, l, q[l][i]), list, dropped, Reduced(q, l, i), l, q[l][i], Nil)
    BY RemovedHolds
  <2> QED BY <1>1, <1>3, <2>1, <2>2 DEF Became
<1> QED BY <1>2, <1>3

LEMMA PushFrontMoves ==
  ASSUME NEW q, Holds(list, dropped, q), NEW l \in Lists, L!PushFront(l)
  PROVE  Grows(q, "PushFront", l, Nil, 0)
<1> DEFINE m == L!LazyInit(list, l)
<1>1. PICK e \in Elem \ dropped, v \in Mark :
        /\ list.list[e] = Nil /\ dropped' = dropped
        /\ list' = L!InsertedValue(m, l, e, v, l)
        /\ listResult' = [op |-> "PushFront", list |-> l, e |-> e, at |-> Nil, value |-> Zero]
  BY DEF L!PushFront, L!Return, L!Unused, L!Handles
<1>2. Holds(m, dropped, q) /\ m.next[l] # Nil /\ m.list = list.list /\ m.value = list.value
  BY LazyHolds
<1> HIDE DEF m
<1>3. Nth(l, q[l], 0) = l /\ 0 \in 0 .. Len(q[l])
  BY <1>2 DEF Nth, Holds
<1>4. Put(L!InsertedValue(m, l, e, v, Nth(l, q[l], 0)), m, dropped, Extended(q, l, 0, e), l, e, v)
  BY <1>1, <1>2, <1>3, PutHolds
<1>5. Put(list', list, dropped, Extended(q, l, 0, e), l, e, v)
  BY <1>1, <1>2, <1>3, <1>4 DEF Put
<1> QED BY <1>1, <1>5 DEF Grows

LEMMA PushBackMoves ==
  ASSUME NEW q, Holds(list, dropped, q), NEW l \in Lists, L!PushBack(l)
  PROVE  Grows(q, "PushBack", l, Nil, Len(q[l]))
<1> DEFINE m == L!LazyInit(list, l)
           n == Len(q[l])
<1>1. Holds(m, dropped, q) /\ m.next[l] # Nil /\ m.list = list.list /\ m.value = list.value
  BY LazyHolds
<1>2. PICK e \in Elem \ dropped, v \in Mark :
        /\ m.list[e] = Nil /\ dropped' = dropped
        /\ list' = L!InsertedValue(m, l, e, v, m.prev[l])
        /\ listResult' = [op |-> "PushBack", list |-> l, e |-> e, at |-> Nil, value |-> Zero]
  BY DEF L!PushBack, L!Return, L!Unused, L!Handles
<1> HIDE DEF m
<1>3. n \in Nat /\ n \in 0 .. n /\ Nth(l, q[l], n + 1) = l
  BY <1>1 DEF Nth, Holds
<1>4. m.prev[l] = Nth(l, q[l], n)
  BY <1>1, <1>3, LinksAre
<1>5. Put(L!InsertedValue(m, l, e, v, Nth(l, q[l], n)), m, dropped, Extended(q, l, n, e), l, e, v)
  BY <1>1, <1>2, <1>3, PutHolds
<1>6. Put(list', list, dropped, Extended(q, l, n, e), l, e, v)
  BY <1>1, <1>2, <1>4, <1>5 DEF Put
<1> QED BY <1>1, <1>2, <1>6 DEF Grows

(* InsertBefore and InsertAfter: at is the k-th node behind mark.          *)
Points(q, l, mark, k, at) ==
  \A i \in 1 .. Len(q[l]) : q[l][i] = mark => i + k \in 0 .. Len(q[l]) /\ at = Nth(l, q[l], i + k)

GrowsBeside(q, op, l, mark, k) ==
  \/ /\ list.list[mark] # l /\ Stays
     /\ listResult' = [op |-> op, list |-> l, e |-> Nil, at |-> mark, value |-> Zero]
  \/ /\ list.list[mark] = l
     /\ \E i \in 1 .. Len(q[l]) : q[l][i] = mark /\ Grows(q, op, l, mark, i + k)

LEMMA InsertMoves ==
  ASSUME NEW q, Holds(list, dropped, q), NEW l \in Lists, NEW op, NEW mark \in Elem \ dropped,
         NEW at, L!Insert(op, l, mark, at),
         NEW k \in Int, Points(q, l, mark, k, at)
  PROVE  GrowsBeside(q, op, l, mark, k)
<1>1. CASE list.list[mark] # l
  BY <1>1 DEF L!Insert, L!Return, Stays, GrowsBeside
<1>2. CASE list.list[mark] = l
  <2>1. PICK e \in Elem \ dropped, v \in Mark :
          /\ list.list[e] = Nil /\ dropped' = dropped
          /\ list' = L!InsertedValue(list, l, e, v, at)
          /\ listResult' = [op |-> op, list |-> l, e |-> e, at |-> mark, value |-> Zero]
    BY <1>2 DEF L!Insert, L!Return, L!Unused, L!Handles
  <2>2. list.next[l] # Nil
    BY <1>2, PlaceIs
  <2>3. PICK i \in 1 .. Len(q[l]) : q[l][i] = mark
    BY <1>2, PlaceIs
  <2>4. i + k \in 0 .. Len(q[l]) /\ at = Nth(l, q[l], i + k)
    BY <2>3 DEF Points
  <2>5. Put(list', list, dropped, Extended(q, l, i + k, e), l, e, v)
    BY <2>1, <2>2, <2>4, PutHolds
  <2>6. Grows(q, op, l, mark, i + k)
    BY <2>1, <2>5 DEF Grows
  <2> QED BY <1>2, <2>3, <2>6 DEF GrowsBeside
<1> QED BY <1>1, <1>2

(* What the code takes for the place of a mark, and for those around it.   *)
LEMMA AroundIs ==
  ASSUME NEW m, NEW d, NEW q, Holds(m, d, q), NEW l \in Lists, m.next[l] # Nil,
         NEW i \in 1 .. Len(q[l])
  PROVE  /\ i + 0 = i /\ i + (-1) = i - 1 /\ i \in 0 .. Len(q[l]) /\ i - 1 \in 0 .. Len(q[l])
         /\ q[l][i] = Nth(l, q[l], i) /\ m.prev[q[l][i]] = Nth(l, q[l], i - 1)
         /\ m.next[q[l][i]] = Nth(l, q[l], i + 1)
<1>1. Len(q[l]) \in Nat
  BY DEF Holds
<1>2. i + 0 = i /\ i + (-1) = i - 1 /\ i \in 0 .. Len(q[l]) /\ i - 1 \in 0 .. Len(q[l]) /\ (i - 1) + 1 = i
  BY <1>1
<1>3. q[l][i] = Nth(l, q[l], i)
  BY DEF Nth
<1>4. m.next[Nth(l, q[l], i)] = Nth(l, q[l], i + 1)
  BY <1>2, LinksAre
<1>5. m.prev[Nth(l, q[l], (i - 1) + 1)] = Nth(l, q[l], i - 1)
  BY <1>2, LinksAre
<1> QED BY <1>2, <1>3, <1>4, <1>5

LEMMA BesideIs ==
  ASSUME NEW q, Holds(list, dropped, q), NEW l \in Lists, NEW mark \in Elem \ dropped
  PROVE  Points(q, l, mark, 0, mark) /\ Points(q, l, mark, -1, list.prev[mark])
<1>1. ASSUME NEW i \in 1 .. Len(q[l]), q[l][i] = mark
      PROVE  /\ i + 0 \in 0 .. Len(q[l]) /\ mark = Nth(l, q[l], i + 0)
             /\ i + (-1) \in 0 .. Len(q[l]) /\ list.prev[mark] = Nth(l, q[l], i + (-1))
  <2>1. list.list[mark] = l
    BY <1>1 DEF Holds, Owned
  <2>2. list.next[l] # Nil
    BY <2>1, PlaceIs
  <2> QED BY <1>1, <2>2, AroundIs
<1> QED BY <1>1 DEF Points

LEMMA InsertBeforeMoves ==
  ASSUME NEW q, Holds(list, dropped, q), NEW l \in Lists, NEW mark \in Elem \ dropped,
         L!InsertBefore(l, mark)
  PROVE  GrowsBeside(q, "InsertBefore", l, mark, -1)
<1>1. L!Insert("InsertBefore", l, mark, list.prev[mark]) /\ -1 \in Int
  BY DEF L!InsertBefore
<1> QED BY <1>1, BesideIs, InsertMoves

LEMMA InsertAfterMoves ==
  ASSUME NEW q, Holds(list, dropped, q), NEW l \in Lists, NEW mark \in Elem \ dropped,
         L!InsertAfter(l, mark)
  PROVE  GrowsBeside(q, "InsertAfter", l, mark, 0)
<1>1. L!Insert("InsertAfter", l, mark, mark) /\ 0 \in Int
  BY DEF L!InsertAfter
<1> QED BY <1>1, BesideIs, InsertMoves

LEMMA StaysShifts ==
  ASSUME NEW q, Holds(list, dropped, q), NEW l \in Lists, NEW i \in 1 .. Len(q[l]),
         NEW k \in {i - 1, i}, list' = list, dropped' = dropped
  PROVE  Shifts(q, l, i, k)
<1>1. Replaced(q, l, i, k) = q
  BY ReplacedSame DEF Holds
<1> QED BY <1>1 DEF Shifts

LEMMA MovedShifts ==
  ASSUME NEW q, Holds(list, dropped, q), NEW l \in Lists, NEW i \in 1 .. Len(q[l]),
         NEW k \in 0 .. Len(q[l]), dropped' = dropped,
         list' = L!Moved(list, q[l][i], Nth(l, q[l], k))
  PROVE  Shifts(q, l, i, k)
<1>1. CASE k = i
  <2>1. Nth(l, q[l], k) = q[l][i]
    BY <1>1 DEF Nth
  <2>2. list' = list
    BY <2>1 DEF L!Moved
  <2> QED BY <1>1, <2>2, StaysShifts
<1>2. CASE k # i
  <2>1. Became(list', list, dropped, Replaced(q, l, i, k), l, q[l][i], l)
    BY <1>2, MoveHolds DEF Replaced
  <2> QED BY <2>1 DEF Became, Shifts
<1> QED BY <1>1, <1>2

LEMMA MoveToFrontMoves ==
  ASSUME NEW q, Holds(list, dropped, q), NEW l \in Lists, NEW e \in Elem \ dropped,
         L!MoveToFront(l, e)
  PROVE  \/ list.list[e] # l /\ Stays
         \/ list.list[e] = l /\ \E i \in 1 .. Len(q[l]) : q[l][i] = e /\ Shifts(q, l, i, 0)
<1>1. CASE list.list[e] # l
  BY <1>1 DEF L!MoveToFront, L!Move, L!Return, Stays
<1>2. CASE list.list[e] = l
  <2>1. list.next[l] # Nil
    BY <1>2, PlaceIs
  <2>2. PICK i \in 1 .. Len(q[l]) : q[l][i] = e
    BY <1>2, PlaceIs
  <2>3. Len(q[l]) \in Nat /\ 0 \in 0 .. Len(q[l]) /\ 1 \in 1 .. Len(q[l]) /\ 0 + 1 = 1 /\ 1 - 1 = 0
    BY <2>2 DEF Holds
  <2>4. Nth(l, q[l], 0) = l /\ Nth(l, q[l], 1) = q[l][1]
    BY <2>3 DEF Nth
  <2>5. list.next[l] = q[l][1]
    BY <2>1, <2>3, <2>4, LinksAre
  <2>6. CASE list.next[l] = e
    <3>1. list' = list /\ dropped' = dropped
      BY <2>6 DEF L!MoveToFront, L!Move, L!Return
    <3>2. Shifts(q, l, 1, 0)
      BY <2>3, <3>1, StaysShifts
    <3> QED BY <1>2, <2>3, <2>5, <2>6, <3>2
  <2>7. CASE list.next[l] # e
    <3>1. list' = L!Moved(list, e, l) /\ dropped' = dropped
      BY <1>2, <2>7 DEF L!MoveToFront, L!Move, L!Return
    <3>2. Shifts(q, l, i, 0)
      BY <2>2, <2>3, <2>4, <3>1, MovedShifts
    <3> QED BY <1>2, <2>2, <3>2
  <2> QED BY <2>6, <2>7
<1> QED BY <1>1, <1>2

LEMMA MoveToBackMoves ==
  ASSUME NEW q, Holds(list, dropped, q), NEW l \in Lists, NEW e \in Elem \ dropped,
         L!MoveToBack(l, e)
  PROVE  \/ list.list[e] # l /\ Stays
         \/ list.list[e] = l /\ \E i \in 1 .. Len(q[l]) : q[l][i] = e /\ Shifts(q, l, i, Len(q[l]))
<1>1. CASE list.list[e] # l
  BY <1>1 DEF L!MoveToBack, L!Move, L!Return, Stays
<1>2. CASE list.list[e] = l
  <2> DEFINE n == Len(q[l])
  <2>1. list.next[l] # Nil
    BY <1>2, PlaceIs
  <2>2. PICK i \in 1 .. n : q[l][i] = e
    BY <1>2, PlaceIs
  <2>3. n \in Nat /\ n \in 0 .. n /\ n \in 1 .. n /\ n \in {n - 1, n}
    BY <2>2 DEF Holds
  <2>4. Nth(l, q[l], n + 1) = l /\ Nth(l, q[l], n) = q[l][n]
    BY <2>3 DEF Nth
  <2>5. list.prev[l] = Nth(l, q[l], n)
    BY <2>1, <2>3, <2>4, LinksAre
  <2>6. CASE list.prev[l] = e
    <3>1. list' = list /\ dropped' = dropped
      BY <2>6 DEF L!MoveToBack, L!Move, L!Return
    <3>2. Shifts(q, l, n, n)
      BY <2>3, <3>1, StaysShifts
    <3> QED BY <1>2, <2>3, <2>4, <2>5, <2>6, <3>2
  <2>7. CASE list.prev[l] # e
    <3>1. list' = L!Moved(list, e, list.prev[l]) /\ dropped' = dropped
      BY <1>2, <2>7 DEF L!MoveToBack, L!Move, L!Return
    <3>2. Shifts(q, l, i, n)
      BY <2>2, <2>3, <2>5, <3>1, MovedShifts
    <3> QED BY <1>2, <2>2, <3>2
  <2> QED BY <2>6, <2>7
<1> QED BY <1>1, <1>2

(* MoveBefore and MoveAfter, to behind the k-th node.                      *)
ShiftsBeside(q, l, e, mark, k) ==
  \/ L!Apart(l, e, mark) /\ Stays
  \/ /\ list.list[e] = l /\ list.list[mark] = l /\ e # mark
     /\ \E i, j \in 1 .. Len(q[l]) : q[l][i] = e /\ q[l][j] = mark /\ Shifts(q, l, i, j + k)

LEMMA MoveBesideMoves ==
  ASSUME NEW q, Holds(list, dropped, q), NEW l \in Lists, NEW e \in Elem \ dropped,
         NEW mark \in Elem \ dropped, ~ L!Apart(l, e, mark), NEW at, NEW k \in Int,
         Points(q, l, mark, k, at), list' = L!Moved(list, e, at), dropped' = dropped
  PROVE  ShiftsBeside(q, l, e, mark, k)
<1>1. list.list[e] = l /\ list.list[mark] = l /\ e # mark
  BY DEF L!Apart
<1>2. PICK i \in 1 .. Len(q[l]) : q[l][i] = e
  BY <1>1, PlaceIs
<1>3. PICK j \in 1 .. Len(q[l]) : q[l][j] = mark
  BY <1>1, PlaceIs
<1>4. j + k \in 0 .. Len(q[l]) /\ at = Nth(l, q[l], j + k)
  BY <1>3 DEF Points
<1>5. Shifts(q, l, i, j + k)
  BY <1>2, <1>4, MovedShifts
<1> QED BY <1>1, <1>2, <1>3, <1>5 DEF ShiftsBeside

LEMMA MoveBeforeMoves ==
  ASSUME NEW q, Holds(list, dropped, q), NEW l \in Lists, NEW e \in Elem \ dropped,
         NEW mark \in Elem \ dropped, L!MoveBefore(l, e, mark)
  PROVE  ShiftsBeside(q, l, e, mark, -1)
<1>1. CASE L!Apart(l, e, mark)
  BY <1>1 DEF L!MoveBefore, L!Move, L!Return, Stays, ShiftsBeside
<1>2. CASE ~ L!Apart(l, e, mark)
  <2>1. list' = L!Moved(list, e, list.prev[mark]) /\ dropped' = dropped /\ -1 \in Int
    BY <1>2 DEF L!MoveBefore, L!Move, L!Return
  <2>2. Points(q, l, mark, -1, list.prev[mark])
    BY BesideIs
  <2> QED BY <1>2, <2>1, <2>2, MoveBesideMoves
<1> QED BY <1>1, <1>2

LEMMA MoveAfterMoves ==
  ASSUME NEW q, Holds(list, dropped, q), NEW l \in Lists, NEW e \in Elem \ dropped,
         NEW mark \in Elem \ dropped, L!MoveAfter(l, e, mark)
  PROVE  ShiftsBeside(q, l, e, mark, 0)
<1>1. CASE L!Apart(l, e, mark)
  BY <1>1 DEF L!MoveAfter, L!Move, L!Return, Stays, ShiftsBeside
<1>2. CASE ~ L!Apart(l, e, mark)
  <2>1. list' = L!Moved(list, e, mark) /\ dropped' = dropped /\ 0 \in Int
    BY <1>2 DEF L!MoveAfter, L!Move, L!Return
  <2>2. Points(q, l, mark, 0, mark)
    BY BesideIs
  <2> QED BY <1>2, <2>1, <2>2, MoveBesideMoves
<1> QED BY <1>1, <1>2

-----------------------------------------------------------------------------
(* Front, Back, Next and Prev.                                             *)

LEMMA EndsAre ==
  ASSUME NEW m, NEW d, NEW q, Holds(m, d, q), NEW l \in Lists
  PROVE  /\ Len(q[l]) = 0 => L!Front(m, l) = Nil /\ L!Back(m, l) = Nil
         /\ Len(q[l]) > 0 => /\ m.next[l] # Nil
                             /\ L!Front(m, l) = q[l][1] /\ L!Back(m, l) = q[l][Len(q[l])]
<1> DEFINE n == Len(q[l])
<1>1. n \in Nat /\ m.len[l] = n /\ Strung(m, q)
  BY DEF Holds
<1>2. CASE n = 0
  BY <1>1, <1>2 DEF L!Front, L!Back
<1>3. CASE n > 0
  <2>1. m.next[l] # Nil
    BY <1>1, <1>3 DEF Strung
  <2>2. 0 \in 0 .. n /\ n \in 0 .. n /\ 0 + 1 = 1 /\ m.len[l] # 0
    BY <1>1, <1>3
  <2>3. Nth(l, q[l], 0) = l /\ Nth(l, q[l], 1) = q[l][1]
    BY <1>1, <1>3 DEF Nth
  <2>4. Nth(l, q[l], n) = q[l][n] /\ Nth(l, q[l], n + 1) = l
    BY <1>1, <1>3 DEF Nth
  <2>5. m.next[l] = q[l][1]
    BY <2>1, <2>2, <2>3, LinksAre
  <2>6. m.prev[l] = q[l][n]
    BY <2>1, <2>2, <2>4, LinksAre
  <2> QED BY <1>1, <1>3, <2>1, <2>2, <2>5, <2>6 DEF L!Front, L!Back
<1> QED BY <1>1, <1>2, <1>3

LEMMA NeighboursAre ==
  ASSUME NEW m, NEW d, NEW q, Holds(m, d, q), NEW l \in Lists, NEW i \in 1 .. Len(q[l])
  PROVE  /\ i < Len(q[l]) => L!NextOf(m, q[l][i]) = q[l][i + 1]
         /\ i = Len(q[l]) => L!NextOf(m, q[l][i]) = Nil
         /\ i > 1 => L!PrevOf(m, q[l][i]) = q[l][i - 1]
         /\ i = 1 => L!PrevOf(m, q[l][i]) = Nil
<1> DEFINE n == Len(q[l])
           s == q[l]
<1>1. n \in Nat /\ s \in Seq(Elem) /\ i \in Int
  BY DEF Holds
<1>2. m.list[s[i]] = l /\ s[i] \in Elem
  BY <1>1 DEF Holds, Owned
<1>3. m.next[l] # Nil
  BY <1>1, EndsAre
<1>4. m.next[s[i]] = Nth(l, s, i + 1) /\ m.prev[s[i]] = Nth(l, s, i - 1)
  BY <1>3, AroundIs
<1>5. i < n => Nth(l, s, i + 1) = s[i + 1] /\ s[i + 1] \in Elem
  BY <1>1 DEF Nth
<1>6. i = n => Nth(l, s, i + 1) = l
  BY <1>1 DEF Nth
<1>7. i > 1 => Nth(l, s, i - 1) = s[i - 1] /\ s[i - 1] \in Elem
  BY <1>1 DEF Nth
<1>8. i = 1 => Nth(l, s, i - 1) = l
  BY <1>1 DEF Nth
<1> HIDE DEF s, n
<1>9. /\ i < n => L!NextOf(m, s[i]) = s[i + 1]
      /\ i = n => L!NextOf(m, s[i]) = Nil
  BY <1>2, <1>4, <1>5, <1>6, NodesApart DEF L!NextOf
<1>10. /\ i > 1 => L!PrevOf(m, s[i]) = s[i - 1]
       /\ i = 1 => L!PrevOf(m, s[i]) = Nil
  BY <1>2, <1>4, <1>7, <1>8, NodesApart DEF L!PrevOf
<1> QED BY <1>9, <1>10 DEF s, n

-----------------------------------------------------------------------------
(* The loops of PushBackList and PushFrontList.                            *)

(* s with the first k of new behind it, or ahead of it, the last first.    *)
Behind(s, new, k) ==
  [j \in 1 .. Len(s) + k |-> IF j <= Len(s) THEN s[j] ELSE new[j - Len(s)]]
Ahead(s, new, k) ==
  [j \in 1 .. Len(s) + k |-> IF j <= k THEN new[k + 1 - j] ELSE s[j - k]]

LEMMA BehindIs ==
  ASSUME NEW s \in Seq(Elem), NEW n \in Nat, NEW new \in [1 .. n -> Elem], NEW k \in 0 .. n
  PROVE  /\ Behind(s, new, k) \in Seq(Elem) /\ Len(Behind(s, new, k)) = Len(s) + k
         /\ k = 0 => Behind(s, new, k) = s
         /\ \A j \in 1 .. Len(s) : Behind(s, new, k)[j] = s[j]
<1> DEFINE t == Behind(s, new, k)
           w == Len(s)
<1>1. w \in Nat /\ s \in [1 .. w -> Elem]
  OBVIOUS
<1>2. t = [j \in 1 .. w + k |-> IF j <= w THEN s[j] ELSE new[j - w]]
  BY DEF Behind
<1> HIDE DEF t, w
<1>3. \A j \in 1 .. w + k : (j <= w => j \in 1 .. w) /\ (~ (j <= w) => j - w \in 1 .. n)
  BY <1>1
<1>4. t \in [1 .. w + k -> Elem] /\ w + k \in Nat
  BY <1>1, <1>2, <1>3
<1>5. t \in Seq(Elem) /\ Len(t) = w + k
  BY <1>4, SeqDef
<1>6. \A j \in 1 .. w : t[j] = s[j]
  BY <1>1, <1>2
<1>7. k = 0 => t = s
  <2>1. SUFFICES ASSUME k = 0 PROVE t = s
    OBVIOUS
  <2>2. w + k = w
    BY <1>1, <2>1
  <2> QED BY <1>1, <1>4, <1>6, <2>2
<1> QED BY <1>5, <1>6, <1>7 DEF t, w

LEMMA BehindOne ==
  ASSUME NEW s \in Seq(Elem), NEW n \in Nat, NEW new \in [1 .. n -> Elem], NEW k \in 1 .. n
  PROVE  With(Behind(s, new, k - 1), Len(s) + (k - 1), new[k]) = Behind(s, new, k)
<1> DEFINE w == Len(s)
           t == Behind(s, new, k - 1)
           u == With(t, w + (k - 1), new[k])
           v == Behind(s, new, k)
<1>1. w \in Nat /\ k - 1 \in 0 .. n /\ (w + (k - 1)) + 1 = w + k
  OBVIOUS
<1>2. Len(t) = w + (k - 1)
  BY <1>1, BehindIs
<1>3. u = [j \in 1 .. w + k |-> IF j <= w + (k - 1) THEN t[j] ELSE IF j = w + k THEN new[k] ELSE t[j - 1]]
  BY <1>1, <1>2 DEF With
<1>4. t = [j \in 1 .. w + (k - 1) |-> IF j <= w THEN s[j] ELSE new[j - w]]
  BY DEF Behind
<1>5. v = [j \in 1 .. w + k |-> IF j <= w THEN s[j] ELSE new[j - w]]
  BY DEF Behind
<1> HIDE DEF t, u, v, w
<1>6. ASSUME NEW j \in 1 .. w + k PROVE u[j] = v[j]
  <2>1. CASE j <= w + (k - 1)
    <3>1. j \in 1 .. w + (k - 1)
      BY <1>1, <2>1
    <3> QED BY <1>3, <1>4, <1>5, <2>1, <3>1
  <2>2. CASE ~ (j <= w + (k - 1))
    <3>1. j = w + k /\ ~ (j <= w) /\ j - w = k
      BY <1>1, <2>2
    <3> QED BY <1>3, <1>5, <2>2, <3>1
  <2> QED BY <2>1, <2>2
<1>7. u = [j \in 1 .. w + k |-> u[j]] /\ v = [j \in 1 .. w + k |-> v[j]]
  BY <1>3, <1>5
<1>8. u = v
  BY <1>6, <1>7
<1> QED BY <1>8 DEF t, u, v, w

LEMMA AheadIs ==
  ASSUME NEW s \in Seq(Elem), NEW n \in Nat, NEW new \in [1 .. n -> Elem], NEW k \in 0 .. n
  PROVE  /\ Ahead(s, new, k) \in Seq(Elem) /\ Len(Ahead(s, new, k)) = Len(s) + k
         /\ k = 0 => Ahead(s, new, k) = s
         /\ \A j \in 1 .. Len(s) : k + j \in 1 .. Len(s) + k /\ Ahead(s, new, k)[k + j] = s[j]
<1> DEFINE t == Ahead(s, new, k)
           w == Len(s)
<1>1. w \in Nat /\ s \in [1 .. w -> Elem]
  OBVIOUS
<1>2. t = [j \in 1 .. w + k |-> IF j <= k THEN new[k + 1 - j] ELSE s[j - k]]
  BY DEF Ahead
<1> HIDE DEF t, w
<1>3. \A j \in 1 .. w + k : (j <= k => k + 1 - j \in 1 .. n) /\ (~ (j <= k) => j - k \in 1 .. w)
  BY <1>1
<1>4. t \in [1 .. w + k -> Elem] /\ w + k \in Nat
  BY <1>1, <1>2, <1>3
<1>5. t \in Seq(Elem) /\ Len(t) = w + k
  BY <1>4, SeqDef
<1>6. ASSUME NEW j \in 1 .. w PROVE k + j \in 1 .. w + k /\ t[k + j] = s[j]
  <2>1. k + j \in 1 .. w + k /\ ~ (k + j <= k) /\ (k + j) - k = j
    BY <1>1
  <2> QED BY <1>2, <2>1
<1>7. k = 0 => t = s
  <2>1. SUFFICES ASSUME k = 0 PROVE t = s
    OBVIOUS
  <2>2. w + k = w /\ \A j \in 1 .. w : k + j = j
    BY <1>1, <2>1
  <2> QED BY <1>1, <1>4, <1>6, <2>2
<1> QED BY <1>5, <1>6, <1>7 DEF t, w

LEMMA AheadOne ==
  ASSUME NEW s \in Seq(Elem), NEW n \in Nat, NEW new \in [1 .. n -> Elem], NEW k \in 1 .. n
  PROVE  With(Ahead(s, new, k - 1), 0, new[k]) = Ahead(s, new, k)
<1> DEFINE w == Len(s)
           t == Ahead(s, new, k - 1)
           u == With(t, 0, new[k])
           v == Ahead(s, new, k)
<1>1. w \in Nat /\ k - 1 \in 0 .. n /\ (w + (k - 1)) + 1 = w + k /\ 0 + 1 = 1
  OBVIOUS
<1>2. Len(t) = w + (k - 1)
  BY <1>1, AheadIs
<1>3. u = [j \in 1 .. w + k |-> IF j <= 0 THEN t[j] ELSE IF j = 1 THEN new[k] ELSE t[j - 1]]
  BY <1>1, <1>2 DEF With
<1>4. t = [j \in 1 .. w + (k - 1) |-> IF j <= k - 1 THEN new[(k - 1) + 1 - j] ELSE s[j - (k - 1)]]
  BY DEF Ahead
<1>5. v = [j \in 1 .. w + k |-> IF j <= k THEN new[k + 1 - j] ELSE s[j - k]]
  BY DEF Ahead
<1> HIDE DEF t, u, v, w
<1>6. ASSUME NEW j \in 1 .. w + k PROVE u[j] = v[j]
  <2>1. CASE j = 1
    <3>1. j <= k /\ k + 1 - j = k /\ ~ (j <= 0)
      BY <1>1, <2>1
    <3> QED BY <1>3, <1>5, <2>1, <3>1
  <2>2. CASE j > 1
    <3>1. /\ j - 1 \in 1 .. w + (k - 1) /\ ~ (j <= 0) /\ j # 1
          /\ (j <= k <=> j - 1 <= k - 1)
          /\ (k - 1) + 1 - (j - 1) = k + 1 - j /\ (j - 1) - (k - 1) = j - k
      BY <1>1, <2>2
    <3>2. u[j] = t[j - 1]
      BY <1>3, <3>1
    <3>3. t[j - 1] = IF j - 1 <= k - 1 THEN new[(k - 1) + 1 - (j - 1)] ELSE s[(j - 1) - (k - 1)]
      BY <1>4, <3>1
    <3> QED BY <1>5, <3>1, <3>2, <3>3
  <2> QED BY <1>1, <2>1, <2>2
<1>7. u = [j \in 1 .. w + k |-> u[j]] /\ v = [j \in 1 .. w + k |-> v[j]]
  BY <1>3, <1>5
<1>8. u = v
  BY <1>6, <1>7
<1> QED BY <1>8 DEF t, u, v, w

(* The first k of new have come to l, with the values of the first of src; *)
(* all else has kept its Value.                                            *)
Copies(g, m, d, r, l, src, new, k) ==
  /\ Holds(g, d, r) /\ g.next[l] # Nil
  /\ \A j \in 1 .. Len(new) : j > k => g.list[new[j]] = Nil
  /\ \A j \in 1 .. k : g.value[new[j]] = m.value[src[j]]
  /\ \A e \in Elem : (\A j \in 1 .. k : new[j] # e) => g.value[e] = m.value[e]

(* What may be copied: other elements than those of src, each once.        *)
Fresh(d, src, new) ==
  /\ Len(src) \in Nat /\ Len(new) = Len(src)
  /\ src \in [1 .. Len(src) -> Elem] /\ new \in [1 .. Len(src) -> Elem \ d]
  /\ \A i, j \in 1 .. Len(src) : (new[i] = new[j] => i = j) /\ src[i] # new[j]

LEMMA CopiesOne ==
  ASSUME NEW g, NEW m, NEW d, NEW r, NEW l \in Lists, NEW src, NEW new, Fresh(d, src, new),
         NEW k \in 1 .. Len(src), Copies(g, m, d, r, l, src, new, k - 1),
         NEW i \in 0 .. Len(r[l])
  PROVE  Copies(L!InsertedValue(g, l, new[k], g.value[src[k]], Nth(l, r[l], i)), m, d,
                Extended(r, l, i, new[k]), l, src, new, k)
<1> DEFINE n == Len(src)
           e == new[k]
           v == g.value[src[k]]
           f == L!InsertedValue(g, l, e, v, Nth(l, r[l], i))
           t == Extended(r, l, i, e)
<1>1. /\ n \in Nat /\ Len(new) = n /\ k \in 1 .. n /\ src \in [1 .. n -> Elem] /\ new \in [1 .. n -> Elem \ d]
      /\ \A x, j \in 1 .. n : (new[x] = new[j] => x = j) /\ src[x] # new[j]
  BY DEF Fresh
<1> HIDE DEF n
<1>2. /\ Holds(g, d, r) /\ g.next[l] # Nil
      /\ \A j \in 1 .. n : j > k - 1 => g.list[new[j]] = Nil
      /\ \A j \in 1 .. k - 1 : g.value[new[j]] = m.value[src[j]]
      /\ \A x \in Elem : (\A j \in 1 .. k - 1 : new[j] # x) => g.value[x] = m.value[x]
  BY <1>1 DEF Copies
<1>3. g \in ListType
  BY <1>2 DEF Holds
<1>4. e \in Elem \ d /\ src[k] \in Elem /\ v \in Mark
  BY <1>1, <1>3 DEF ListType
<1>5. k > k - 1 /\ \A j \in 1 .. k - 1 : j \in 1 .. n /\ j # k
  BY <1>1
<1>6. g.list[e] = Nil
  BY <1>1, <1>2, <1>5
<1>7. v = m.value[src[k]]
  BY <1>1, <1>2, <1>4, <1>5
<1> HIDE DEF e, v
<1>8. Put(f, g, d, t, l, e, v)
  BY <1>2, <1>4, <1>6, PutHolds
<1> HIDE DEF f, t
<1>9. /\ Holds(f, d, t) /\ f.next[l] # Nil
      /\ f.list = [g.list EXCEPT ![e] = l] /\ f.value = [g.value EXCEPT ![e] = v]
  BY <1>8 DEF Put
<1>10. /\ f.value[e] = v /\ \A x \in Elem : x # e => f.value[x] = g.value[x] /\ f.list[x] = g.list[x]
  BY <1>3, <1>4, <1>9 DEF ListType
<1>11. \A j \in 1 .. n : j > k => f.list[new[j]] = Nil
  <2>1. SUFFICES ASSUME NEW j \in 1 .. n, j > k PROVE f.list[new[j]] = Nil
    OBVIOUS
  <2>2. j > k - 1 /\ j # k
    BY <1>1, <2>1
  <2>3. new[j] # e /\ new[j] \in Elem
    BY <1>1, <2>2 DEF e
  <2> QED BY <1>2, <1>10, <2>2, <2>3
<1>12. \A j \in 1 .. k : f.value[new[j]] = m.value[src[j]]
  <2>1. SUFFICES ASSUME NEW j \in 1 .. k PROVE f.value[new[j]] = m.value[src[j]]
    OBVIOUS
  <2>2. CASE j = k
    BY <1>7, <1>10, <2>2 DEF e
  <2>3. CASE j # k
    <3>1. j \in 1 .. k - 1 /\ j \in 1 .. n
      BY <1>1, <2>3
    <3>2. new[j] # e /\ new[j] \in Elem
      BY <1>1, <2>3, <3>1 DEF e
    <3> QED BY <1>2, <1>10, <3>1, <3>2
  <2> QED BY <2>2, <2>3
<1>13. \A x \in Elem : (\A j \in 1 .. k : new[j] # x) => f.value[x] = m.value[x]
  <2>1. k \in 1 .. k /\ \A j \in 1 .. k - 1 : j \in 1 .. k
    BY <1>1
  <2> QED BY <1>2, <1>10, <2>1 DEF e
<1>14. Copies(f, m, d, t, l, src, new, k)
  BY <1>1, <1>9, <1>11, <1>12, <1>13 DEF Copies
<1> QED BY <1>14 DEF f, t, e, v

(* The lists when the first k of new have been pushed to the back of l.    *)
Backed(q, l, new, k) == [q EXCEPT ![l] = Behind(q[l], new, k)]

IsBacked(r, q, l, new, k) ==
  /\ r \in [Lists -> Seq(Elem)] /\ Len(r[l]) = Len(q[l]) + k
  /\ k = 0 => r = q
  /\ k > 0 => Extended(Backed(q, l, new, k - 1), l, Len(q[l]) + (k - 1), new[k]) = r
  /\ \A o \in Lists : \A j \in 1 .. Len(q[o]) : j \in 1 .. Len(r[o]) /\ r[o][j] = q[o][j]

LEMMA BackedIs ==
  ASSUME NEW q \in [Lists -> Seq(Elem)], NEW l \in Lists, NEW n \in Nat, NEW new \in [1 .. n -> Elem],
         NEW k \in 0 .. n
  PROVE  IsBacked(Backed(q, l, new, k), q, l, new, k)
<1> DEFINE s == q[l]
           t == Behind(s, new, k)
           r == Backed(q, l, new, k)
<1>1. s \in Seq(Elem) /\ Len(s) \in Nat
  OBVIOUS
<1>2. /\ t \in Seq(Elem) /\ Len(t) = Len(s) + k /\ (k = 0 => t = s)
      /\ \A j \in 1 .. Len(s) : t[j] = s[j]
  BY <1>1, BehindIs
<1>3. r = [q EXCEPT ![l] = t]
  BY DEF Backed
<1>4. k > 0 => Extended(Backed(q, l, new, k - 1), l, Len(s) + (k - 1), new[k]) = r
  <2>1. SUFFICES ASSUME k > 0 PROVE Extended(Backed(q, l, new, k - 1), l, Len(s) + (k - 1), new[k]) = r
    OBVIOUS
  <2>2. k \in 1 .. n
    BY <2>1
  <2>3. With(Behind(s, new, k - 1), Len(s) + (k - 1), new[k]) = t
    BY <1>1, <2>2, BehindOne
  <2> HIDE DEF t, r
  <2>4. /\ Backed(q, l, new, k - 1) = [q EXCEPT ![l] = Behind(s, new, k - 1)]
        /\ Backed(q, l, new, k - 1)[l] = Behind(s, new, k - 1)
    BY DEF Backed
  <2>5. Extended(Backed(q, l, new, k - 1), l, Len(s) + (k - 1), new[k])
          = [[q EXCEPT ![l] = Behind(s, new, k - 1)] EXCEPT ![l] = t]
    BY <2>3, <2>4 DEF Extended
  <2> QED BY <1>3, <2>5
<1> HIDE DEF t, r
<1>5. r \in [Lists -> Seq(Elem)] /\ r[l] = t /\ \A o \in Lists : o # l => r[o] = q[o]
  BY <1>2, <1>3
<1>6. \A o \in Lists : \A j \in 1 .. Len(q[o]) : j \in 1 .. Len(r[o]) /\ r[o][j] = q[o][j]
  <2>1. SUFFICES ASSUME NEW o \in Lists, NEW j \in 1 .. Len(q[o])
                 PROVE  j \in 1 .. Len(r[o]) /\ r[o][j] = q[o][j]
    OBVIOUS
  <2>2. CASE o = l
    <3>1. j \in 1 .. Len(s) /\ j \in 1 .. Len(s) + k
      BY <1>1, <2>1, <2>2
    <3> QED BY <1>2, <1>5, <2>2, <3>1
  <2>3. CASE o # l
    BY <1>5, <2>3
  <2> QED BY <2>2, <2>3
<1>7. k = 0 => r = q
  BY <1>2, <1>3
<1> QED BY <1>2, <1>4, <1>5, <1>6, <1>7 DEF r, IsBacked

BackTurn(l, new, c, k) ==
  LET g == L!InsertedValue(c.h, l, new[k], c.h.value[c.at], c.h.prev[l])
  IN  [h |-> g, at |-> L!NextOf(g, c.at)]

(* What is known after k turns.                                            *)
Backs(m, d, q, l, src, new, k) ==
  {c \in [h : ListType, at : L!Node \cup {Nil}] :
     /\ Copies(c.h, m, d, Backed(q, l, new, k), l, src, new, k)
     /\ k < Len(src) => c.at = src[k + 1]}

LEMMA BackTurnKeeps ==
  ASSUME NEW m, NEW d, NEW q \in [Lists -> Seq(Elem)], NEW l \in Lists, NEW o \in Lists, NEW new,
         Fresh(d, q[o], new), NEW k \in 1 .. Len(q[o]), NEW c \in Backs(m, d, q, l, q[o], new, k - 1)
  PROVE  BackTurn(l, new, c, k) \in Backs(m, d, q, l, q[o], new, k)
<1> DEFINE src == q[o]
           n == Len(src)
           w == Len(q[l])
           p == Backed(q, l, new, k - 1)
           r == Backed(q, l, new, k)
           i == w + (k - 1)
           g == L!InsertedValue(c.h, l, new[k], c.h.value[src[k]], Nth(l, p[l], i))
<1>1. /\ n \in Nat /\ Len(new) = n /\ k \in 1 .. n /\ src \in [1 .. n -> Elem] /\ new \in [1 .. n -> Elem]
      /\ w \in Nat /\ q[l] \in Seq(Elem)
  BY DEF Fresh
<1>2. k - 1 < n /\ (k - 1) + 1 = k /\ k - 1 \in 0 .. n /\ k \in 0 .. n /\ k > 0 /\ i \in Nat /\ i \in 0 .. i
  BY <1>1
<1>3. /\ c.h \in ListType /\ c.at = src[k] /\ Copies(c.h, m, d, p, l, src, new, k - 1)
  BY <1>2 DEF Backs
<1>4. Holds(c.h, d, p) /\ c.h.next[l] # Nil
  BY <1>3 DEF Copies
<1>5. Len(p[l]) = i /\ i \in 0 .. Len(p[l]) /\ Extended(p, l, i, new[k]) = r
  <2> HIDE DEF n, src
  <2>0. IsBacked(p, q, l, new, k - 1) /\ IsBacked(r, q, l, new, k)
    <3> HIDE DEF w
    <3> QED BY <1>1, <1>2, BackedIs
  <2>1. Len(p[l]) = i
    BY <2>0 DEF IsBacked
  <2>2. Extended(p, l, i, new[k]) = r
    BY <1>2, <2>0 DEF IsBacked
  <2> HIDE DEF i, p, r
  <2> QED BY <1>2, <2>1, <2>2
<1>7. c.h.prev[l] = Nth(l, p[l], i)
  <2>1. Nth(l, p[l], i + 1) = l
    BY <1>2, <1>5 DEF Nth
  <2> HIDE DEF p, i
  <2> QED BY <1>4, <1>5, <2>1, LinksAre
<1>8. BackTurn(l, new, c, k) = [h |-> g, at |-> L!NextOf(g, src[k])]
  BY <1>3, <1>7 DEF BackTurn
<1>9. Copies(g, m, d, r, l, src, new, k)
  <2> HIDE DEF p, r, i, src
  <2>1. Copies(L!InsertedValue(c.h, l, new[k], c.h.value[src[k]], Nth(l, p[l], i)), m, d,
               Extended(p, l, i, new[k]), l, src, new, k)
    BY <1>3, <1>5, CopiesOne DEF src
  <2> QED BY <1>5, <2>1
<1> HIDE DEF g, i, p
<1>10. Holds(g, d, r) /\ g \in ListType
  BY <1>9 DEF Copies, Holds
<1>11. L!NextOf(g, src[k]) \in L!Node \cup {Nil}
  BY <1>1, <1>10, NodesApart DEF L!NextOf, ListType
<1>12. k < n => L!NextOf(g, src[k]) = src[k + 1]
  <2>1. SUFFICES ASSUME k < n PROVE L!NextOf(g, src[k]) = src[k + 1]
    OBVIOUS
  <2>2. k \in 1 .. n /\ k + 1 \in 1 .. n
    BY <1>1, <2>1
  <2>3. /\ k \in 1 .. Len(r[o]) /\ r[o][k] = src[k]
        /\ k + 1 \in 1 .. Len(r[o]) /\ r[o][k + 1] = src[k + 1]
    <3>1. \A j \in 1 .. n : j \in 1 .. Len(r[o]) /\ r[o][j] = src[j]
      <4> HIDE DEF n
      <4>1. \A j \in 1 .. Len(q[o]) : j \in 1 .. Len(r[o]) /\ r[o][j] = q[o][j]
        <5>1. IsBacked(r, q, l, new, k)
          BY <1>1, <1>2, BackedIs
        <5> QED BY <5>1 DEF IsBacked
      <4> QED BY <4>1 DEF n
    <3> QED BY <2>2, <3>1
  <2>4. k < Len(r[o])
    BY <2>3
  <2> HIDE DEF r, src
  <2>5. L!NextOf(g, r[o][k]) = r[o][k + 1]
    BY <1>10, <2>3, <2>4, NeighboursAre
  <2> QED BY <2>3, <2>5
<1> DEFINE b == [h |-> g, at |-> L!NextOf(g, src[k])]
<1>13. b \in [h : ListType, at : L!Node \cup {Nil}] /\ b.h = g /\ b.at = L!NextOf(g, src[k])
  BY <1>10, <1>11
<1>14. b \in Backs(m, d, q, l, src, new, k)
  <2> HIDE DEF b, r, src
  <2> QED BY <1>9, <1>12, <1>13 DEF Backs, r
<1> QED BY <1>8, <1>14

(* What PushBackList and PushFrontList have to copy.                       *)
Copying(m, d, q, l, o, new) ==
  /\ Holds(m, d, q) /\ m.next[l] # Nil /\ Fresh(d, q[o], new)
  /\ \A j \in 1 .. Len(new) : m.list[new[j]] = Nil

LEMMA CopiedBackIs ==
  ASSUME NEW m, NEW d, NEW q, NEW l \in Lists, NEW o \in Lists, NEW new, Copying(m, d, q, l, o, new)
  PROVE  Copies(L!CopiedBack(m, l, o, new), m, d, Backed(q, l, new, Len(q[o])), l, q[o], new, Len(q[o]))
<1> DEFINE src == q[o]
           n == Len(src)
           x == [h |-> m, at |-> L!Front(m, o)]
           D == [k \in 0 .. n |-> Backs(m, d, q, l, src, new, k)]
           F == [k \in 1 .. n |-> [c \in D[k - 1] |-> BackTurn(l, new, c, k)]]
           Is(f) == f = [k \in 0 .. n |-> IF k = 0 THEN x ELSE BackTurn(l, new, f[k - 1], k)]
           loop == CHOOSE f : Is(f)
<1>1. /\ Holds(m, d, q) /\ m.next[l] # Nil /\ Fresh(d, src, new)
      /\ \A j \in 1 .. Len(new) : m.list[new[j]] = Nil
  BY DEF Copying
<1>2. m \in ListType /\ q \in [Lists -> Seq(Elem)]
  BY <1>1 DEF Holds
<1>3. n \in Nat /\ Len(new) = n /\ src \in [1 .. n -> Elem] /\ new \in [1 .. n -> Elem]
  BY <1>1 DEF Fresh
<1>4. x \in Backs(m, d, q, l, src, new, 0)
  <2>1. 0 \in 0 .. n /\ \A j \in 1 .. 0 : FALSE
    BY <1>3
  <2>2. Backed(q, l, new, 0) = q
    <3> HIDE DEF n
    <3>1. IsBacked(Backed(q, l, new, 0), q, l, new, 0)
      BY <1>2, <1>3, <2>1, BackedIs
    <3> QED BY <3>1 DEF IsBacked
  <2>3. Copies(m, m, d, Backed(q, l, new, 0), l, src, new, 0)
    BY <1>1, <2>1, <2>2 DEF Copies
  <2>4. 0 < n => L!Front(m, o) = src[0 + 1]
    BY <1>1, <1>3, EndsAre
  <2>5. L!Front(m, o) \in L!Node \cup {Nil}
    BY <1>2, NodesApart DEF ListType, L!Front
  <2>6. x \in [h : ListType, at : L!Node \cup {Nil}] /\ x.h = m /\ x.at = L!Front(m, o)
    BY <1>2, <2>5
  <2> HIDE DEF x
  <2> QED BY <2>3, <2>4, <2>6 DEF Backs
<1>5. L!CopiedBack(m, l, o, new) = loop[n].h
  BY <1>3 DEF L!CopiedBack, BackTurn
<1> HIDE DEF n, x
<1>6. D[0] = Backs(m, d, q, l, src, new, 0) /\ D[n] = Backs(m, d, q, l, src, new, n)
  BY <1>3
<1>7. \A k \in 1 .. n :
        /\ D[k - 1] = Backs(m, d, q, l, src, new, k - 1) /\ D[k] = Backs(m, d, q, l, src, new, k)
        /\ F[k] = [c \in D[k - 1] |-> BackTurn(l, new, c, k)]
        /\ k - 1 \in 0 .. n
  BY <1>3
<1> HIDE DEF D, F
<1>8. \A k \in 1 .. n : \A c \in D[k - 1] :
        BackTurn(l, new, c, k) \in D[k] /\ F[k][c] = BackTurn(l, new, c, k)
  <2>1. SUFFICES ASSUME NEW k \in 1 .. n, NEW c \in D[k - 1]
                 PROVE  BackTurn(l, new, c, k) \in D[k] /\ F[k][c] = BackTurn(l, new, c, k)
    OBVIOUS
  <2>2. k \in 1 .. Len(q[o]) /\ c \in Backs(m, d, q, l, q[o], new, k - 1)
    BY <1>7 DEF n
  <2>3. BackTurn(l, new, c, k) \in Backs(m, d, q, l, q[o], new, k)
    BY <1>1, <1>2, <2>2, BackTurnKeeps
  <2> QED BY <1>7, <2>3
<1>9. \E f : Is(f)
  <2>1. PICK f : Loop(f, n, x, F) /\ \A k \in 0 .. n : f[k] \in D[k]
    <3>1. x \in D[0] /\ \A k \in 1 .. n : \A c \in D[k - 1] : F[k][c] \in D[k]
      BY <1>4, <1>6, <1>8
    <3> QED BY <1>3, <3>1, LoopExists
  <2>2. \A k \in 0 .. n : k # 0 => k \in 1 .. n /\ F[k][f[k - 1]] = BackTurn(l, new, f[k - 1], k)
    BY <1>3, <1>7, <1>8, <2>1
  <2> QED BY <2>1, <2>2 DEF Loop
<1>10. Is(loop)
  BY <1>9
<1> HIDE DEF loop
<1>11. loop[0] \in D[0] /\ \A k \in 1 .. n : loop[k - 1] \in D[k - 1] => loop[k] \in D[k]
  <2>1. loop[0] = x /\ \A k \in 1 .. n : loop[k] = BackTurn(l, new, loop[k - 1], k)
    BY <1>3, <1>10
  <2> QED BY <1>4, <1>6, <1>8, <2>1
<1>12. loop[n] \in Backs(m, d, q, l, src, new, n)
  <2>1. \A k \in 0 .. n : loop[k] \in D[k]
    BY <1>3, <1>11, LoopHolds
  <2> QED BY <1>3, <1>6, <2>1
<1>13. Copies(loop[n].h, m, d, Backed(q, l, new, n), l, src, new, n)
  BY <1>12 DEF Backs
<1> QED BY <1>5, <1>13 DEF n

(* The lists when the first k of new have been pushed to the front of l.   *)
Fronted(q, l, new, k) == [q EXCEPT ![l] = Ahead(q[l], new, k)]

(* How far the elements of o have been pushed.                             *)
Offset(o, l, k) == IF o = l THEN k ELSE 0

IsFronted(r, q, l, new, k) ==
  /\ r \in [Lists -> Seq(Elem)] /\ Len(r[l]) = Len(q[l]) + k
  /\ k = 0 => r = q
  /\ k > 0 => Extended(Fronted(q, l, new, k - 1), l, 0, new[k]) = r
  /\ \A o \in Lists : \A j \in 1 .. Len(q[o]) :
       Offset(o, l, k) + j \in 1 .. Len(r[o]) /\ r[o][Offset(o, l, k) + j] = q[o][j]

LEMMA FrontedIs ==
  ASSUME NEW q \in [Lists -> Seq(Elem)], NEW l \in Lists, NEW n \in Nat, NEW new \in [1 .. n -> Elem],
         NEW k \in 0 .. n
  PROVE  IsFronted(Fronted(q, l, new, k), q, l, new, k)
<1> DEFINE s == q[l]
           t == Ahead(s, new, k)
           r == Fronted(q, l, new, k)
<1>1. s \in Seq(Elem) /\ Len(s) \in Nat
  OBVIOUS
<1>2. /\ t \in Seq(Elem) /\ Len(t) = Len(s) + k /\ (k = 0 => t = s)
      /\ \A j \in 1 .. Len(s) : k + j \in 1 .. Len(s) + k /\ t[k + j] = s[j]
  <2> HIDE DEF s
  <2> QED BY <1>1, AheadIs
<1>3. r = [q EXCEPT ![l] = t]
  BY DEF Fronted
<1>4. k > 0 => Extended(Fronted(q, l, new, k - 1), l, 0, new[k]) = r
  <2>1. SUFFICES ASSUME k > 0 PROVE Extended(Fronted(q, l, new, k - 1), l, 0, new[k]) = r
    OBVIOUS
  <2>2. k \in 1 .. n
    BY <2>1
  <2>3. With(Ahead(s, new, k - 1), 0, new[k]) = t
    BY <1>1, <2>2, AheadOne
  <2> HIDE DEF t, r
  <2>4. /\ Fronted(q, l, new, k - 1) = [q EXCEPT ![l] = Ahead(s, new, k - 1)]
        /\ Fronted(q, l, new, k - 1)[l] = Ahead(s, new, k - 1)
    BY DEF Fronted
  <2>5. Extended(Fronted(q, l, new, k - 1), l, 0, new[k])
          = [[q EXCEPT ![l] = Ahead(s, new, k - 1)] EXCEPT ![l] = t]
    BY <2>3, <2>4 DEF Extended
  <2> QED BY <1>3, <2>5
<1> HIDE DEF t, r
<1>5. r \in [Lists -> Seq(Elem)] /\ r[l] = t /\ \A o \in Lists : o # l => r[o] = q[o]
  BY <1>2, <1>3
<1>6. ASSUME NEW o \in Lists, NEW j \in 1 .. Len(q[o])
      PROVE  Offset(o, l, k) + j \in 1 .. Len(r[o]) /\ r[o][Offset(o, l, k) + j] = q[o][j]
  <2>1. CASE o = l
    BY <1>2, <1>5, <2>1 DEF Offset
  <2>2. CASE o # l
    <3>1. 0 + j = j
      OBVIOUS
    <3> QED BY <1>5, <2>2, <3>1 DEF Offset
  <2> QED BY <2>1, <2>2
<1>7. k = 0 => r = q
  BY <1>2, <1>3
<1> QED BY <1>2, <1>4, <1>5, <1>6, <1>7 DEF r, IsFronted

FrontTurn(l, new, c, k) ==
  LET g == L!InsertedValue(c.h, l, new[k], c.h.value[c.at], l)
  IN  [h |-> g, at |-> L!PrevOf(g, c.at)]

(* What is known after k turns.                                            *)
Fronts(m, d, q, l, src, new, k) ==
  {c \in [h : ListType, at : L!Node \cup {Nil}] :
     /\ Copies(c.h, m, d, Fronted(q, l, new, k), l, src, new, k)
     /\ k < Len(src) => c.at = src[k + 1]}

(* s from its last element to its first.                                   *)
Turned(s) == [j \in 1 .. Len(s) |-> s[Len(s) + 1 - j]]

LEMMA TurnedIs ==
  ASSUME NEW s \in Seq(Elem)
  PROVE  /\ Turned(s) \in [1 .. Len(s) -> Elem] /\ Len(Turned(s)) = Len(s)
         /\ \A j \in 1 .. Len(s) : Turned(s)[j] = s[Len(s) + 1 - j]
<1>1. \A j \in 1 .. Len(s) : Len(s) + 1 - j \in 1 .. Len(s)
  OBVIOUS
<1>2. Turned(s) \in [1 .. Len(s) -> Elem]
  BY <1>1 DEF Turned
<1> QED BY <1>2 DEF Turned

LEMMA FrontTurnKeeps ==
  ASSUME NEW m, NEW d, NEW q \in [Lists -> Seq(Elem)], NEW l \in Lists, NEW o \in Lists, NEW new,
         Fresh(d, Turned(q[o]), new), NEW k \in 1 .. Len(q[o]),
         NEW c \in Fronts(m, d, q, l, Turned(q[o]), new, k - 1)
  PROVE  FrontTurn(l, new, c, k) \in Fronts(m, d, q, l, Turned(q[o]), new, k)
<1> DEFINE src == Turned(q[o])
           n == Len(q[o])
           p == Fronted(q, l, new, k - 1)
           r == Fronted(q, l, new, k)
           g == L!InsertedValue(c.h, l, new[k], c.h.value[src[k]], Nth(l, p[l], 0))
<1>1. /\ n \in Nat /\ Len(src) = n /\ Len(new) = n /\ k \in 1 .. n
      /\ src \in [1 .. n -> Elem] /\ new \in [1 .. n -> Elem]
      /\ q[o] \in Seq(Elem) /\ \A j \in 1 .. n : src[j] = q[o][n + 1 - j]
  BY TurnedIs DEF Fresh
<1> HIDE DEF src
<1>2. k - 1 < n /\ (k - 1) + 1 = k /\ k - 1 \in 0 .. n /\ k \in 0 .. n /\ k > 0
  BY <1>1
<1>3. /\ c.h \in ListType /\ c.at = src[k] /\ Copies(c.h, m, d, p, l, src, new, k - 1)
  <2> HIDE DEF n, p
  <2>1. /\ c.h \in ListType /\ Copies(c.h, m, d, Fronted(q, l, new, k - 1), l, src, new, k - 1)
        /\ k - 1 < Len(src) => c.at = src[(k - 1) + 1]
    BY DEF Fronts, src
  <2> QED BY <1>1, <1>2, <2>1 DEF p
<1>4. Holds(c.h, d, p) /\ c.h.next[l] # Nil
  BY <1>3 DEF Copies
<1>5. Extended(p, l, 0, new[k]) = r /\ 0 \in 0 .. Len(p[l])
  <2> HIDE DEF n
  <2>1. IsFronted(p, q, l, new, k - 1) /\ IsFronted(r, q, l, new, k)
    BY <1>1, <1>2, FrontedIs
  <2>2. Extended(p, l, 0, new[k]) = r
    BY <1>2, <2>1 DEF IsFronted
  <2>3. p[l] \in Seq(Elem)
    BY <2>1 DEF IsFronted
  <2> HIDE DEF p, r
  <2> QED BY <2>2, <2>3
<1>7. l = Nth(l, p[l], 0)
  BY DEF Nth
<1>8. FrontTurn(l, new, c, k) = [h |-> g, at |-> L!PrevOf(g, src[k])]
  BY <1>3, <1>7 DEF FrontTurn
<1>9. Copies(g, m, d, r, l, src, new, k)
  <2> HIDE DEF p, r
  <2>1. Copies(L!InsertedValue(c.h, l, new[k], c.h.value[src[k]], Nth(l, p[l], 0)), m, d,
               Extended(p, l, 0, new[k]), l, src, new, k)
    BY <1>1, <1>3, <1>5, CopiesOne DEF src
  <2> QED BY <1>5, <2>1
<1> HIDE DEF g, p
<1>10. Holds(g, d, r) /\ g \in ListType
  BY <1>9 DEF Copies, Holds
<1>11. L!PrevOf(g, src[k]) \in L!Node \cup {Nil}
  BY <1>1, <1>10, NodesApart DEF L!PrevOf, ListType
<1>12. k < n => L!PrevOf(g, src[k]) = src[k + 1]
  <2>1. SUFFICES ASSUME k < n PROVE L!PrevOf(g, src[k]) = src[k + 1]
    OBVIOUS
  <2> DEFINE a == Offset(o, l, k)
  <2>0. a \in Nat
    BY <1>1 DEF Offset
  <2>2. /\ k + 1 \in 1 .. n /\ n + 1 - k \in 1 .. n /\ n - k \in 1 .. n /\ n + 1 - (k + 1) = n - k
        /\ a \in Nat /\ (a + (n + 1 - k)) - 1 = a + (n - k) /\ a + (n + 1 - k) > 1
    <3> HIDE DEF a, n
    <3> QED BY <1>1, <2>0, <2>1
  <2>3. IsFronted(r, q, l, new, k)
    <3> HIDE DEF n
    <3> QED BY <1>1, <1>2, FrontedIs
  <2>4. \A j \in 1 .. n : a + j \in 1 .. Len(r[o]) /\ r[o][a + j] = q[o][j]
    BY <2>3 DEF IsFronted
  <2> HIDE DEF a, r, n
  <2>5. a + (n + 1 - k) \in 1 .. Len(r[o]) /\ r[o][a + (n + 1 - k)] = src[k]
    BY <1>1, <2>2, <2>4
  <2>6. r[o][a + (n - k)] = src[k + 1]
    BY <1>1, <2>2, <2>4
  <2>7. L!PrevOf(g, r[o][a + (n + 1 - k)]) = r[o][(a + (n + 1 - k)) - 1]
    <3> DEFINE i == a + (n + 1 - k)
    <3>1. i \in 1 .. Len(r[o]) /\ i > 1
      BY <2>2, <2>5
    <3> HIDE DEF i
    <3>2. L!PrevOf(g, r[o][i]) = r[o][i - 1]
      BY <1>10, <3>1, NeighboursAre
    <3> QED BY <3>2 DEF i
  <2> QED BY <2>2, <2>5, <2>6, <2>7
<1> DEFINE b == [h |-> g, at |-> L!PrevOf(g, src[k])]
<1>13. b \in [h : ListType, at : L!Node \cup {Nil}] /\ b.h = g /\ b.at = L!PrevOf(g, src[k])
  BY <1>10, <1>11
<1>14. b \in Fronts(m, d, q, l, src, new, k)
  <2> HIDE DEF b, r, n
  <2>1. Copies(b.h, m, d, Fronted(q, l, new, k), l, src, new, k)
    BY <1>9, <1>13 DEF r
  <2>2. k < Len(src) => b.at = src[k + 1]
    BY <1>1, <1>12, <1>13
  <2> QED BY <1>13, <2>1, <2>2 DEF Fronts
<1> QED BY <1>8, <1>14 DEF src

LEMMA CopiedFrontIs ==
  ASSUME NEW m, NEW d, NEW q, NEW l \in Lists, NEW o \in Lists, NEW new, Copying(m, d, q, l, o, new)
  PROVE  Copies(L!CopiedFront(m, l, o, new), m, d, Fronted(q, l, new, Len(q[o])), l, Turned(q[o]), new, Len(q[o]))
<1> DEFINE src == Turned(q[o])
           n == Len(q[o])
           x == [h |-> m, at |-> L!Back(m, o)]
           D == [k \in 0 .. n |-> Fronts(m, d, q, l, src, new, k)]
           F == [k \in 1 .. n |-> [c \in D[k - 1] |-> FrontTurn(l, new, c, k)]]
           Is(f) == f = [k \in 0 .. n |-> IF k = 0 THEN x ELSE FrontTurn(l, new, f[k - 1], k)]
           loop == CHOOSE f : Is(f)
<1>1. /\ Holds(m, d, q) /\ m.next[l] # Nil /\ Fresh(d, q[o], new)
      /\ \A j \in 1 .. Len(new) : m.list[new[j]] = Nil
  BY DEF Copying
<1>2. m \in ListType /\ q \in [Lists -> Seq(Elem)]
  BY <1>1 DEF Holds
<1>3. /\ n \in Nat /\ Len(src) = n /\ Len(new) = n
      /\ src \in [1 .. n -> Elem] /\ new \in [1 .. n -> Elem]
      /\ q[o] \in Seq(Elem) /\ \A j \in 1 .. n : src[j] = q[o][n + 1 - j]
  BY <1>1, <1>2, TurnedIs DEF Fresh
<1>0. Fresh(d, src, new)
  <2>1. /\ new \in [1 .. n -> Elem \ d]
        /\ \A i, j \in 1 .. n : (new[i] = new[j] => i = j) /\ q[o][i] # new[j]
    BY <1>1 DEF Fresh
  <2>2. \A i \in 1 .. n : n + 1 - i \in 1 .. n
    BY <1>3
  <2> HIDE DEF src, n
  <2>3. \A i, j \in 1 .. n : src[i] # new[j]
    <3>1. SUFFICES ASSUME NEW i \in 1 .. n, NEW j \in 1 .. n PROVE src[i] # new[j]
      OBVIOUS
    <3>2. src[i] = q[o][n + 1 - i] /\ n + 1 - i \in 1 .. n
      BY <1>3, <2>2
    <3> QED BY <2>1, <3>2
  <2> QED BY <1>3, <2>1, <2>3 DEF Fresh
<1>4. x \in Fronts(m, d, q, l, src, new, 0)
  <2>1. 0 \in 0 .. n /\ \A j \in 1 .. 0 : FALSE
    BY <1>3
  <2>2. Fronted(q, l, new, 0) = q
    <3> HIDE DEF n
    <3>1. IsFronted(Fronted(q, l, new, 0), q, l, new, 0)
      BY <1>2, <1>3, <2>1, FrontedIs
    <3> QED BY <3>1 DEF IsFronted
  <2>3. Copies(m, m, d, Fronted(q, l, new, 0), l, src, new, 0)
    BY <1>1, <2>1, <2>2 DEF Copies
  <2>4. 0 < n => L!Back(m, o) = src[0 + 1]
    <3>1. 0 < n => 0 + 1 \in 1 .. n /\ n + 1 - (0 + 1) = n
      BY <1>3
    <3>2. 0 < n => L!Back(m, o) = q[o][n]
      BY <1>1, <1>3, EndsAre
    <3> QED BY <1>3, <3>1, <3>2
  <2>5. L!Back(m, o) \in L!Node \cup {Nil}
    BY <1>2, NodesApart DEF ListType, L!Back
  <2>6. x \in [h : ListType, at : L!Node \cup {Nil}] /\ x.h = m /\ x.at = L!Back(m, o)
    BY <1>2, <2>5
  <2> HIDE DEF x
  <2> HIDE DEF src
  <2> QED BY <1>3, <2>3, <2>4, <2>6 DEF Fronts
<1>5. L!CopiedFront(m, l, o, new) = loop[n].h
  BY <1>3 DEF L!CopiedFront, FrontTurn
<1> HIDE DEF n, x
<1>6. D[0] = Fronts(m, d, q, l, src, new, 0) /\ D[n] = Fronts(m, d, q, l, src, new, n)
  BY <1>3
<1>7. \A k \in 1 .. n :
        /\ D[k - 1] = Fronts(m, d, q, l, src, new, k - 1) /\ D[k] = Fronts(m, d, q, l, src, new, k)
        /\ F[k] = [c \in D[k - 1] |-> FrontTurn(l, new, c, k)]
        /\ k - 1 \in 0 .. n
  BY <1>3
<1> HIDE DEF D, F
<1>8. \A k \in 1 .. n : \A c \in D[k - 1] :
        FrontTurn(l, new, c, k) \in D[k] /\ F[k][c] = FrontTurn(l, new, c, k)
  <2>1. SUFFICES ASSUME NEW k \in 1 .. n, NEW c \in D[k - 1]
                 PROVE  FrontTurn(l, new, c, k) \in D[k] /\ F[k][c] = FrontTurn(l, new, c, k)
    OBVIOUS
  <2>2. k \in 1 .. Len(q[o]) /\ c \in Fronts(m, d, q, l, src, new, k - 1)
    BY <1>7 DEF n
  <2>3. FrontTurn(l, new, c, k) \in Fronts(m, d, q, l, src, new, k)
    BY <1>0, <1>2, <2>2, FrontTurnKeeps
  <2> QED BY <1>7, <2>3
<1>9. \E f : Is(f)
  <2>1. PICK f : Loop(f, n, x, F) /\ \A k \in 0 .. n : f[k] \in D[k]
    <3>1. x \in D[0] /\ \A k \in 1 .. n : \A c \in D[k - 1] : F[k][c] \in D[k]
      BY <1>4, <1>6, <1>8
    <3> QED BY <1>3, <3>1, LoopExists
  <2>2. \A k \in 0 .. n : k # 0 => k \in 1 .. n /\ F[k][f[k - 1]] = FrontTurn(l, new, f[k - 1], k)
    BY <1>3, <1>7, <1>8, <2>1
  <2> QED BY <2>1, <2>2 DEF Loop
<1>10. Is(loop)
  BY <1>9
<1> HIDE DEF loop
<1>11. loop[0] \in D[0] /\ \A k \in 1 .. n : loop[k - 1] \in D[k - 1] => loop[k] \in D[k]
  <2>1. loop[0] = x /\ \A k \in 1 .. n : loop[k] = FrontTurn(l, new, loop[k - 1], k)
    BY <1>3, <1>10
  <2> QED BY <1>4, <1>6, <1>8, <2>1
<1>12. loop[n] \in Fronts(m, d, q, l, src, new, n)
  <2>1. \A k \in 0 .. n : loop[k] \in D[k]
    BY <1>3, <1>11, LoopHolds
  <2> QED BY <1>3, <1>6, <2>1
<1>13. Copies(loop[n].h, m, d, Fronted(q, l, new, n), l, src, new, n)
  BY <1>12 DEF Fronts
<1> QED BY <1>5, <1>13 DEF n

(* The elements new are unused, and get the values of o, back or front     *)
(* first.                                                                  *)
Pushes(q, l, o, new) ==
  /\ dropped' = dropped /\ Fresh(dropped, q[o], new)
  /\ \A j \in 1 .. Len(q[o]) : list.list[new[j]] = Nil

Fits(m, o, new) ==
  /\ new \in [1 .. m.len[o] -> L!Unused(m)]
  /\ \A i, j \in DOMAIN new : new[i] = new[j] => i = j

LEMMA Initialised ==
  ASSUME NEW q, Holds(list, dropped, q), NEW l \in Lists, NEW o \in Lists, NEW new,
         Fits(L!LazyInit(list, l), o, new), dropped' = dropped
  PROVE  /\ Copying(L!LazyInit(list, l), dropped, q, l, o, new)
         /\ L!LazyInit(list, l).value = list.value
         /\ Pushes(q, l, o, new)
<1> DEFINE m == L!LazyInit(list, l)
           n == Len(q[o])
<1>1. Holds(m, dropped, q) /\ m.next[l] # Nil /\ m.list = list.list /\ m.value = list.value
  BY LazyHolds
<1>2. m.len[o] = n /\ n \in Nat /\ q[o] \in Seq(Elem)
  BY <1>1 DEF Holds
<1>3. /\ new \in [1 .. n -> L!Unused(m)]
      /\ \A i, j \in 1 .. n : new[i] = new[j] => i = j
  BY <1>2 DEF Fits
<1> HIDE DEF m
<1>4. \A e \in L!Unused(m) : e \in Elem \ dropped /\ m.list[e] = Nil
  BY DEF L!Unused, L!Handles
<1>5. /\ new \in [1 .. n -> Elem \ dropped] /\ DOMAIN new = 1 .. n
      /\ \A j \in 1 .. n : m.list[new[j]] = Nil
  BY <1>3, <1>4
<1>6. Len(new) = n
  <2>1. new \in Seq(Elem \ dropped)
    BY <1>2, <1>5, SeqDef
  <2> QED BY <1>2, <1>5, <2>1
<1>7. \A i, j \in 1 .. n : q[o][i] # new[j]
  <2>1. SUFFICES ASSUME NEW i \in 1 .. n, NEW j \in 1 .. n, q[o][i] = new[j] PROVE FALSE
    OBVIOUS
  <2>2. m.list[q[o][i]] = o
    BY <1>1 DEF Holds, Owned
  <2> QED BY <1>5, <2>1, <2>2, NodesApart
<1>8. q[o] \in [1 .. n -> Elem]
  BY <1>2
<1>9. Fresh(dropped, q[o], new)
  BY <1>2, <1>3, <1>5, <1>6, <1>7, <1>8 DEF Fresh
<1>10. Copying(m, dropped, q, l, o, new)
  BY <1>1, <1>5, <1>6, <1>9 DEF Copying
<1> QED BY <1>1, <1>5, <1>9, <1>10 DEF m, Pushes

LEMMA PushBackListMoves ==
  ASSUME NEW q, Holds(list, dropped, q), NEW l \in Lists, L!PushBackList(l)
  PROVE  \E o \in Lists : \E new :
           /\ Pushes(q, l, o, new)
           /\ listResult' = [op |-> "PushBackList", list |-> l, e |-> Nil, at |-> o, value |-> Zero]
           /\ Copies(list', list, dropped, Backed(q, l, new, Len(q[o])), l, q[o], new, Len(q[o]))
<1> DEFINE m == L!LazyInit(list, l)
<1>1. PICK o, new :
        /\ o \in Lists
        /\ Fits(m, o, new)
        /\ dropped' = dropped /\ list' = L!CopiedBack(m, l, o, new)
        /\ listResult' = [op |-> "PushBackList", list |-> l, e |-> Nil, at |-> o, value |-> Zero]
  BY DEF L!PushBackList, L!PushList, L!Return, L!Injection, L!IsInjective, Fits
<1>2. Copying(m, dropped, q, l, o, new) /\ m.value = list.value /\ Pushes(q, l, o, new)
  BY <1>1, Initialised
<1> HIDE DEF m
<1>3. Copies(list', m, dropped, Backed(q, l, new, Len(q[o])), l, q[o], new, Len(q[o]))
  BY <1>1, <1>2, CopiedBackIs
<1>4. Copies(list', list, dropped, Backed(q, l, new, Len(q[o])), l, q[o], new, Len(q[o]))
  BY <1>2, <1>3 DEF Copies
<1> QED BY <1>1, <1>2, <1>4

LEMMA PushFrontListMoves ==
  ASSUME NEW q, Holds(list, dropped, q), NEW l \in Lists, L!PushFrontList(l)
  PROVE  \E o \in Lists : \E new :
           /\ Pushes(q, l, o, new)
           /\ listResult' = [op |-> "PushFrontList", list |-> l, e |-> Nil, at |-> o, value |-> Zero]
           /\ Copies(list', list, dropped, Fronted(q, l, new, Len(q[o])), l, Turned(q[o]), new, Len(q[o]))
<1> DEFINE m == L!LazyInit(list, l)
<1>1. PICK o, new :
        /\ o \in Lists
        /\ Fits(m, o, new)
        /\ dropped' = dropped /\ list' = L!CopiedFront(m, l, o, new)
        /\ listResult' = [op |-> "PushFrontList", list |-> l, e |-> Nil, at |-> o, value |-> Zero]
  BY DEF L!PushFrontList, L!PushList, L!Return, L!Injection, L!IsInjective, Fits
<1>2. Copying(m, dropped, q, l, o, new) /\ m.value = list.value /\ Pushes(q, l, o, new)
  BY <1>1, Initialised
<1> HIDE DEF m
<1>3. Copies(list', m, dropped, Fronted(q, l, new, Len(q[o])), l, Turned(q[o]), new, Len(q[o]))
  BY <1>1, <1>2, CopiedFrontIs
<1>4. Copies(list', list, dropped, Fronted(q, l, new, Len(q[o])), l, Turned(q[o]), new, Len(q[o]))
  BY <1>2, <1>3 DEF Copies
<1> QED BY <1>1, <1>2, <1>4

-----------------------------------------------------------------------------
(* The invariant of the lists.                                             *)

ListInv == \E q : Holds(list, dropped, q)

LEMMA ListInit == ASSUME L!Init PROVE Holds(list, dropped, [l \in Lists |-> <<>>])
<1> DEFINE q == [l \in Lists |-> <<>>]
<1>1. /\ list.next = [x \in L!Node |-> Nil] /\ list.prev = [x \in L!Node |-> Nil]
      /\ list.list = [e \in Elem |-> Nil] /\ list.value = [e \in Elem |-> Zero]
      /\ list.len = [l \in Lists |-> 0] /\ dropped = {} /\ list \in ListType
  BY NodesApart DEF L!Init, ListType
<1>2. q \in [Lists -> Seq(Elem)] /\ \A l \in Lists : q[l] = <<>> /\ Len(q[l]) = 0
  OBVIOUS
<1> HIDE DEF q
<1>3. \A l \in Lists : 1 .. Len(q[l]) = {}
  <2>1. 1 .. 0 = {}
    OBVIOUS
  <2> QED BY <1>2, <2>1
<1>4. Single(q)
  BY <1>3 DEF Single
<1>5. Owned(list, dropped, q)
  BY <1>1, <1>3, NodesApart DEF Owned
<1>6. Strung(list, q)
  BY <1>1, <1>2, NodesApart DEF Strung
<1>7. \A l \in Lists : list.len[l] = Len(q[l])
  BY <1>1, <1>2
<1> QED BY <1>1, <1>2, <1>4, <1>5, <1>6, <1>7 DEF Holds, q

LEMMA GrowsHolds ==
  ASSUME NEW q, NEW op, NEW l, NEW mark, NEW i, Grows(q, op, l, mark, i)
  PROVE  \E r : Holds(list', dropped', r)
BY DEF Grows, Put

LEMMA ListNext == ASSUME ListInv, L!Next PROVE ListInv'
<1>1. PICK q : Holds(list, dropped, q)
  BY DEF ListInv
<1>2. SUFFICES \E r : Holds(list', dropped', r)
  BY DEF ListInv
<1>3. PICK l \in Lists :
        \/ L!InitList(l) \/ L!PushFront(l) \/ L!PushBack(l)
        \/ L!PushBackList(l) \/ L!PushFrontList(l)
        \/ \E e \in L!Handles :
             \/ L!Remove(l, e) \/ L!MoveToFront(l, e) \/ L!MoveToBack(l, e)
             \/ L!InsertBefore(l, e) \/ L!InsertAfter(l, e)
             \/ \E mark \in L!Handles : L!MoveBefore(l, e, mark) \/ L!MoveAfter(l, e, mark)
  BY DEF L!Next
<1>4. L!Handles = Elem \ dropped
  BY DEF L!Handles
<1>5. ASSUME Stays PROVE Holds(list', dropped', q)
  BY <1>1, <1>5 DEF Stays
<1>6. CASE L!InitList(l)
  BY <1>1, <1>6, InitListMoves
<1>7. CASE L!PushFront(l)
  BY <1>1, <1>7, PushFrontMoves, GrowsHolds
<1>8. CASE L!PushBack(l)
  BY <1>1, <1>8, PushBackMoves, GrowsHolds
<1>9. CASE L!PushBackList(l)
  BY <1>1, <1>9, PushBackListMoves DEF Copies, Pushes
<1>10. CASE L!PushFrontList(l)
  BY <1>1, <1>10, PushFrontListMoves DEF Copies, Pushes
<1>11. ASSUME NEW e \in Elem \ dropped, L!Remove(l, e) PROVE \E r : Holds(list', dropped', r)
  BY <1>1, <1>5, <1>11, RemoveMoves
<1>12. ASSUME NEW e \in Elem \ dropped, L!MoveToFront(l, e) PROVE \E r : Holds(list', dropped', r)
  BY <1>1, <1>5, <1>12, MoveToFrontMoves DEF Shifts
<1>13. ASSUME NEW e \in Elem \ dropped, L!MoveToBack(l, e) PROVE \E r : Holds(list', dropped', r)
  BY <1>1, <1>5, <1>13, MoveToBackMoves DEF Shifts
<1>14. ASSUME NEW e \in Elem \ dropped, L!InsertBefore(l, e) PROVE \E r : Holds(list', dropped', r)
  BY <1>1, <1>5, <1>14, InsertBeforeMoves, GrowsHolds DEF GrowsBeside
<1>15. ASSUME NEW e \in Elem \ dropped, L!InsertAfter(l, e) PROVE \E r : Holds(list', dropped', r)
  BY <1>1, <1>5, <1>15, InsertAfterMoves, GrowsHolds DEF GrowsBeside
<1>16. ASSUME NEW e \in Elem \ dropped, NEW mark \in Elem \ dropped, L!MoveBefore(l, e, mark)
       PROVE \E r : Holds(list', dropped', r)
  BY <1>1, <1>5, <1>16, MoveBeforeMoves DEF ShiftsBeside, Shifts
<1>17. ASSUME NEW e \in Elem \ dropped, NEW mark \in Elem \ dropped, L!MoveAfter(l, e, mark)
       PROVE \E r : Holds(list', dropped', r)
  BY <1>1, <1>5, <1>17, MoveAfterMoves DEF ShiftsBeside, Shifts
<1> QED BY <1>3, <1>4, <1>6, <1>7, <1>8, <1>9, <1>10, <1>11, <1>12, <1>13, <1>14, <1>15, <1>16, <1>17

(* A loop that makes every item from the one before makes no other walk.   *)
InStep(f, s, n) ==
  /\ f = [i \in 1 .. n |-> f[i]] /\ s = [i \in 1 .. n |-> s[i]]
  /\ n > 0 => f[1] = s[1]
  /\ \A i \in 2 .. n : f[i - 1] = s[i - 1] => f[i] = s[i]

LEMMA SameWalk ==
  ASSUME NEW n \in Nat, NEW f, NEW s, InStep(f, s, n)
  PROVE  f = s
<1> DEFINE T == {i \in 1 .. n : f[i] # s[i]}
<1>1. T = {}
  <2>1. SUFFICES ASSUME T # {} PROVE FALSE
    OBVIOUS
  <2>2. T \in SUBSET Nat
    OBVIOUS
  <2> HIDE DEF T
  <2>3. PICK i \in T : \A j \in T : i <= j
    BY <2>1, <2>2, LeastNatural
  <2>4. i \in 1 .. n /\ f[i] # s[i] /\ n > 0
    BY <2>3 DEF T
  <2>5. i # 1
    BY <2>4 DEF InStep
  <2>6. i \in 2 .. n /\ i - 1 \in 1 .. n /\ ~ (i <= i - 1)
    BY <2>4, <2>5
  <2>7. f[i - 1] = s[i - 1]
    BY <2>3, <2>6 DEF T
  <2> QED BY <2>4, <2>6, <2>7 DEF InStep
<1>2. \A i \in 1 .. n : f[i] = s[i]
  BY <1>1
<1> QED BY <1>2 DEF InStep

(* What Front and Next, and Back and Prev, enumerate.                      *)
LEMMA ForwardsAre ==
  ASSUME NEW m, NEW d, NEW q, Holds(m, d, q), NEW l \in Lists
  PROVE  L!Forwards(m, l) = q[l]
<1> DEFINE n == Len(q[l])
           s == q[l]
           Is(f) == f = [i \in 1 .. n |-> IF i = 1 THEN L!Front(m, l) ELSE L!NextOf(m, f[i - 1])]
           walk == CHOOSE f : Is(f)
<1>1. n \in Nat /\ m.len[l] = n /\ s = [i \in 1 .. n |-> s[i]]
  BY DEF Holds
<1>2. L!Forwards(m, l) = walk
  BY <1>1 DEF L!Forwards
<1> HIDE DEF s, n
<1>3. n > 0 => L!Front(m, l) = s[1]
  BY EndsAre DEF s, n
<1>4. ASSUME NEW i \in 2 .. n PROVE L!NextOf(m, s[i - 1]) = s[i]
  <2>1. i - 1 \in 1 .. n /\ i - 1 < n /\ (i - 1) + 1 = i
    BY <1>1
  <2>2. L!NextOf(m, s[i - 1]) = s[(i - 1) + 1]
    BY <2>1, NeighboursAre DEF s, n
  <2> QED BY <2>1, <2>2
<1>5. Is(s)
  <2>1. \A i \in 1 .. n : s[i] = IF i = 1 THEN L!Front(m, l) ELSE L!NextOf(m, s[i - 1])
    <3>1. SUFFICES ASSUME NEW i \in 1 .. n
                   PROVE  s[i] = IF i = 1 THEN L!Front(m, l) ELSE L!NextOf(m, s[i - 1])
      OBVIOUS
    <3>2. i = 1 \/ i \in 2 .. n
      BY <1>1
    <3>3. n > 0
      BY <1>1
    <3> QED BY <1>3, <1>4, <3>2, <3>3
  <2> QED BY <1>1, <2>1
<1>6. Is(walk)
  BY <1>5
<1> HIDE DEF walk
<1>7. walk = [i \in 1 .. n |-> walk[i]]
  BY <1>6
<1>8. n > 0 => walk[1] = s[1]
  BY <1>1, <1>3, <1>6
<1>9. ASSUME NEW i \in 2 .. n, walk[i - 1] = s[i - 1] PROVE walk[i] = s[i]
  <2>1. i \in 1 .. n /\ i # 1
    BY <1>1
  <2>2. walk[i] = L!NextOf(m, walk[i - 1])
    BY <1>6, <2>1
  <2> QED BY <1>4, <1>9, <2>2
<1>10. InStep(walk, s, n)
  BY <1>1, <1>7, <1>8, <1>9 DEF InStep
<1>11. walk = s
  BY <1>1, <1>10, SameWalk
<1> QED BY <1>2, <1>11 DEF s

LEMMA BackwardsAre ==
  ASSUME NEW m, NEW d, NEW q, Holds(m, d, q), NEW l \in Lists
  PROVE  L!Backwards(m, l) = Turned(q[l])
<1> DEFINE n == Len(q[l])
           s == Turned(q[l])
           Is(f) == f = [i \in 1 .. n |-> IF i = 1 THEN L!Back(m, l) ELSE L!PrevOf(m, f[i - 1])]
           walk == CHOOSE f : Is(f)
<1>1. n \in Nat /\ m.len[l] = n /\ q[l] \in Seq(Elem)
  BY DEF Holds
<1>0. s = [i \in 1 .. n |-> s[i]] /\ \A i \in 1 .. n : s[i] = q[l][n + 1 - i]
  BY <1>1, TurnedIs
<1>2. L!Backwards(m, l) = walk
  BY <1>1 DEF L!Backwards
<1> HIDE DEF s, n
<1>3. n > 0 => L!Back(m, l) = s[1]
  <2>1. n > 0 => 1 \in 1 .. n /\ n + 1 - 1 = n
    BY <1>1
  <2>2. n > 0 => L!Back(m, l) = q[l][n]
    BY EndsAre DEF n
  <2> QED BY <1>0, <2>1, <2>2
<1>4. ASSUME NEW i \in 2 .. n PROVE L!PrevOf(m, s[i - 1]) = s[i]
  <2>1. /\ i - 1 \in 1 .. n /\ i \in 1 .. n /\ n + 1 - (i - 1) \in 1 .. n
        /\ n + 1 - (i - 1) > 1 /\ (n + 1 - (i - 1)) - 1 = n + 1 - i
    BY <1>1
  <2>2. L!PrevOf(m, q[l][n + 1 - (i - 1)]) = q[l][(n + 1 - (i - 1)) - 1]
    BY <2>1, NeighboursAre DEF n
  <2> QED BY <1>0, <2>1, <2>2
<1>5. Is(s)
  <2>1. \A i \in 1 .. n : s[i] = IF i = 1 THEN L!Back(m, l) ELSE L!PrevOf(m, s[i - 1])
    <3>1. SUFFICES ASSUME NEW i \in 1 .. n
                   PROVE  s[i] = IF i = 1 THEN L!Back(m, l) ELSE L!PrevOf(m, s[i - 1])
      OBVIOUS
    <3>2. i = 1 \/ i \in 2 .. n
      BY <1>1
    <3>3. n > 0
      BY <1>1
    <3> QED BY <1>3, <1>4, <3>2, <3>3
  <2> QED BY <1>0, <2>1
<1>6. Is(walk)
  BY <1>5
<1> HIDE DEF walk
<1>7. walk = [i \in 1 .. n |-> walk[i]]
  BY <1>6
<1>8. n > 0 => walk[1] = s[1]
  BY <1>1, <1>3, <1>6
<1>9. ASSUME NEW i \in 2 .. n, walk[i - 1] = s[i - 1] PROVE walk[i] = s[i]
  <2>1. i \in 1 .. n /\ i # 1
    BY <1>1
  <2>2. walk[i] = L!PrevOf(m, walk[i - 1])
    BY <1>6, <2>1
  <2> QED BY <1>4, <1>9, <2>2
<1>10. InStep(walk, s, n)
  BY <1>1, <1>0, <1>7, <1>8, <1>9 DEF InStep
<1>11. walk = s
  BY <1>1, <1>10, SameWalk
<1> QED BY <1>2, <1>11 DEF s

LEMMA EnumeratedOf == ASSUME NEW q, Holds(list, dropped, q) PROVE EnumeratedBothWays
<1>1. SUFFICES ASSUME NEW l \in Lists
               PROVE  LET n == list.len[l]
                          there == L!Forwards(list, l)
                          back == L!Backwards(list, l)
                      IN  /\ \A i \in 1 .. n : there[i] = back[n + 1 - i]
                          /\ n > 0 => L!NextOf(list, there[n]) = Nil /\ L!PrevOf(list, back[n]) = Nil
  BY DEF EnumeratedBothWays, L!BothWays
<1> DEFINE n == Len(q[l])
<1>2. n \in Nat /\ list.len[l] = n /\ q[l] \in Seq(Elem)
  BY DEF Holds
<1>3. L!Forwards(list, l) = q[l] /\ L!Backwards(list, l) = Turned(q[l])
  BY ForwardsAre, BackwardsAre
<1>4. \A i \in 1 .. n : Turned(q[l])[i] = q[l][n + 1 - i]
  BY <1>2, TurnedIs
<1>5. ASSUME NEW i \in 1 .. n PROVE q[l][i] = Turned(q[l])[n + 1 - i]
  <2>1. n + 1 - i \in 1 .. n /\ n + 1 - (n + 1 - i) = i
    BY <1>2
  <2> HIDE DEF n
  <2> QED BY <1>4, <2>1
<1>6. n > 0 => L!NextOf(list, q[l][n]) = Nil /\ L!PrevOf(list, Turned(q[l])[n]) = Nil
  <2>1. n > 0 => n \in 1 .. n /\ 1 \in 1 .. n /\ n + 1 - n = 1
    BY <1>2
  <2>2. n > 0 => Turned(q[l])[n] = q[l][1]
    <3> HIDE DEF n
    <3> QED BY <1>4, <2>1
  <2>3. n > 0 => L!NextOf(list, q[l][n]) = Nil
    BY <2>1, NeighboursAre
  <2>4. n > 0 => L!PrevOf(list, q[l][1]) = Nil
    BY <2>1, NeighboursAre
  <2> QED BY <2>2, <2>3, <2>4
<1> QED BY <1>2, <1>3, <1>5, <1>6

(* A node with links, by its place.                                        *)
LEMMA NodeIs ==
  ASSUME NEW m, NEW d, NEW q, Holds(m, d, q), NEW x \in L!Node \ d, m.next[x] # Nil
  PROVE  \E l \in Lists : \E i \in 0 .. Len(q[l]) : x = Nth(l, q[l], i) /\ m.next[l] # Nil
<1>1. Len(q[x]) \in Nat \/ x \notin Lists
  BY DEF Holds
<1>2. CASE x \in Lists
  <2>1. 0 \in 0 .. Len(q[x]) /\ x = Nth(x, q[x], 0)
    BY <1>1, <1>2 DEF Nth
  <2> QED BY <1>2, <2>1
<1>3. CASE x \in Elem
  <2>1. m.list[x] \in Lists
    BY <1>3 DEF Holds, Owned, ListType
  <2>2. m.next[m.list[x]] # Nil /\ \E i \in 1 .. Len(q[m.list[x]]) : q[m.list[x]][i] = x
    BY <1>3, <2>1, PlaceIs
  <2>3. PICK i \in 1 .. Len(q[m.list[x]]) : q[m.list[x]][i] = x
    BY <2>2
  <2>4. x = Nth(m.list[x], q[m.list[x]], i) /\ i \in 0 .. Len(q[m.list[x]])
    BY <2>3 DEF Nth
  <2> QED BY <2>1, <2>2, <2>4
<1> QED BY <1>2, <1>3, NodesApart

(* Every place belongs to its list, and to no cleared one.                 *)
LEMMA NthOwned ==
  ASSUME NEW q, Holds(list, dropped, q), NEW l \in Lists, NEW i \in Int
  PROVE  /\ Nth(l, q[l], i) \in L!Node \ dropped
         /\ L!ListOf(Nth(l, q[l], i)) = l
<1>1. q[l] \in Seq(Elem) /\ Owned(list, dropped, q) /\ dropped \in SUBSET Elem
  BY DEF Holds
<1>2. CASE i \in 1 .. Len(q[l])
  <2>1. Nth(l, q[l], i) = q[l][i] /\ q[l][i] \in Elem
    BY <1>1, <1>2, NthIs
  <2>2. q[l][i] \notin dropped /\ list.list[q[l][i]] = l
    BY <1>1, <1>2 DEF Owned
  <2> QED BY <2>1, <2>2, NodesApart DEF L!ListOf
<1>3. CASE i \notin 1 .. Len(q[l])
  <2>1. Nth(l, q[l], i) = l
    BY <1>1, <1>3, NthIs
  <2> QED BY <1>1, <2>1, NodesApart DEF L!ListOf
<1> QED BY <1>2, <1>3

LEMMA LinkedOf ==
  ASSUME NEW q, Holds(list, dropped, q), NEW x \in L!Node \ dropped, list.next[x] # Nil
  PROVE  /\ list.next[x] \in L!Node \ dropped /\ list.prev[x] \in L!Node \ dropped
         /\ list.prev[list.next[x]] = x /\ list.next[list.prev[x]] = x
         /\ L!ListOf(x) # Nil /\ L!ListOf(list.next[x]) = L!ListOf(x)
<1>1. PICK l \in Lists : \E i \in 0 .. Len(q[l]) : x = Nth(l, q[l], i) /\ list.next[l] # Nil
  BY NodeIs
<1>2. PICK i \in 0 .. Len(q[l]) : x = Nth(l, q[l], i) /\ list.next[l] # Nil
  BY <1>1
<1> DEFINE n == Len(q[l])
           j == IF i = 0 THEN n ELSE i - 1
<1>3. n \in Nat /\ i \in Int /\ i + 1 \in Int /\ j \in 0 .. n /\ j \in Int /\ j + 1 \in Int
  BY DEF Holds
<1>4. x = Nth(l, q[l], j + 1)
  <2>1. CASE i = 0
    <3>1. i \notin 1 .. n /\ j + 1 \notin 1 .. n
      BY <1>3, <2>1
    <3> QED BY <1>2, <3>1 DEF Nth
  <2>2. CASE i # 0
    <3>1. j + 1 = i
      BY <1>3, <2>2
    <3> QED BY <1>2, <3>1
  <2> QED BY <2>1, <2>2
<1> HIDE DEF j
<1>5. list.next[x] = Nth(l, q[l], i + 1) /\ list.prev[Nth(l, q[l], i + 1)] = x
  BY <1>2, LinksAre
<1>6. list.prev[x] = Nth(l, q[l], j) /\ list.next[Nth(l, q[l], j)] = x
  BY <1>2, <1>3, <1>4, LinksAre
<1>7. Nth(l, q[l], i + 1) \in L!Node \ dropped /\ L!ListOf(Nth(l, q[l], i + 1)) = l
  BY <1>3, NthOwned
<1>8. Nth(l, q[l], j) \in L!Node \ dropped
  BY <1>3, NthOwned
<1>9. L!ListOf(x) = l
  BY <1>2, <1>3, NthOwned
<1> QED BY <1>5, <1>6, <1>7, <1>8, <1>9, NodesApart

LEMMA LengthOf ==
  ASSUME NEW q, Holds(list, dropped, q), NEW l \in Lists
  PROVE  list.len[l] = Cardinality({e \in L!Handles : list.list[e] = l})
<1> DEFINE n == Len(q[l])
           s == q[l]
           E == {e \in L!Handles : list.list[e] = l}
<1>1. n \in Nat /\ list.len[l] = n /\ s \in Seq(Elem) /\ Owned(list, dropped, q) /\ Single(q)
  BY DEF Holds
<1>2. \A i \in 1 .. n : s[i] \in E
  BY <1>1 DEF Owned, L!Handles
<1>3. \A e \in E : \E i \in 1 .. n : s[i] = e
  BY <1>1, NodesApart DEF Owned, L!Handles
<1>4. \A i, j \in 1 .. n : s[i] = s[j] => i = j
  BY <1>1 DEF Single
<1>5. s \in [1 .. n -> E]
  BY <1>1, <1>2
<1> HIDE DEF s, n, E
<1>6. s \in Bijection(1 .. n, E)
  BY <1>3, <1>4, <1>5 DEF Bijection, Injection, Surjection, IsInjective
<1>7. ExistsBijection(1 .. n, E)
  BY <1>6 DEF ExistsBijection
<1>8. IsFiniteSet(1 .. n) /\ Cardinality(1 .. n) = n
  BY <1>1, FS_Interval
<1>9. Cardinality(E) = n
  BY <1>7, <1>8, FS_Bijection
<1> QED BY <1>1, <1>9 DEF E

LEMMA LinkedBothWaysOf == ASSUME NEW q, Holds(list, dropped, q) PROVE LinkedBothWays
<1>1. list \in ListType /\ Owned(list, dropped, q) /\ Strung(list, q)
  BY DEF Holds
<1>2. \A S : L!Cardinality(S) = Cardinality(S)
  BY Zenon DEF L!Cardinality, Cardinality
<1>3. \A l \in Lists : list.len[l] = L!Cardinality({e \in L!Handles : list.list[e] = l})
  BY <1>2, LengthOf
<1>4. ASSUME NEW x \in L!Node \ dropped, list.next[x] = Nil
      PROVE  list.prev[x] = Nil /\ (x \in Elem => list.list[x] = Nil)
  <2>1. CASE x \in Lists
    BY <1>1, <1>4, <2>1, NodesApart DEF Strung
  <2>2. CASE x \in Elem
    <3>1. list.list[x] = Nil
      <4>1. SUFFICES ASSUME list.list[x] # Nil PROVE FALSE
        OBVIOUS
      <4>2. list.list[x] \in Lists
        BY <1>1, <2>2, <4>1 DEF ListType
      <4> DEFINE k == list.list[x]
      <4>3. PICK i \in 1 .. Len(q[k]) : q[k][i] = x
        BY <2>2, <4>2, PlaceIs
      <4>4. list.next[k] # Nil
        BY <2>2, <4>2, PlaceIs
      <4>5. i + 1 \in Int
        OBVIOUS
      <4> HIDE DEF k
      <4>6. list.next[x] = Nth(k, q[k], i + 1)
        BY <4>2, <4>3, <4>4, AroundIs DEF k
      <4>7. Nth(k, q[k], i + 1) \in L!Node
        BY <4>2, <4>5, NthOwned DEF k
      <4> QED BY <1>4, <4>6, <4>7, NodesApart
    <3> QED BY <1>1, <2>2, <3>1 DEF Owned
  <2> QED BY <2>1, <2>2, NodesApart
<1>5. /\ list.next \in [L!Node -> L!Node \cup {Nil}] /\ list.prev \in [L!Node -> L!Node \cup {Nil}]
      /\ list.list \in [Elem -> Lists \cup {Nil}] /\ list.value \in [Elem -> Mark]
  BY <1>1 DEF ListType
<1> QED BY <1>3, <1>4, <1>5, LinkedOf DEF LinkedBothWays, L!TypeOK, L!Linked

LEMMA ListInvariant == Spec => []ListInv
<1>1. Init => ListInv
  BY ListInit DEF Init, ListInv
<1>2. ListInv /\ [Next]_<<kind, lists, rings, heaps, repeats>> => ListInv'
  BY ListNext DEF Next, ListStep, RingStep, HeapStep, RepeatStep, lists, ListInv
<1> QED BY <1>1, <1>2, PTL DEF Spec

(* Whatever the calls on the lists, next and prev of what is linked are    *)
(* inverse to each other and stay in the list, len counts the elements     *)
(* that name the list, and what has been removed has no links: for all     *)
(* lists and elements, copies of a list to itself included.                *)
THEOREM ListsStayLinked == Spec => []LinkedBothWays
<1>1. ListInv => LinkedBothWays
  BY LinkedBothWaysOf DEF ListInv
<1> QED BY <1>1, ListInvariant, PTL

(* Back and Prev enumerate what Front and Next do, the other way round,    *)
(* and each ends after len elements.                                       *)
THEOREM ListsEnumerate == Spec => []EnumeratedBothWays
<1>1. ListInv => EnumeratedBothWays
  BY EnumeratedOf DEF ListInv
<1> QED BY <1>1, ListInvariant, PTL


-----------------------------------------------------------------------------
(* Lists are sequences.  First, what the helpers of ListSeqs do to one.    *)

LEMMA InsertAtIs ==
  ASSUME NEW s \in Seq(Elem), NEW i \in 0 .. Len(s), NEW e \in Elem
  PROVE  L!Promise!InsertAt(s, i + 1, e) = With(s, i, e)
<1> DEFINE n == Len(s)
           a == SubSeq(s, 1, i)
           b == SubSeq(s, i + 1, n)
           t == With(s, i, e)
           u == (a \o <<e>>) \o b
<1>1. n \in Nat /\ i \in 0 .. n /\ \A j \in 1 .. n : s[j] \in Elem
  OBVIOUS
<1>2. /\ a \in Seq(Elem) /\ Len(a) = i /\ \A j \in 1 .. i : a[j] = s[j]
  <2>1. /\ a \in Seq(Elem) /\ Len(a) = IF 1 <= i THEN i - 1 + 1 ELSE 0
        /\ \A j \in 1 .. i - 1 + 1 : a[j] = s[1 + j - 1]
    <3>1. \A j \in 1 .. i : s[j] \in Elem
      BY <1>1
    <3> HIDE DEF n
    <3> QED BY <1>1, <3>1, SubSeqProperties
  <2> QED BY <1>1, <2>1
<1>3. /\ b \in Seq(Elem) /\ Len(b) = n - i /\ \A j \in 1 .. n - i : b[j] = s[i + j]
  <2>1. /\ b \in Seq(Elem) /\ Len(b) = IF i + 1 <= n THEN n - (i + 1) + 1 ELSE 0
        /\ \A j \in 1 .. n - (i + 1) + 1 : b[j] = s[i + 1 + j - 1]
    <3>1. \A j \in i + 1 .. n : s[j] \in Elem
      BY <1>1
    <3> HIDE DEF n
    <3> QED BY <1>1, <3>1, SubSeqProperties
  <2> QED BY <1>1, <2>1
<1>4. L!Promise!InsertAt(s, i + 1, e) = u
  <2>1. (i + 1) - 1 = i
    BY <1>1
  <2> QED BY <2>1 DEF L!Promise!InsertAt
<1>5. t \in Seq(Elem) /\ Len(t) = n + 1
  BY WithIs
<1>6. \A j \in 1 .. n + 1 : t[j] = IF j <= i THEN s[j] ELSE IF j = i + 1 THEN e ELSE s[j - 1]
  BY DEF With
<1> HIDE DEF n, a, b, t
<1>7. <<e>> \in Seq(Elem) /\ Len(<<e>>) = 1 /\ <<e>>[1] = e
  OBVIOUS
<1>8. /\ a \o <<e>> \in Seq(Elem) /\ Len(a \o <<e>>) = i + 1
      /\ \A j \in 1 .. i + 1 : (a \o <<e>>)[j] = IF j <= i THEN s[j] ELSE e
  <2>1. /\ a \o <<e>> \in Seq(Elem) /\ Len(a \o <<e>>) = Len(a) + Len(<<e>>)
        /\ \A j \in 1 .. Len(a) + Len(<<e>>) :
             (a \o <<e>>)[j] = IF j <= Len(a) THEN a[j] ELSE <<e>>[j - Len(a)]
    BY <1>2, <1>7, ConcatProperties
  <2>2. \A j \in 1 .. i + 1 : j <= i \/ j - i = 1
    BY <1>1
  <2> QED BY <1>1, <1>2, <1>7, <2>1, <2>2
<1>9. /\ u \in Seq(Elem) /\ Len(u) = n + 1
      /\ \A j \in 1 .. n + 1 : u[j] = IF j <= i + 1 THEN (a \o <<e>>)[j] ELSE b[j - (i + 1)]
  <2>1. (i + 1) + (n - i) = n + 1
    BY <1>1
  <2>2. /\ u \in Seq(Elem) /\ Len(u) = Len(a \o <<e>>) + Len(b)
        /\ \A j \in 1 .. Len(a \o <<e>>) + Len(b) :
             u[j] = IF j <= Len(a \o <<e>>) THEN (a \o <<e>>)[j] ELSE b[j - Len(a \o <<e>>)]
    BY <1>3, <1>8, ConcatProperties
  <2> QED BY <1>3, <1>8, <2>1, <2>2
<1>10. \A j \in 1 .. n + 1 : u[j] = t[j]
  <2>1. SUFFICES ASSUME NEW j \in 1 .. n + 1 PROVE u[j] = t[j]
    OBVIOUS
  <2>2. CASE j <= i + 1
    <3>1. j \in 1 .. i + 1 /\ (~ (j <= i) => j = i + 1)
      BY <1>1, <2>2
    <3> QED BY <1>6, <1>8, <1>9, <2>2, <3>1
  <2>3. CASE ~ (j <= i + 1)
    <3>1. j - (i + 1) \in 1 .. n - i /\ i + (j - (i + 1)) = j - 1 /\ ~ (j <= i) /\ j # i + 1
      BY <1>1, <2>3
    <3>2. u[j] = b[j - (i + 1)] /\ t[j] = s[j - 1]
      BY <1>6, <1>9, <2>3, <3>1
    <3> QED BY <1>3, <3>1, <3>2
  <2> QED BY <2>2, <2>3
<1> HIDE DEF u
<1>11. u = t
  BY <1>5, <1>9, <1>10, SeqEqual
<1> QED BY <1>4, <1>11 DEF t

LEMMA RemoveAtIs ==
  ASSUME NEW s \in Seq(Elem), NEW i \in 1 .. Len(s)
  PROVE  L!Promise!RemoveAt(s, i) = Without(s, i)
<1> DEFINE n == Len(s)
           a == SubSeq(s, 1, i - 1)
           b == SubSeq(s, i + 1, n)
           t == Without(s, i)
           u == a \o b
<1>1. n \in Nat /\ i \in 1 .. n /\ \A j \in 1 .. n : s[j] \in Elem
  OBVIOUS
<1>2. /\ a \in Seq(Elem) /\ Len(a) = i - 1 /\ \A j \in 1 .. i - 1 : a[j] = s[j]
  <2>1. /\ a \in Seq(Elem) /\ Len(a) = IF 1 <= i - 1 THEN (i - 1) - 1 + 1 ELSE 0
        /\ \A j \in 1 .. (i - 1) - 1 + 1 : a[j] = s[1 + j - 1]
    <3>1. \A j \in 1 .. i - 1 : s[j] \in Elem
      BY <1>1
    <3> HIDE DEF n
    <3> QED BY <1>1, <3>1, SubSeqProperties
  <2> QED BY <1>1, <2>1
<1>3. /\ b \in Seq(Elem) /\ Len(b) = n - i /\ \A j \in 1 .. n - i : b[j] = s[i + j]
  <2>1. /\ b \in Seq(Elem) /\ Len(b) = IF i + 1 <= n THEN n - (i + 1) + 1 ELSE 0
        /\ \A j \in 1 .. n - (i + 1) + 1 : b[j] = s[i + 1 + j - 1]
    <3>1. \A j \in i + 1 .. n : s[j] \in Elem
      BY <1>1
    <3> HIDE DEF n
    <3> QED BY <1>1, <3>1, SubSeqProperties
  <2> QED BY <1>1, <2>1
<1>4. L!Promise!RemoveAt(s, i) = u
  BY DEF L!Promise!RemoveAt
<1>5. t \in Seq(Elem) /\ Len(t) = n - 1
  BY WithoutIs
<1>6. \A j \in 1 .. n - 1 : t[j] = IF j < i THEN s[j] ELSE s[j + 1]
  BY DEF Without
<1> HIDE DEF n, a, b, t
<1>9. /\ u \in Seq(Elem) /\ Len(u) = n - 1
      /\ \A j \in 1 .. n - 1 : u[j] = IF j <= i - 1 THEN a[j] ELSE b[j - (i - 1)]
  <2>1. (i - 1) + (n - i) = n - 1
    BY <1>1
  <2>2. /\ u \in Seq(Elem) /\ Len(u) = Len(a) + Len(b)
        /\ \A j \in 1 .. Len(a) + Len(b) : u[j] = IF j <= Len(a) THEN a[j] ELSE b[j - Len(a)]
    BY <1>2, <1>3, ConcatProperties
  <2> QED BY <1>2, <1>3, <2>1, <2>2
<1>10. \A j \in 1 .. n - 1 : u[j] = t[j]
  <2>1. SUFFICES ASSUME NEW j \in 1 .. n - 1 PROVE u[j] = t[j]
    OBVIOUS
  <2>2. CASE j < i
    <3>1. j \in 1 .. i - 1 /\ j <= i - 1
      BY <1>1, <2>2
    <3> QED BY <1>2, <1>6, <1>9, <2>2, <3>1
  <2>3. CASE ~ (j < i)
    <3>1. j - (i - 1) \in 1 .. n - i /\ i + (j - (i - 1)) = j + 1 /\ ~ (j <= i - 1)
      BY <1>1, <2>3
    <3>2. u[j] = b[j - (i - 1)] /\ t[j] = s[j + 1]
      BY <1>6, <1>9, <2>3, <3>1
    <3> QED BY <1>3, <3>1, <3>2
  <2> QED BY <2>2, <2>3
<1> HIDE DEF u
<1>11. u = t
  BY <1>5, <1>9, <1>10, SeqEqual
<1> QED BY <1>4, <1>11 DEF t

(* An element put first, or last.                                          *)
LEMMA EndsWith ==
  ASSUME NEW s \in Seq(Elem), NEW e \in Elem
  PROVE  <<e>> \o s = With(s, 0, e) /\ s \o <<e>> = With(s, Len(s), e)
<1> DEFINE n == Len(s)
           t == With(s, 0, e)
           w == With(s, n, e)
           u == <<e>> \o s
           v == s \o <<e>>
<1>1. n \in Nat /\ 0 \in 0 .. n /\ n \in 0 .. n /\ \A j \in 1 .. n : s[j] \in Elem
  OBVIOUS
<1>2. /\ t \in Seq(Elem) /\ Len(t) = n + 1
      /\ w \in Seq(Elem) /\ Len(w) = n + 1
  BY <1>1, WithIs
<1>3. \A j \in 1 .. n + 1 : /\ t[j] = IF j <= 0 THEN s[j] ELSE IF j = 1 THEN e ELSE s[j - 1]
                            /\ w[j] = IF j <= n THEN s[j] ELSE IF j = n + 1 THEN e ELSE s[j - 1]
  BY DEF With
<1>4. <<e>> \in Seq(Elem) /\ Len(<<e>>) = 1 /\ <<e>>[1] = e
  OBVIOUS
<1>5. /\ u \in Seq(Elem) /\ Len(u) = 1 + n
      /\ \A j \in 1 .. 1 + n : u[j] = IF j <= 1 THEN <<e>>[j] ELSE s[j - 1]
  BY <1>4, ConcatProperties
<1>6. /\ v \in Seq(Elem) /\ Len(v) = n + 1
      /\ \A j \in 1 .. n + 1 : v[j] = IF j <= n THEN s[j] ELSE <<e>>[j - n]
  BY <1>4, ConcatProperties
<1> HIDE DEF n, t, w, u, v
<1>7. \A j \in 1 .. n + 1 : u[j] = t[j]
  <2>1. \A j \in 1 .. n + 1 : ~ (j <= 0) /\ (j <= 1 => j = 1) /\ j \in 1 .. 1 + n
    BY <1>1
  <2> QED BY <1>3, <1>4, <1>5, <2>1
<1>8. \A j \in 1 .. n + 1 : v[j] = w[j]
  <2>1. \A j \in 1 .. n + 1 : ~ (j <= n) => j = n + 1 /\ j - n = 1
    BY <1>1
  <2> QED BY <1>3, <1>4, <1>6, <2>1
<1>9. 1 + n = n + 1
  BY <1>1
<1>10. u = t
  BY <1>2, <1>5, <1>7, <1>9, SeqEqual
<1>11. v = w
  BY <1>2, <1>6, <1>8, SeqEqual
<1> QED BY <1>10, <1>11 DEF t, w, u, v, n

(* The sequences that Front and Next enumerate, of the memory before a     *)
(* step and of the memory after it.                                        *)
Seen(m, q) == [l \in Lists |-> L!Forwards(m, l)] = q

LEMMA HoldsSeen ==
  ASSUME NEW m, NEW d, NEW q, Holds(m, d, q)
  PROVE  Seen(m, q)
<1>1. \A l \in Lists : L!Forwards(m, l) = q[l]
  BY ForwardsAre
<1>2. q = [l \in Lists |-> q[l]]
  BY DEF Holds
<1> QED BY <1>1, <1>2 DEF Seen

(* Who is in a list, and where.                                            *)
LEMMA InIs ==
  ASSUME NEW m, NEW d, NEW q, Holds(m, d, q), NEW l \in Lists, NEW e \in Elem \ d
  PROVE  /\ e \in L!Promise!ToSet(q[l]) <=> m.list[e] = l
         /\ \A i \in 1 .. Len(q[l]) :
              q[l][i] = e => (CHOOSE j \in 1 .. Len(q[l]) : q[l][j] = e) = i
<1>1. q[l] \in Seq(Elem) /\ DOMAIN q[l] = 1 .. Len(q[l])
  BY DEF Holds
<1>2. e \in L!Promise!ToSet(q[l]) <=> \E i \in 1 .. Len(q[l]) : q[l][i] = e
  BY <1>1 DEF L!Promise!ToSet
<1>3. (\E i \in 1 .. Len(q[l]) : q[l][i] = e) <=> m.list[e] = l
  BY NodesApart DEF Holds, Owned
<1>4. \A i, j \in 1 .. Len(q[l]) : q[l][i] = e /\ q[l][j] = e => i = j
  BY DEF Holds, Single
<1> QED BY <1>2, <1>3, <1>4

LEMMA FreeIs ==
  ASSUME NEW d, NEW q, Holds(list, d, q), NEW e \in Elem \ d, list.list[e] = Nil
  PROVE  e \in L!Promise!Free
<1>1. Seen(list, q)
  BY HoldsSeen
<1>2. \A l \in Lists : e \notin L!Promise!ToSet(q[l])
  BY InIs, NodesApart
<1> QED BY <1>1, <1>2 DEF Seen, L!Promise!Free, L!Promise!In

LEMMA ClearIs ==
  ASSUME NEW q, Holds(list, dropped, q), NEW l \in Lists, L!InitList(l)
  PROVE  L!Promise!Clear(l)
<1>1. Holds(list', dropped', [q EXCEPT ![l] = <<>>]) /\ list'.value = list.value
  BY InitListMoves
<1>2. Seen(list, q) /\ Seen(list', [q EXCEPT ![l] = <<>>])
  BY <1>1, HoldsSeen
<1>3. listResult' = [op |-> "Init", list |-> l, e |-> Nil, at |-> Nil, value |-> Zero]
  BY DEF L!InitList, L!Return
<1> QED BY <1>1, <1>2, <1>3 DEF Seen, L!Promise!Clear, L!Promise!Becomes, L!Promise!Says

LEMMA TakeIs ==
  ASSUME NEW q, Holds(list, dropped, q), NEW l \in Lists, NEW e \in Elem \ dropped, L!Remove(l, e)
  PROVE  L!Promise!Take(l, e)
<1>1. Seen(list, q) /\ (e \in L!Promise!ToSet(q[l]) <=> list.list[e] = l)
  BY HoldsSeen, InIs
<1>2. listResult' = [op |-> "Remove", list |-> l, e |-> e, at |-> Nil, value |-> list.value[e]]
  BY DEF L!Remove, L!Return
<1>3. CASE list.list[e] # l /\ Stays
  BY <1>1, <1>2, <1>3
     DEF Seen, Stays, L!Promise!Take, L!Promise!Says, L!Promise!In
<1>4. CASE list.list[e] = l
  <2>1. PICK i \in 1 .. Len(q[l]) :
          q[l][i] = e /\ Holds(list', dropped, Reduced(q, l, i)) /\ list'.value = list.value
    BY <1>4, RemoveMoves
  <2>2. Seen(list', Reduced(q, l, i))
    BY <2>1, HoldsSeen
  <2>3. (CHOOSE j \in 1 .. Len(q[l]) : q[l][j] = e) = i
    BY <2>1, InIs
  <2>4. L!Promise!RemoveAt(q[l], i) = Without(q[l], i)
    <3>1. q[l] \in Seq(Elem)
      BY DEF Holds
    <3> QED BY <3>1, RemoveAtIs
  <2>5. [o \in Lists |-> L!Forwards(list, o)][l] = q[l]
    BY <1>1 DEF Seen
  <2>6. e \in L!Promise!In(l) /\ L!Promise!At(l, e) = i
    BY <1>1, <1>4, <2>3, <2>5 DEF L!Promise!In, L!Promise!At
  <2>7. L!Promise!Becomes(l, L!Promise!RemoveAt([o \in Lists |-> L!Forwards(list, o)][l], L!Promise!At(l, e)))
    BY <1>1, <2>2, <2>4, <2>5, <2>6 DEF Seen, Reduced, L!Promise!Becomes
  <2> QED BY <1>2, <2>1, <2>6, <2>7 DEF L!Promise!Take, L!Promise!Says
<1> QED BY <1>3, <1>4, RemoveMoves

LEMMA PutIs ==
  ASSUME NEW q, Holds(list, dropped, q), NEW op, NEW l \in Lists, NEW mark,
         NEW i \in 0 .. Len(q[l]), Grows(q, op, l, mark, i)
  PROVE  L!Promise!Put(op, l, mark, i + 1)
<1>1. PICK e \in Elem \ dropped, v \in Mark :
        /\ list.list[e] = Nil /\ dropped' = dropped
        /\ listResult' = [op |-> op, list |-> l, e |-> e, at |-> mark, value |-> Zero]
        /\ Put(list', list, dropped, Extended(q, l, i, e), l, e, v)
  BY DEF Grows
<1>2. Holds(list', dropped, Extended(q, l, i, e)) /\ list'.value = [list.value EXCEPT ![e] = v]
  BY <1>1 DEF Put
<1>3. Seen(list, q) /\ Seen(list', Extended(q, l, i, e))
  BY <1>2, HoldsSeen
<1>4. e \in L!Promise!Free
  BY <1>1, FreeIs
<1>5. q[l] \in Seq(Elem)
  BY DEF Holds
<1>6. L!Promise!InsertAt(q[l], i + 1, e) = With(q[l], i, e)
  BY <1>5, InsertAtIs
<1>7. L!Promise!Becomes(l, L!Promise!InsertAt(q[l], i + 1, e))
  BY <1>3, <1>6 DEF Seen, Extended, L!Promise!Becomes
<1>8. L!Promise!Says(op, l, e, mark, Zero)
  BY <1>1 DEF L!Promise!Says
<1>9. [o \in Lists |-> L!Forwards(list, o)][l] = q[l]
  BY <1>3 DEF Seen
<1>10. /\ L!Promise!Says(op, l, e, mark, Zero)
       /\ \E w \in Mark : list'.value = [list.value EXCEPT ![e] = w]
       /\ L!Promise!Becomes(l, L!Promise!InsertAt([o \in Lists |-> L!Forwards(list, o)][l], i + 1, e))
  BY <1>2, <1>7, <1>8, <1>9
<1> QED BY <1>4, <1>10 DEF L!Promise!Put

LEMMA PutBesideIs ==
  ASSUME NEW q, Holds(list, dropped, q), NEW op, NEW l \in Lists, NEW mark \in Elem \ dropped,
         NEW k \in {-1, 0}, k = IF op = "InsertBefore" THEN -1 ELSE 0, GrowsBeside(q, op, l, mark, k)
  PROVE  L!Promise!PutBeside(op, l, mark)
<1>1. Seen(list, q) /\ (mark \in L!Promise!ToSet(q[l]) <=> list.list[mark] = l)
  BY HoldsSeen, InIs
<1>2. mark \in L!Promise!In(l) <=> list.list[mark] = l
  BY <1>1 DEF Seen, L!Promise!In
<1>3. CASE list.list[mark] # l
  <2>1. Stays /\ listResult' = [op |-> op, list |-> l, e |-> Nil, at |-> mark, value |-> Zero]
    BY <1>3 DEF GrowsBeside
  <2> QED BY <1>2, <1>3, <2>1 DEF Stays, L!Promise!PutBeside, L!Promise!Says
<1>4. CASE list.list[mark] = l
  <2>1. PICK i \in 1 .. Len(q[l]) : q[l][i] = mark /\ Grows(q, op, l, mark, i + k)
    BY <1>4 DEF GrowsBeside
  <2>2. (CHOOSE j \in 1 .. Len(q[l]) : q[l][j] = mark) = i
    BY <2>1, InIs
  <2>3. L!Promise!At(l, mark) = i
    BY <1>1, <2>2 DEF Seen, L!Promise!At
  <2>4. Len(q[l]) \in Nat
    BY DEF Holds
  <2>5. i + k \in 0 .. Len(q[l]) /\ (i + k) + 1 = i + (IF op = "InsertBefore" THEN 0 ELSE 1)
    BY <2>4
  <2>6. L!Promise!Put(op, l, mark, (i + k) + 1)
    BY <2>1, <2>5, PutIs
  <2>7. L!Promise!Put(op, l, mark, L!Promise!At(l, mark) + IF op = "InsertBefore" THEN 0 ELSE 1)
    BY <2>3, <2>5, <2>6
  <2> QED BY <1>2, <1>4, <2>7 DEF L!Promise!PutBeside
<1> QED BY <1>3, <1>4

(* Moves.  rest are the elements without the i-th.                         *)
LEMMA MovedSeq ==
  ASSUME NEW m, NEW d, NEW q, Holds(m, d, q), NEW l \in Lists, NEW i \in 1 .. Len(q[l]),
         NEW k \in 0 .. Len(q[l])
  PROVE  /\ Without(q[l], i) \in Seq(Elem) /\ Beyond(i, k) \in 0 .. Len(Without(q[l], i))
         /\ q[l][i] \in Elem /\ L!Promise!RemoveAt(q[l], i) = Without(q[l], i)
         /\ Replaced(q, l, i, k) = [q EXCEPT ![l] = With(Without(q[l], i), Beyond(i, k), q[l][i])]
<1>1. q[l] \in Seq(Elem) /\ Len(q[l]) \in Nat
  BY DEF Holds
<1>2. Without(q[l], i) \in Seq(Elem) /\ Len(Without(q[l], i)) = Len(q[l]) - 1
  BY <1>1, WithoutIs
<1>3. Beyond(i, k) \in 0 .. Len(q[l]) - 1
  BY <1>1 DEF Beyond
<1>4. Reduced(q, l, i) = [q EXCEPT ![l] = Without(q[l], i)] /\ Reduced(q, l, i)[l] = Without(q[l], i)
  BY DEF Reduced, Holds
<1>5. Replaced(q, l, i, k)
        = [[q EXCEPT ![l] = Without(q[l], i)] EXCEPT ![l] = With(Without(q[l], i), Beyond(i, k), q[l][i])]
  BY <1>4 DEF Replaced, Extended
<1>6. q[l][i] \in Elem
  BY <1>1
<1>7. L!Promise!RemoveAt(q[l], i) = Without(q[l], i)
  BY <1>1, RemoveAtIs
<1>8. Replaced(q, l, i, k) = [q EXCEPT ![l] = With(Without(q[l], i), Beyond(i, k), q[l][i])]
  BY <1>5
<1> QED BY <1>2, <1>3, <1>6, <1>7, <1>8

(* Where a mark is when another element has been taken out.                *)
LEMMA MarkIs ==
  ASSUME NEW m, NEW d, NEW q, Holds(m, d, q), NEW l \in Lists,
         NEW i \in 1 .. Len(q[l]), NEW j \in 1 .. Len(q[l]), i # j
  PROVE  (CHOOSE p \in 1 .. Len(Without(q[l], i)) : Without(q[l], i)[p] = q[l][j])
           = (IF j < i THEN j ELSE j - 1)
<1> DEFINE n == Len(q[l])
           t == Without(q[l], i)
           p == IF j < i THEN j ELSE j - 1
<1>1. q[l] \in Seq(Elem) /\ n \in Nat
  BY DEF Holds
<1>2. Len(t) = n - 1 /\ \A o \in 1 .. n - 1 : t[o] = IF o < i THEN q[l][o] ELSE q[l][o + 1]
  BY <1>1, WithoutIs DEF Without
<1>3. \A a, b \in 1 .. n : q[l][a] = q[l][b] => a = b
  BY DEF Holds, Single
<1> HIDE DEF t
<1>4. p \in 1 .. n - 1 /\ t[p] = q[l][j]
  <2>1. p \in 1 .. n - 1 /\ (j < i => p < i) /\ (~ (j < i) => ~ (p < i) /\ p + 1 = j)
    BY <1>1
  <2> QED BY <1>2, <2>1
<1>5. ASSUME NEW o \in 1 .. n - 1, t[o] = q[l][j] PROVE o = p
  <2>1. o \in 1 .. n /\ o + 1 \in 1 .. n
    BY <1>1
  <2>2. CASE o < i
    <3>1. o = j
      BY <1>2, <1>3, <1>5, <2>1, <2>2
    <3> QED BY <2>2, <3>1
  <2>3. CASE ~ (o < i)
    <3>1. o + 1 = j
      BY <1>2, <1>3, <1>5, <2>1, <2>3
    <3> QED BY <2>3, <3>1
  <2> QED BY <2>2, <2>3
<1>6. (CHOOSE o \in 1 .. n - 1 : t[o] = q[l][j]) = p
  BY <1>4, <1>5
<1> QED BY <1>2, <1>6 DEF t

(* What Moved makes of the sequence: e, the i-th, put behind what was the  *)
(* k-th node.                                                              *)
MovesTo(q, op, l, e, mark, i, k) ==
  L!Promise!Moved(op, l, e, mark) = With(Without(q[l], i), Beyond(i, k), e)

LEMMA MovesToIs ==
  ASSUME NEW q, Holds(list, dropped, q), NEW l \in Lists, NEW e \in Elem \ dropped,
         NEW i \in 1 .. Len(q[l]), q[l][i] = e
  PROVE  /\ MovesTo(q, "MoveToFront", l, e, Nil, i, 0)
         /\ MovesTo(q, "MoveToBack", l, e, Nil, i, Len(q[l]))
         /\ \A j \in 1 .. Len(q[l]) : i # j => /\ MovesTo(q, "MoveBefore", l, e, q[l][j], i, j - 1)
                                               /\ MovesTo(q, "MoveAfter", l, e, q[l][j], i, j)
<1> DEFINE s == q[l]
           n == Len(s)
           t == Without(s, i)
           view == [o \in Lists |-> L!Forwards(list, o)][l]
<1>1. s \in Seq(Elem) /\ n \in Nat /\ i \in 1 .. n
  BY DEF Holds
<1>2. t \in Seq(Elem) /\ Len(t) = n - 1
  BY <1>1, WithoutIs
<1>3. view = s
  BY HoldsSeen DEF Seen
<1>4. L!Promise!At(l, e) = i
  <2>1. (CHOOSE j \in 1 .. Len(s) : s[j] = e) = i
    BY InIs
  <2> HIDE DEF s
  <2> QED BY <1>3, <2>1 DEF L!Promise!At
<1>5. L!Promise!RemoveAt(view, L!Promise!At(l, e)) = t
  BY <1>1, <1>3, <1>4, RemoveAtIs
<1> HIDE DEF t, view
<1>6. L!Promise!Moved("MoveToFront", l, e, Nil) = <<e>> \o t
  BY <1>5 DEF L!Promise!Moved, view
<1>7. L!Promise!Moved("MoveToBack", l, e, Nil) = t \o <<e>>
  BY <1>5 DEF L!Promise!Moved, view
<1>8. ASSUME NEW mark
      PROVE  /\ L!Promise!Moved("MoveBefore", l, e, mark)
                  = L!Promise!InsertAt(t, CHOOSE j \in 1 .. Len(t) : t[j] = mark, e)
             /\ L!Promise!Moved("MoveAfter", l, e, mark)
                  = L!Promise!InsertAt(t, (CHOOSE j \in 1 .. Len(t) : t[j] = mark) + 1, e)
  BY <1>5 DEF L!Promise!Moved, view
<1>9. Beyond(i, 0) = 0 /\ Beyond(i, n) = n - 1
  BY <1>1 DEF Beyond
<1>10. MovesTo(q, "MoveToFront", l, e, Nil, i, 0) /\ MovesTo(q, "MoveToBack", l, e, Nil, i, n)
  <2>1. <<e>> \o t = With(t, 0, e) /\ t \o <<e>> = With(t, n - 1, e)
    BY <1>2, EndsWith
  <2> QED BY <1>6, <1>7, <1>9, <2>1 DEF MovesTo, t
<1>11. ASSUME NEW j \in 1 .. n, i # j
       PROVE  /\ MovesTo(q, "MoveBefore", l, e, s[j], i, j - 1)
              /\ MovesTo(q, "MoveAfter", l, e, s[j], i, j)
  <2> DEFINE p == IF j < i THEN j ELSE j - 1
  <2>1. (CHOOSE o \in 1 .. Len(t) : t[o] = s[j]) = p
    BY <1>11, MarkIs DEF t
  <2>2. p - 1 \in 0 .. n - 1 /\ p \in 0 .. n - 1 /\ (p - 1) + 1 = p
    BY <1>1, <1>11
  <2>3. Beyond(i, j - 1) = p - 1 /\ Beyond(i, j) = p
    BY <1>1, <1>11 DEF Beyond
  <2> HIDE DEF p
  <2>4. L!Promise!InsertAt(t, (p - 1) + 1, e) = With(t, p - 1, e) /\ L!Promise!InsertAt(t, p + 1, e) = With(t, p, e)
    BY <1>2, <2>2, InsertAtIs
  <2>5. L!Promise!InsertAt(t, p, e) = With(t, p - 1, e)
    BY <2>2, <2>4
  <2>6. /\ L!Promise!Moved("MoveBefore", l, e, s[j]) = L!Promise!InsertAt(t, p, e)
        /\ L!Promise!Moved("MoveAfter", l, e, s[j]) = L!Promise!InsertAt(t, p + 1, e)
    BY <1>8, <2>1
  <2> QED BY <2>3, <2>4, <2>5, <2>6 DEF MovesTo, t
<1> QED BY <1>10, <1>11

(* Whether ListSeqs moves e at all.                                        *)
Moving(l, e, mark) == e \in L!Promise!In(l) /\ (mark = Nil \/ mark \in L!Promise!In(l) \ {e})

LEMMA MovingIs ==
  ASSUME NEW q, Holds(list, dropped, q), NEW l \in Lists, NEW e \in Elem \ dropped
  PROVE  /\ Moving(l, e, Nil) <=> list.list[e] = l
         /\ \A mark \in Elem \ dropped : Moving(l, e, mark) <=> ~ L!Apart(l, e, mark)
<1>1. [o \in Lists |-> L!Forwards(list, o)][l] = q[l]
  BY HoldsSeen DEF Seen
<1>2. \A x \in Elem \ dropped : x \in L!Promise!In(l) <=> list.list[x] = l
  BY <1>1, InIs DEF L!Promise!In
<1> QED BY <1>2, NodesApart DEF Moving, L!Apart

LEMMA StayIs ==
  ASSUME NEW op, NEW l, NEW e, NEW mark, ~ Moving(l, e, mark), Stays,
         listResult' = [op |-> op, list |-> l, e |-> e, at |-> mark, value |-> Zero]
  PROVE  L!Promise!Shift(op, l, e, mark)
BY DEF Moving, Stays, L!Promise!Shift, L!Promise!Says

LEMMA ShiftIs ==
  ASSUME NEW q, Holds(list, dropped, q), NEW op, NEW l \in Lists, NEW e \in Elem \ dropped, NEW mark,
         Moving(l, e, mark), NEW i \in 1 .. Len(q[l]), q[l][i] = e, NEW k \in 0 .. Len(q[l]),
         MovesTo(q, op, l, e, mark, i, k), Shifts(q, l, i, k),
         listResult' = [op |-> op, list |-> l, e |-> e, at |-> mark, value |-> Zero]
  PROVE  L!Promise!Shift(op, l, e, mark)
<1>1. Holds(list', dropped, Replaced(q, l, i, k)) /\ list'.value = list.value
  BY DEF Shifts
<1>2. Seen(list, q) /\ Seen(list', Replaced(q, l, i, k))
  BY <1>1, HoldsSeen
<1>3. Replaced(q, l, i, k) = [q EXCEPT ![l] = With(Without(q[l], i), Beyond(i, k), e)]
  BY MovedSeq
<1>4. L!Promise!Becomes(l, L!Promise!Moved(op, l, e, mark))
  BY <1>2, <1>3 DEF Seen, MovesTo, L!Promise!Becomes
<1> QED BY <1>1, <1>4 DEF Moving, L!Promise!Shift, L!Promise!Says

LEMMA MoveToFrontIs ==
  ASSUME NEW q, Holds(list, dropped, q), NEW l \in Lists, NEW e \in Elem \ dropped,
         L!MoveToFront(l, e)
  PROVE  L!Promise!Shift("MoveToFront", l, e, Nil)
<1>1. listResult' = [op |-> "MoveToFront", list |-> l, e |-> e, at |-> Nil, value |-> Zero]
  BY DEF L!MoveToFront, L!Move, L!Return
<1>2. CASE list.list[e] # l /\ Stays
  BY <1>1, <1>2, MovingIs, StayIs
<1>3. ASSUME list.list[e] = l, NEW i \in 1 .. Len(q[l]), q[l][i] = e, Shifts(q, l, i, 0)
      PROVE  L!Promise!Shift("MoveToFront", l, e, Nil)
  <2>1. MovesTo(q, "MoveToFront", l, e, Nil, i, 0) /\ Moving(l, e, Nil)
    BY <1>3, MovesToIs, MovingIs
  <2>2. 0 \in 0 .. Len(q[l])
    BY DEF Holds
  <2> QED BY <1>1, <1>3, <2>1, <2>2, ShiftIs
<1> QED BY <1>2, <1>3, MoveToFrontMoves

LEMMA MoveToBackIs ==
  ASSUME NEW q, Holds(list, dropped, q), NEW l \in Lists, NEW e \in Elem \ dropped,
         L!MoveToBack(l, e)
  PROVE  L!Promise!Shift("MoveToBack", l, e, Nil)
<1>1. listResult' = [op |-> "MoveToBack", list |-> l, e |-> e, at |-> Nil, value |-> Zero]
  BY DEF L!MoveToBack, L!Move, L!Return
<1>2. CASE list.list[e] # l /\ Stays
  BY <1>1, <1>2, MovingIs, StayIs
<1>3. ASSUME list.list[e] = l, NEW i \in 1 .. Len(q[l]), q[l][i] = e, Shifts(q, l, i, Len(q[l]))
      PROVE  L!Promise!Shift("MoveToBack", l, e, Nil)
  <2>1. MovesTo(q, "MoveToBack", l, e, Nil, i, Len(q[l])) /\ Moving(l, e, Nil)
    BY <1>3, MovesToIs, MovingIs
  <2>2. Len(q[l]) \in 0 .. Len(q[l])
    BY DEF Holds
  <2> QED BY <1>1, <1>3, <2>1, <2>2, ShiftIs
<1> QED BY <1>2, <1>3, MoveToBackMoves

LEMMA MoveBesideIs ==
  ASSUME NEW q, Holds(list, dropped, q), NEW l \in Lists, NEW e \in Elem \ dropped,
         NEW mark \in Elem \ dropped, NEW op, NEW k \in {-1, 0},
         op = IF k = 0 THEN "MoveAfter" ELSE "MoveBefore", ShiftsBeside(q, l, e, mark, k),
         listResult' = [op |-> op, list |-> l, e |-> e, at |-> mark, value |-> Zero]
  PROVE  L!Promise!Shift(op, l, e, mark)
<1>1. CASE L!Apart(l, e, mark) /\ Stays
  BY <1>1, MovingIs, StayIs
<1>2. ASSUME ~ L!Apart(l, e, mark), NEW i \in 1 .. Len(q[l]), NEW j \in 1 .. Len(q[l]),
             q[l][i] = e, q[l][j] = mark, Shifts(q, l, i, j + k)
      PROVE  L!Promise!Shift(op, l, e, mark)
  <2>1. i # j
    BY <1>2 DEF L!Apart
  <2>2. Len(q[l]) \in Nat /\ j + 0 = j /\ j + (-1) = j - 1 /\ j + k \in 0 .. Len(q[l])
    BY DEF Holds
  <2>3. MovesTo(q, "MoveBefore", l, e, mark, i, j - 1) /\ MovesTo(q, "MoveAfter", l, e, mark, i, j)
    BY <1>2, <2>1, MovesToIs
  <2>4. MovesTo(q, op, l, e, mark, i, j + k)
    BY <2>2, <2>3
  <2>5. Moving(l, e, mark)
    BY <1>2, MovingIs
  <2> QED BY <1>2, <2>2, <2>4, <2>5, ShiftIs
<1> QED BY <1>1, <1>2 DEF ShiftsBeside, L!Apart

(* new are elements that are in no list, each once, and their values those *)
(* of s.                                                                   *)
Copied(s, new) ==
  /\ new \in [1 .. Len(s) -> Elem \ dropped] /\ new \in Seq(Elem)
  /\ \A i, j \in 1 .. Len(s) : new[i] = new[j] => i = j
  /\ \A j \in 1 .. Len(s) : list.list[new[j]] = Nil /\ list'.value[new[j]] = list.value[s[j]]
  /\ \A e \in Elem : (\A j \in 1 .. Len(s) : new[j] # e) => list'.value[e] = list.value[e]

LEMMA CopiedValues ==
  ASSUME NEW s \in Seq(Elem), NEW new, Copied(s, new), list' \in ListType
  PROVE  list'.value =
           [e \in Elem |-> IF e \in L!Promise!ToSet(new)
                           THEN list.value[s[L!Promise!Inverse(new, DOMAIN new, Elem)[e]]]
                           ELSE list.value[e]]
<1> DEFINE n == Len(s)
           inv == L!Promise!Inverse(new, DOMAIN new, Elem)
<1>1. n \in Nat /\ DOMAIN new = 1 .. n
  BY DEF Copied
<1>2. /\ L!Promise!ToSet(new) = {new[j] : j \in 1 .. n}
      /\ L!Promise!Range(new) = {new[j] : j \in 1 .. n}
  BY <1>1 DEF L!Promise!ToSet, L!Promise!Range
<1>3. \A i, j \in 1 .. n : new[i] = new[j] => i = j
  BY DEF Copied
<1>4. ASSUME NEW e \in Elem
      PROVE  inv[e] = CHOOSE i \in 1 .. n : e \in {new[j] : j \in 1 .. n} => new[i] = e
  BY <1>1, <1>2 DEF L!Promise!Inverse
<1> HIDE DEF inv, n
<1>5. ASSUME NEW j \in 1 .. n, new[j] \in Elem PROVE inv[new[j]] = j
  <2> DEFINE e == new[j]
  <2>1. e \in {new[i] : i \in 1 .. n}
    OBVIOUS
  <2>2. \A i \in 1 .. n : new[i] = e => i = j
    BY <1>3
  <2>3. (CHOOSE i \in 1 .. n : e \in {new[a] : a \in 1 .. n} => new[i] = e) = j
    BY <2>1, <2>2
  <2> QED BY <1>4, <1>5, <2>3
<1>6. list'.value = [e \in Elem |-> list'.value[e]]
  BY DEF ListType
<1>7. ASSUME NEW e \in Elem
      PROVE  list'.value[e] = IF e \in L!Promise!ToSet(new) THEN list.value[s[inv[e]]] ELSE list.value[e]
  <2>1. CASE e \in L!Promise!ToSet(new)
    <3>1. PICK j \in 1 .. n : new[j] = e
      BY <1>2, <2>1
    <3>2. inv[e] = j
      BY <1>5, <3>1
    <3> QED BY <2>1, <3>1, <3>2 DEF Copied, n
  <2>2. CASE e \notin L!Promise!ToSet(new)
    BY <1>2, <2>2 DEF Copied, n
  <2> QED BY <2>1, <2>2
<1> QED BY <1>6, <1>7 DEF inv

LEMMA PutListIs ==
  ASSUME NEW q, Holds(list, dropped, q), NEW l \in Lists, NEW o \in Lists, NEW op, NEW new,
         Copied(q[o], new),
         Holds(list', dropped', [q EXCEPT ![l] = IF op = "PushBackList" THEN q[l] \o new ELSE new \o q[l]]),
         listResult' = [op |-> op, list |-> l, e |-> Nil, at |-> o, value |-> Zero]
  PROVE  L!Promise!PutList(op, l, o)
<1> DEFINE r == [q EXCEPT ![l] = IF op = "PushBackList" THEN q[l] \o new ELSE new \o q[l]]
           view == [k \in Lists |-> L!Forwards(list, k)]
<1>1. Seen(list, q) /\ Seen(list', r)
  BY HoldsSeen
<1>2. view[o] = q[o] /\ view[l] = q[l] /\ view = q /\ [k \in Lists |-> L!Forwards(list', k)] = r
  BY <1>1 DEF Seen
<1>3. q[o] \in Seq(Elem) /\ list' \in ListType
  BY DEF Holds
<1> HIDE DEF view
<1>4. new \in L!Promise!Injection(1 .. Len(view[o]), L!Promise!Free)
  <2>1. new \in [1 .. Len(q[o]) -> L!Promise!Free]
    <3>1. \A j \in 1 .. Len(q[o]) : new[j] \in L!Promise!Free
      BY FreeIs DEF Copied
    <3> QED BY <3>1 DEF Copied
  <2>2. L!Promise!IsInjective(new)
    BY <2>1 DEF Copied, L!Promise!IsInjective
  <2> QED BY <1>2, <2>1, <2>2 DEF L!Promise!Injection
<1>5. L!Promise!Becomes(l, IF op = "PushBackList" THEN view[l] \o new ELSE new \o view[l])
  BY <1>2 DEF view, L!Promise!Becomes
<1>6. list'.value =
        [e \in Elem |-> IF e \in L!Promise!ToSet(new)
                        THEN list.value[view[o][L!Promise!Inverse(new, DOMAIN new, Elem)[e]]]
                        ELSE list.value[e]]
  BY <1>2, <1>3, CopiedValues
<1>7. L!Promise!Says(op, l, Nil, o, Zero)
  BY DEF L!Promise!Says
<1> QED BY <1>4, <1>5, <1>6, <1>7 DEF view, L!Promise!PutList

LEMMA BehindAll ==
  ASSUME NEW s \in Seq(Elem), NEW n \in Nat, NEW new \in Seq(Elem), Len(new) = n
  PROVE  Behind(s, new, n) = s \o new
<1> DEFINE t == Behind(s, new, n)
           u == s \o new
           w == Len(s)
<1>1. w \in Nat /\ new \in [1 .. n -> Elem] /\ n \in 0 .. n
  OBVIOUS
<1>2. t \in Seq(Elem) /\ Len(t) = w + n
  BY <1>1, BehindIs
<1>3. \A j \in 1 .. w + n : t[j] = IF j <= w THEN s[j] ELSE new[j - w]
  BY DEF Behind
<1>4. u \in Seq(Elem) /\ Len(u) = w + n
      /\ \A j \in 1 .. w + n : u[j] = IF j <= w THEN s[j] ELSE new[j - w]
  BY ConcatProperties
<1> HIDE DEF t, u, w
<1>5. u = t
  BY <1>2, <1>3, <1>4, SeqEqual
<1> QED BY <1>5 DEF t, u

LEMMA AheadAll ==
  ASSUME NEW s \in Seq(Elem), NEW n \in Nat, NEW new \in Seq(Elem), Len(new) = n
  PROVE  Turned(new) \in Seq(Elem) /\ Ahead(s, new, n) = Turned(new) \o s
<1> DEFINE t == Ahead(s, new, n)
           v == Turned(new)
           u == v \o s
           w == Len(s)
<1>1. w \in Nat /\ new \in [1 .. n -> Elem] /\ n \in 0 .. n
  OBVIOUS
<1>2. t \in Seq(Elem) /\ Len(t) = w + n
  BY <1>1, AheadIs
<1>3. \A j \in 1 .. w + n : t[j] = IF j <= n THEN new[n + 1 - j] ELSE s[j - n]
  BY DEF Ahead
<1>4. v \in Seq(Elem) /\ Len(v) = n /\ \A j \in 1 .. n : v[j] = new[n + 1 - j]
  <2>1. v \in [1 .. n -> Elem] /\ Len(v) = n /\ \A j \in 1 .. n : v[j] = new[n + 1 - j]
    BY TurnedIs
  <2>2. v \in Seq(Elem)
    <3> HIDE DEF v
    <3> QED BY <2>1, SeqDef
  <2> QED BY <2>1, <2>2
<1> HIDE DEF t, v, w
<1>5. u \in Seq(Elem) /\ Len(u) = n + w
      /\ \A j \in 1 .. n + w : u[j] = IF j <= n THEN v[j] ELSE s[j - n]
  BY <1>4, ConcatProperties DEF w
<1>6. n + w = w + n
  BY <1>1
<1>7. \A j \in 1 .. w + n : u[j] = t[j]
  <2>1. \A j \in 1 .. w + n : j <= n => j \in 1 .. n
    BY <1>1
  <2> QED BY <1>3, <1>4, <1>5, <1>6, <2>1
<1> HIDE DEF u
<1>8. u = t
  BY <1>2, <1>5, <1>6, <1>7, SeqEqual
<1> QED BY <1>4, <1>8 DEF t, u, v

LEMMA PushBackListIs ==
  ASSUME NEW q, Holds(list, dropped, q), NEW l \in Lists, L!PushBackList(l)
  PROVE  \E o \in Lists : L!Promise!PutList("PushBackList", l, o)
<1>1. ASSUME NEW o \in Lists, NEW new, Pushes(q, l, o, new),
             listResult' = [op |-> "PushBackList", list |-> l, e |-> Nil, at |-> o, value |-> Zero],
             Copies(list', list, dropped, Backed(q, l, new, Len(q[o])), l, q[o], new, Len(q[o]))
      PROVE  L!Promise!PutList("PushBackList", l, o)
  <2> DEFINE n == Len(q[o])
  <2>1. q[l] \in Seq(Elem) /\ q[o] \in Seq(Elem) /\ n \in Nat
    BY DEF Holds
  <2>2. /\ new \in [1 .. n -> Elem \ dropped] /\ Len(new) = n
        /\ \A i, j \in 1 .. n : new[i] = new[j] => i = j
        /\ \A j \in 1 .. n : list.list[new[j]] = Nil
    BY <1>1 DEF Pushes, Fresh
  <2>3. new \in Seq(Elem)
    BY <2>1, <2>2, SeqDef
  <2>4. Copied(q[o], new)
    BY <1>1, <2>2, <2>3 DEF Copies, Copied
  <2>5. Behind(q[l], new, n) = q[l] \o new
    BY <2>1, <2>2, <2>3, BehindAll
  <2>6. Holds(list', dropped', [q EXCEPT ![l] = q[l] \o new])
    BY <1>1, <2>5 DEF Copies, Pushes, Backed
  <2>7. Holds(list', dropped',
              [q EXCEPT ![l] = IF "PushBackList" = "PushBackList" THEN q[l] \o new ELSE new \o q[l]])
    BY <2>6
  <2> QED BY <1>1, <2>4, <2>7, PutListIs
<1> QED BY <1>1, PushBackListMoves

LEMMA PushFrontListIs ==
  ASSUME NEW q, Holds(list, dropped, q), NEW l \in Lists, L!PushFrontList(l)
  PROVE  \E o \in Lists : L!Promise!PutList("PushFrontList", l, o)
<1>1. ASSUME NEW o \in Lists, NEW new, Pushes(q, l, o, new),
             listResult' = [op |-> "PushFrontList", list |-> l, e |-> Nil, at |-> o, value |-> Zero],
             Copies(list', list, dropped, Fronted(q, l, new, Len(q[o])), l, Turned(q[o]), new, Len(q[o]))
      PROVE  L!Promise!PutList("PushFrontList", l, o)
  <2> DEFINE n == Len(q[o])
             turned == Turned(new)
  <2>1. q[l] \in Seq(Elem) /\ q[o] \in Seq(Elem) /\ n \in Nat
    BY DEF Holds
  <2>2. /\ new \in [1 .. n -> Elem \ dropped] /\ Len(new) = n
        /\ \A i, j \in 1 .. n : new[i] = new[j] => i = j
        /\ \A j \in 1 .. n : list.list[new[j]] = Nil
    BY <1>1 DEF Pushes, Fresh
  <2>3. new \in Seq(Elem)
    BY <2>1, <2>2, SeqDef
  <2>4. turned \in Seq(Elem) /\ Ahead(q[l], new, n) = turned \o q[l]
    BY <2>1, <2>2, <2>3, AheadAll
  <2>5. turned = [j \in 1 .. n |-> new[n + 1 - j]]
    BY <2>2 DEF Turned
  <2>6. \A j \in 1 .. n : Turned(q[o])[j] = q[o][n + 1 - j]
    BY <2>1, TurnedIs
  <2>7. Copied(q[o], turned)
    <3> HIDE DEF n, turned
    <3>1. ASSUME NEW j \in 1 .. n PROVE n + 1 - j \in 1 .. n /\ n + 1 - (n + 1 - j) = j
      BY <2>1
    <3>2. turned \in [1 .. n -> Elem \ dropped]
      BY <2>2, <2>5, <3>1
    <3>3. \A i, j \in 1 .. n : turned[i] = turned[j] => i = j
      <4>1. SUFFICES ASSUME NEW i \in 1 .. n, NEW j \in 1 .. n, turned[i] = turned[j] PROVE i = j
        OBVIOUS
      <4>2. n + 1 - i = n + 1 - j
        BY <2>2, <2>5, <3>1, <4>1
      <4> QED BY <2>1, <4>2
    <3>4. ASSUME NEW j \in 1 .. n
          PROVE  list.list[turned[j]] = Nil /\ list'.value[turned[j]] = list.value[q[o][j]]
      <4>1. turned[j] = new[n + 1 - j] /\ Turned(q[o])[n + 1 - j] = q[o][j]
        BY <2>5, <2>6, <3>1
      <4>2. list'.value[new[n + 1 - j]] = list.value[Turned(q[o])[n + 1 - j]]
        BY <1>1, <3>1 DEF Copies, n
      <4> QED BY <2>2, <3>1, <4>1, <4>2
    <3>5. ASSUME NEW e \in Elem, \A j \in 1 .. n : turned[j] # e
          PROVE  list'.value[e] = list.value[e]
      <4>1. ASSUME NEW j \in 1 .. n PROVE new[j] # e
        <5>1. turned[n + 1 - j] = new[j]
          BY <2>5, <3>1
        <5> QED BY <3>1, <3>5, <5>1
      <4> QED BY <1>1, <4>1 DEF Copies, n
    <3> QED BY <2>4, <3>2, <3>3, <3>4, <3>5 DEF Copied, n
  <2>8. Holds(list', dropped', [q EXCEPT ![l] = turned \o q[l]])
    BY <1>1, <2>4 DEF Copies, Pushes, Fronted
  <2> HIDE DEF turned
  <2>9. Holds(list', dropped',
              [q EXCEPT ![l] = IF "PushFrontList" = "PushBackList" THEN q[l] \o turned ELSE turned \o q[l]])
    BY <2>8
  <2> QED BY <1>1, <2>7, <2>9, PutListIs
<1> QED BY <1>1, PushFrontListMoves

LEMMA SeqsInit == ASSUME L!Init PROVE L!Promise!Init
<1>1. Seen(list, [l \in Lists |-> <<>>])
  BY ListInit, HoldsSeen
<1>2. /\ list.value = [e \in Elem |-> Zero]
      /\ listResult = [op |-> "none", list |-> Nil, e |-> Nil, at |-> Nil, value |-> Zero]
  BY DEF L!Init, L!NoResult
<1> QED BY <1>1, <1>2 DEF Seen, L!Promise!Init

LEMMA SeqsNext == ASSUME ListInv, L!Next PROVE L!Promise!Next
<1>1. PICK q : Holds(list, dropped, q)
  BY DEF ListInv
<1>2. PICK l \in Lists :
        \/ L!InitList(l) \/ L!PushFront(l) \/ L!PushBack(l)
        \/ L!PushBackList(l) \/ L!PushFrontList(l)
        \/ \E e \in L!Handles :
             \/ L!Remove(l, e) \/ L!MoveToFront(l, e) \/ L!MoveToBack(l, e)
             \/ L!InsertBefore(l, e) \/ L!InsertAfter(l, e)
             \/ \E mark \in L!Handles : L!MoveBefore(l, e, mark) \/ L!MoveAfter(l, e, mark)
  BY DEF L!Next
<1>3. L!Handles = Elem \ dropped
  BY DEF L!Handles
<1>4. q[l] \in Seq(Elem) /\ Len(q[l]) \in Nat /\ [k \in Lists |-> L!Forwards(list, k)][l] = q[l]
  BY <1>1, HoldsSeen DEF Seen, Holds
<1>5. CASE L!InitList(l)
  BY <1>1, <1>5, ClearIs DEF L!Promise!Next
<1>6. CASE L!PushFront(l)
  <2>1. 0 \in 0 .. Len(q[l]) /\ 0 + 1 = 1
    BY <1>4
  <2>2. L!Promise!Put("PushFront", l, Nil, 0 + 1)
    BY <1>1, <1>6, <2>1, PushFrontMoves, PutIs
  <2>3. L!Promise!Put("PushFront", l, Nil, 1)
    BY <2>1, <2>2
  <2> QED BY <2>3 DEF L!Promise!Next
<1>7. CASE L!PushBack(l)
  <2>1. Len(q[l]) \in 0 .. Len(q[l])
    BY <1>4
  <2>2. L!Promise!Put("PushBack", l, Nil, Len(q[l]) + 1)
    BY <1>1, <1>7, <2>1, PushBackMoves, PutIs
  <2>3. L!Promise!Put("PushBack", l, Nil, Len([k \in Lists |-> L!Forwards(list, k)][l]) + 1)
    BY <1>4, <2>2
  <2> QED BY <2>3 DEF L!Promise!Next
<1>8. CASE L!PushBackList(l)
  BY <1>1, <1>8, PushBackListIs DEF L!Promise!Next
<1>9. CASE L!PushFrontList(l)
  BY <1>1, <1>9, PushFrontListIs DEF L!Promise!Next
<1>10. ASSUME NEW e \in Elem \ dropped, L!Remove(l, e) PROVE L!Promise!Next
  BY <1>1, <1>10, TakeIs DEF L!Promise!Next
<1>11. ASSUME NEW e \in Elem \ dropped, L!MoveToFront(l, e) PROVE L!Promise!Next
  BY <1>1, <1>11, MoveToFrontIs DEF L!Promise!Next
<1>12. ASSUME NEW e \in Elem \ dropped, L!MoveToBack(l, e) PROVE L!Promise!Next
  BY <1>1, <1>12, MoveToBackIs DEF L!Promise!Next
<1>13. ASSUME NEW e \in Elem \ dropped, L!InsertBefore(l, e) PROVE L!Promise!Next
  <2>1. L!Promise!PutBeside("InsertBefore", l, e)
    BY <1>1, <1>13, InsertBeforeMoves, PutBesideIs
  <2> QED BY <2>1 DEF L!Promise!Next
<1>14. ASSUME NEW e \in Elem \ dropped, L!InsertAfter(l, e) PROVE L!Promise!Next
  <2>1. L!Promise!PutBeside("InsertAfter", l, e)
    BY <1>1, <1>14, InsertAfterMoves, PutBesideIs
  <2> QED BY <2>1 DEF L!Promise!Next
<1>15. ASSUME NEW e \in Elem \ dropped, NEW mark \in Elem \ dropped, L!MoveBefore(l, e, mark)
       PROVE  L!Promise!Next
  <2>1. listResult' = [op |-> "MoveBefore", list |-> l, e |-> e, at |-> mark, value |-> Zero]
    BY <1>15 DEF L!MoveBefore, L!Move, L!Return
  <2>2. L!Promise!Shift("MoveBefore", l, e, mark)
    BY <1>1, <1>15, <2>1, MoveBeforeMoves, MoveBesideIs
  <2> QED BY <2>2 DEF L!Promise!Next
<1>16. ASSUME NEW e \in Elem \ dropped, NEW mark \in Elem \ dropped, L!MoveAfter(l, e, mark)
       PROVE  L!Promise!Next
  <2>1. listResult' = [op |-> "MoveAfter", list |-> l, e |-> e, at |-> mark, value |-> Zero]
    BY <1>16 DEF L!MoveAfter, L!Move, L!Return
  <2>2. L!Promise!Shift("MoveAfter", l, e, mark)
    BY <1>1, <1>16, <2>1, MoveAfterMoves, MoveBesideIs
  <2> QED BY <2>2 DEF L!Promise!Next
<1> QED BY <1>2, <1>3, <1>5, <1>6, <1>7, <1>8, <1>9, <1>10, <1>11, <1>12, <1>13, <1>14, <1>15, <1>16

(* IsListSeqs: List implements ListSeqs.  For any lists and elements,      *)
(* every method of list.go does to the sequence that Front and Next        *)
(* enumerate what its comment says and nothing to the other lists; moves   *)
(* among neighbours, marks of other lists and copies of a list to itself   *)
(* are no exceptions.                                                      *)
THEOREM ListsAreSeqs == Spec => IsListSeqs
<1> DEFINE Inv == ListInv
<1>1. Init => L!Promise!Init
  BY SeqsInit DEF Init
<1>2. Inv /\ [Next]_<<kind, lists, rings, heaps, repeats>> => [L!Promise!Next]_(L!Promise!vars)
  <2>1. Inv /\ ListStep => L!Promise!Next
    BY SeqsNext DEF ListStep
  <2>2. UNCHANGED lists => UNCHANGED L!Promise!vars
    BY DEF lists, L!Promise!vars
  <2> QED BY <2>1, <2>2 DEF Next, RingStep, HeapStep, RepeatStep
<1> HIDE DEF Inv
<1>3. Spec => []Inv
  BY ListInvariant DEF Inv
<1> QED BY <1>1, <1>2, <1>3, PTL DEF Spec, IsListSeqs, L!IsListSeqs, L!Promise!Spec

-----------------------------------------------------------------------------
(* Rings are cycles.  The links of m turn through s: from each element to  *)
(* the one after it, and from the last to the first.                       *)

Turning(m, s) ==
  /\ s \in Seq(Elem) /\ Len(s) > 0
  /\ \A i, j \in 1 .. Len(s) : s[i] = s[j] => i = j
  /\ \A i \in 1 .. Len(s) : m.next[s[i]] = s[OneOn(i, Len(s))]

(* Or s is a zero value, which is not linked yet.                          *)
Ringed(m, s) ==
  \/ Turning(m, s)
  \/ s \in Seq(Elem) /\ Len(s) = 1 /\ m.next[s[1]] = Nil

Among(e, s) == \E i \in 1 .. Len(s) : s[i] = e

(* Positions, when a walk goes on or back by one.                          *)
LEMMA Remainder ==
  ASSUME NEW n \in Nat \ {0}, NEW q \in Int, NEW d \in 0 .. n - 1, NEW x \in Int, x = n * q + d
  PROVE  x % n = d
OBVIOUS

LEMMA OneMore ==
  ASSUME NEW n \in Nat \ {0}, NEW x \in Int
  PROVE  /\ x % n \in 0 .. n - 1 /\ (x % n) + 1 \in 1 .. n
         /\ OneOn((x % n) + 1, n) = ((x + 1) % n) + 1
<1>1. x % n \in 0 .. n - 1 /\ (x + 1) % n \in 0 .. n - 1
  OBVIOUS
<1>2. (x + 1) % n = IF x % n = n - 1 THEN 0 ELSE (x % n) + 1
  <2> DEFINE q == x \div n
             d == x % n
  <2>1. x = n * q + d /\ q \in Int /\ d \in 0 .. n - 1
    BY <1>1
  <2> HIDE DEF q, d
  <2>2. CASE d = n - 1
    <3>1. x + 1 = n * (q + 1) + 0 /\ q + 1 \in Int /\ 0 \in 0 .. n - 1 /\ x + 1 \in Int
      BY <2>1, <2>2
    <3>2. (x + 1) % n = 0
      BY <3>1, Remainder
    <3> QED BY <2>2, <3>2 DEF d
  <2>3. CASE d # n - 1
    <3>1. x + 1 = n * q + (d + 1) /\ d + 1 \in 0 .. n - 1 /\ x + 1 \in Int
      BY <2>1, <2>3
    <3>2. (x + 1) % n = d + 1
      BY <2>1, <3>1, Remainder
    <3> QED BY <2>3, <3>2 DEF d
  <2> QED BY <2>2, <2>3
<1>3. OneOn((x % n) + 1, n) = IF (x % n) + 1 = n THEN 1 ELSE (x % n) + 2
  <2> DEFINE i == (x % n) + 1
  <2>1. i \in 1 .. n /\ i + 1 = (x % n) + 2
    BY <1>1
  <2> HIDE DEF i
  <2>2. OneOn(i, n) = IF i = n THEN 1 ELSE i + 1
    BY <2>1, OneTurn
  <2> QED BY <2>1, <2>2 DEF i
<1> QED BY <1>1, <1>2, <1>3

LEMMA TurningBack ==
  ASSUME NEW m, Closed(m), NEW s, Turning(m, s), NEW i \in 1 .. Len(s)
  PROVE  /\ OneOn(i, Len(s)) \in 1 .. Len(s)
         /\ m.prev[s[OneOn(i, Len(s))]] = s[i] /\ s[i] \in Elem /\ m.next[s[i]] \in Elem
<1>1. Len(s) \in Nat \ {0} /\ \A j \in 1 .. Len(s) : s[j] \in Elem
  BY DEF Turning
<1>2. OneOn(i, Len(s)) \in 1 .. Len(s)
  BY <1>1, OneTurn
<1>3. m.next[s[i]] \in Elem /\ m.next[s[i]] = s[OneOn(i, Len(s))]
  BY <1>1, <1>2 DEF Turning
<1> QED BY <1>1, <1>2, <1>3, NilApart DEF Closed, Mutual

(* A walk is what every function that takes its steps says.                *)
Steps(w, f, r, n) ==
  w = [k \in 0 .. n |-> w[k]] /\ w[0] = r /\ \A k \in 1 .. n : w[k] = f[w[k - 1]]

LEMMA WalkedAs ==
  ASSUME NEW f, NEW r, NEW n \in Nat, NEW w, Steps(w, f, r, n)
  PROVE  R!Walked(f, r, n) = w[n]
<1> DEFINE Is(at) == at = [i \in 0 .. n |-> IF i = 0 THEN r ELSE f[at[i - 1]]]
           walk == CHOOSE at : Is(at)
           D == [k \in 0 .. n |-> {w[k]}]
<1>1. \A k \in 0 .. n : k # 0 => k \in 1 .. n /\ k - 1 \in 0 .. n
  OBVIOUS
<1>2. Is(w)
  BY <1>1 DEF Steps
<1>3. Is(walk)
  BY <1>2
<1> HIDE DEF walk
<1>4. walk[0] = r /\ \A k \in 1 .. n : walk[k] = f[walk[k - 1]]
  BY <1>3
<1>5. 0 \in 0 .. n /\ \A k \in 1 .. n : k - 1 \in 0 .. n /\ k \in 0 .. n
  OBVIOUS
<1>6. \A k \in 0 .. n : D[k] = {w[k]}
  OBVIOUS
<1> HIDE DEF D
<1>7. walk[0] \in D[0] /\ \A k \in 1 .. n : walk[k - 1] \in D[k - 1] => walk[k] \in D[k]
  <2>1. w[0] = r /\ \A k \in 1 .. n : w[k] = f[w[k - 1]]
    BY DEF Steps
  <2>2. walk[0] \in D[0]
    BY <1>4, <1>5, <1>6, <2>1
  <2>3. ASSUME NEW k \in 1 .. n, walk[k - 1] \in D[k - 1] PROVE walk[k] \in D[k]
    <3>1. walk[k - 1] = w[k - 1]
      BY <1>5, <1>6, <2>3
    <3> QED BY <1>4, <1>5, <1>6, <2>1, <3>1
  <2> QED BY <2>2, <2>3
<1>8. \A k \in 0 .. n : walk[k] \in D[k]
  BY <1>7, LoopHolds
<1>9. R!Walked(f, r, n) = walk[n]
  BY DEF R!Walked, walk
<1>10. n \in 0 .. n
  OBVIOUS
<1> QED BY <1>6, <1>8, <1>9, <1>10

(* Move, in either direction and round as often as it takes.               *)
LEMMA MovedToIs ==
  ASSUME NEW m, Closed(m), NEW s, Turning(m, s), NEW n \in Int
  PROVE  /\ R!MovedTo(m, s[1], n) = s[(n % Len(s)) + 1]
         /\ n \in Nat => R!Walked(m.next, s[1], n) = s[(n % Len(s)) + 1]
<1> DEFINE size == Len(s)
           place(x) == (x % size) + 1
<1>1. size \in Nat \ {0}
  BY DEF Turning
<1>2. ASSUME NEW x \in Int
      PROVE  /\ m.next[s[place(x)]] = s[place(x + 1)]
             /\ m.prev[s[place(x + 1)]] = s[place(x)]
  <2>1. place(x) \in 1 .. size /\ OneOn(place(x), size) = place(x + 1)
    BY <1>1, OneMore
  <2> QED BY <2>1, TurningBack DEF Turning
<1>3. place(0) = 1
  BY <1>1
<1> HIDE DEF size, place
<1>4. ASSUME NEW k \in Nat PROVE R!Walked(m.next, s[1], k) = s[place(k)]
  <2> DEFINE w == [i \in 0 .. k |-> s[place(i)]]
  <2>1. \A i \in 1 .. k : i - 1 \in 0 .. k /\ i \in 0 .. k /\ i - 1 \in Int /\ (i - 1) + 1 = i
    OBVIOUS
  <2>2. w = [i \in 0 .. k |-> w[i]] /\ w[0] = s[1] /\ w[k] = s[place(k)]
    BY <1>3
  <2>3. \A i \in 1 .. k : w[i] = m.next[w[i - 1]]
    BY <1>2, <2>1
  <2>4. Steps(w, m.next, s[1], k)
    BY <2>2, <2>3 DEF Steps
  <2> HIDE DEF w
  <2> QED BY <2>2, <2>4, WalkedAs
<1>5. ASSUME NEW k \in Nat PROVE R!Walked(m.prev, s[1], k) = s[place(0 - k)]
  <2> DEFINE w == [i \in 0 .. k |-> s[place(0 - i)]]
  <2>1. /\ \A i \in 1 .. k : i - 1 \in 0 .. k /\ i \in 0 .. k /\ 0 - i \in Int /\ (0 - i) + 1 = 0 - (i - 1)
        /\ 0 - 0 = 0
    OBVIOUS
  <2>2. w = [i \in 0 .. k |-> w[i]] /\ w[0] = s[1] /\ w[k] = s[place(0 - k)]
    BY <1>3, <2>1
  <2>3. \A i \in 1 .. k : w[i] = m.prev[w[i - 1]]
    BY <1>2, <2>1
  <2>4. Steps(w, m.prev, s[1], k)
    BY <2>2, <2>3 DEF Steps
  <2> HIDE DEF w
  <2> QED BY <2>2, <2>4, WalkedAs
<1>6. R!MovedTo(m, s[1], n) = s[place(n)]
  <2>1. CASE n < 0
    <3>1. -n \in Nat /\ 0 - (-n) = n
      BY <2>1
    <3>2. R!Walked(m.prev, s[1], -n) = s[place(0 - (-n))]
      BY <1>5, <3>1
    <3> QED BY <2>1, <3>1, <3>2 DEF R!MovedTo
  <2>2. CASE ~ (n < 0)
    <3>1. n \in Nat
      BY <2>2
    <3> QED BY <1>4, <2>2, <3>1 DEF R!MovedTo
  <2> QED BY <2>1, <2>2
<1> QED BY <1>4, <1>6 DEF place, size

(* From turns a ring to its i-th element.                                  *)
Place(i, j, n) == IF i + j - 1 <= n THEN i + j - 1 ELSE i + j - 1 - n

LEMMA PlaceOnCircle ==
  ASSUME NEW n \in Nat \ {0}, NEW i \in 1 .. n, NEW j \in 1 .. n
  PROVE  /\ Place(i, j, n) \in 1 .. n /\ Place(i, 1, n) = i
         /\ \A k \in 1 .. n : Place(i, j, n) = Place(i, k, n) => j = k
         /\ \E k \in 1 .. n : Place(i, k, n) = j
<1>1. Place(i, j, n) \in 1 .. n /\ Place(i, 1, n) = i
  BY DEF Place
<1>4. \A k \in 1 .. n : Place(i, j, n) = Place(i, k, n) => j = k
  BY DEF Place
<1>5. \E k \in 1 .. n : Place(i, k, n) = j
  <2> DEFINE k == IF j >= i THEN j - i + 1 ELSE j - i + 1 + n
  <2>1. k \in 1 .. n /\ Place(i, k, n) = j
    BY DEF Place
  <2> QED BY <2>1
<1> QED BY <1>1, <1>4, <1>5

LEMMA PlaceOneOn ==
  ASSUME NEW n \in Nat \ {0}, NEW i \in 1 .. n, NEW j \in 1 .. n
  PROVE  OneOn(Place(i, j, n), n) = Place(i, OneOn(j, n), n)
<1>1. Place(i, j, n) \in 1 .. n
  BY PlaceOnCircle
<1>2. \A k \in 1 .. n : OneOn(k, n) = IF k = n THEN 1 ELSE k + 1
  BY OneTurn
<1> QED BY <1>1, <1>2 DEF Place

LEMMA FromIs ==
  ASSUME NEW s \in Seq(Elem), NEW i \in 1 .. Len(s)
  PROVE  /\ R!Promise!From(s, i) \in Seq(Elem) /\ Len(R!Promise!From(s, i)) = Len(s)
         /\ \A j \in 1 .. Len(s) : R!Promise!From(s, i)[j] = s[Place(i, j, Len(s))]
<1> DEFINE n == Len(s)
           a == SubSeq(s, i, n)
           b == SubSeq(s, 1, i - 1)
           t == R!Promise!From(s, i)
<1>1. n \in Nat /\ i \in 1 .. n /\ \A j \in 1 .. n : s[j] \in Elem
  OBVIOUS
<1>2. /\ a \in Seq(Elem) /\ Len(a) = n - i + 1 /\ \A j \in 1 .. n - i + 1 : a[j] = s[i + j - 1]
  <2>1. \A j \in i .. n : s[j] \in Elem
    BY <1>1
  <2> HIDE DEF n
  <2>2. /\ a \in Seq(Elem) /\ Len(a) = IF i <= n THEN n - i + 1 ELSE 0
        /\ \A j \in 1 .. n - i + 1 : a[j] = s[i + j - 1]
    BY <1>1, <2>1, SubSeqProperties
  <2> QED BY <1>1, <2>2
<1>3. /\ b \in Seq(Elem) /\ Len(b) = i - 1 /\ \A j \in 1 .. i - 1 : b[j] = s[j]
  <2>1. \A j \in 1 .. i - 1 : s[j] \in Elem
    BY <1>1
  <2> HIDE DEF n
  <2>2. /\ b \in Seq(Elem) /\ Len(b) = IF 1 <= i - 1 THEN (i - 1) - 1 + 1 ELSE 0
        /\ \A j \in 1 .. (i - 1) - 1 + 1 : b[j] = s[1 + j - 1]
    BY <1>1, <2>1, SubSeqProperties
  <2> QED BY <1>1, <2>2
<1>4. t = a \o b
  BY DEF R!Promise!From
<1> HIDE DEF n, a, b, t
<1>5. t \in Seq(Elem) /\ Len(t) = (n - i + 1) + (i - 1)
      /\ \A j \in 1 .. (n - i + 1) + (i - 1) :
           t[j] = IF j <= n - i + 1 THEN a[j] ELSE b[j - (n - i + 1)]
  BY <1>2, <1>3, <1>4, ConcatProperties
<1>6. (n - i + 1) + (i - 1) = n
  BY <1>1
<1>7. ASSUME NEW j \in 1 .. n PROVE t[j] = s[Place(i, j, n)]
  <2>1. CASE j <= n - i + 1
    <3>1. j \in 1 .. n - i + 1 /\ Place(i, j, n) = i + j - 1
      BY <1>1, <2>1 DEF Place
    <3> QED BY <1>2, <1>5, <1>6, <2>1, <3>1
  <2>2. CASE ~ (j <= n - i + 1)
    <3>1. j - (n - i + 1) \in 1 .. i - 1 /\ Place(i, j, n) = j - (n - i + 1)
      BY <1>1, <2>2 DEF Place
    <3> QED BY <1>3, <1>5, <1>6, <2>2, <3>1
  <2> QED BY <2>1, <2>2
<1> QED BY <1>5, <1>6, <1>7 DEF t, n

(* A ring may be read from any of its elements.                            *)
LEMMA TurnedRound ==
  ASSUME NEW m, NEW s, Ringed(m, s), NEW i \in 1 .. Len(s)
  PROVE  /\ Ringed(m, R!Promise!From(s, i)) /\ R!Promise!From(s, i)[1] = s[i]
         /\ Turning(m, s) => Turning(m, R!Promise!From(s, i))
         /\ \A e : Among(e, R!Promise!From(s, i)) <=> Among(e, s)
<1> DEFINE n == Len(s)
           t == R!Promise!From(s, i)
<1>1. n \in Nat \ {0} /\ i \in 1 .. n /\ 1 \in 1 .. n /\ s \in Seq(Elem)
  BY DEF Ringed, Turning
<1>2. t \in Seq(Elem) /\ Len(t) = n /\ \A j \in 1 .. n : t[j] = s[Place(i, j, n)]
  BY <1>1, FromIs
<1> HIDE DEF n, t
<1>3. t[1] = s[i]
  BY <1>1, <1>2, PlaceOnCircle
<1>4. ASSUME NEW e PROVE Among(e, t) <=> Among(e, s)
  <2>1. ASSUME NEW j \in 1 .. n, t[j] = e PROVE Among(e, s)
    <3>1. Place(i, j, n) \in 1 .. n
      BY <1>1, PlaceOnCircle
    <3> QED BY <1>2, <2>1, <3>1 DEF Among, n
  <2>2. ASSUME NEW j \in 1 .. n, s[j] = e PROVE Among(e, t)
    <3>1. PICK k \in 1 .. n : Place(i, k, n) = j
      BY <1>1, PlaceOnCircle
    <3> QED BY <1>2, <2>2, <3>1 DEF Among
  <2> QED BY <1>2, <2>1, <2>2 DEF Among, n
<1>5. ASSUME Turning(m, s) PROVE Turning(m, t)
  <2>1. ASSUME NEW j \in 1 .. n, NEW k \in 1 .. n, t[j] = t[k] PROVE j = k
    <3>1. Place(i, j, n) \in 1 .. n /\ Place(i, k, n) \in 1 .. n
      BY <1>1, PlaceOnCircle
    <3>2. Place(i, j, n) = Place(i, k, n)
      BY <1>2, <1>5, <2>1, <3>1 DEF Turning, n
    <3> QED BY <1>1, <3>2, PlaceOnCircle
  <2>2. ASSUME NEW j \in 1 .. n PROVE m.next[t[j]] = t[OneOn(j, n)]
    <3>1. Place(i, j, n) \in 1 .. n
      BY <1>1, PlaceOnCircle
    <3>4. OneOn(Place(i, j, n), n) = Place(i, OneOn(j, n), n)
      BY <1>1, PlaceOneOn
    <3>2. OneOn(j, n) \in 1 .. n
      BY <1>1, OneTurn
    <3>3. m.next[s[Place(i, j, n)]] = s[Place(i, OneOn(j, n), n)]
      BY <1>5, <3>1, <3>4 DEF Turning, n
    <3> QED BY <1>2, <3>2, <3>3
  <2> QED BY <1>1, <1>2, <2>1, <2>2 DEF Turning
<1>6. Ringed(m, t)
  <2>1. CASE Turning(m, s)
    BY <1>5, <2>1 DEF Ringed
  <2>2. CASE Len(s) = 1 /\ m.next[s[1]] = Nil
    <3>1. i = 1
      BY <1>1, <2>2 DEF n
    <3> QED BY <1>2, <1>3, <2>2, <3>1 DEF Ringed, n
  <2> QED BY <2>1, <2>2 DEF Ringed
<1> QED BY <1>3, <1>4, <1>5, <1>6 DEF t

(* What Len counts and Do visits, if there are finitely many elements.     *)
LEMMA VisitedIs ==
  ASSUME IsFiniteSet(Elem), NEW m, Closed(m), NEW s, Turning(m, s)
  PROVE  R!Around(m, s[1]) = s
<1> DEFINE n == Len(s)
           all == Cardinality(Elem)
           Back(k) == /\ R!Walked(m.next, s[1], k) = s[1]
                      /\ \A j \in 1 .. k - 1 : R!Walked(m.next, s[1], j) # s[1]
           size == CHOOSE k \in 1 .. all : Back(k)
<1>1. n \in Nat \ {0} /\ s \in Seq(Elem) /\ all \in Nat /\ n \in 0 .. n
  BY FS_CardinalityType DEF Turning
<1>2. /\ \A k \in 0 .. n - 1 : R!Walked(m.next, s[1], k) = s[k + 1]
      /\ R!Walked(m.next, s[1], n) = s[1]
  <2>1. \A k \in 0 .. n - 1 : k \in Nat /\ k % n = k
    BY <1>1
  <2>2. n \in Int /\ n % n = 0 /\ 0 + 1 = 1
    BY <1>1
  <2> HIDE DEF n
  <2>3. \A k \in Nat : R!Walked(m.next, s[1], k) = s[(k % n) + 1]
    BY MovedToIs DEF n
  <2>4. n \in Nat
    BY <1>1
  <2> QED BY <2>1, <2>2, <2>3, <2>4
<1>3. n <= all
  <2>1. SUFFICES ASSUME ~ (n <= all) PROVE FALSE
    OBVIOUS
  <2>2. IsFiniteSet(1 .. n) /\ Cardinality(1 .. n) = n
    BY <1>1, FS_Interval
  <2>3. s \in [1 .. n -> Elem] /\ all < n
    BY <1>1, <2>1
  <2> HIDE DEF n
  <2>4. \E i, j \in 1 .. n : i # j /\ s[i] = s[j]
    BY <2>2, <2>3, FS_PigeonHole
  <2> QED BY <2>4 DEF Turning, n
<1>4. \A i \in 2 .. n : s[i] # s[1]
  BY <1>1 DEF Turning
<1> HIDE DEF n, all
<1>5. ASSUME NEW j \in 1 .. n - 1 PROVE R!Walked(m.next, s[1], j) # s[1]
  <2>1. j \in 0 .. n - 1 /\ j + 1 \in 2 .. n
    BY <1>1
  <2> QED BY <1>2, <1>4, <2>1
<1>6. n \in 1 .. all /\ Back(n)
  BY <1>1, <1>2, <1>3, <1>5
<1>7. ASSUME NEW k \in 1 .. all, Back(k) PROVE k = n
  <2>1. CASE k < n
    <3>1. k \in 1 .. n - 1
      BY <1>1, <2>1
    <3> QED BY <1>5, <1>7, <3>1
  <2>2. CASE n < k
    <3>1. n \in 1 .. k - 1
      BY <1>1, <2>2
    <3> QED BY <1>2, <1>7, <3>1
  <2> QED BY <1>1, <2>1, <2>2
<1>8. size = n
  <2> HIDE DEF Back
  <2> QED BY <1>6, <1>7
<1>9. R!Around(m, s[1]) = [i \in 1 .. size |-> R!Walked(m.next, s[1], i - 1)]
  <2>1. R!Cardinality(Elem) = all
    BY Zenon DEF R!Cardinality, Cardinality, all
  <2> QED BY <2>1 DEF R!Around
<1>10. \A i \in 1 .. n : R!Walked(m.next, s[1], i - 1) = s[i]
  <2>1. \A i \in 1 .. n : i - 1 \in 0 .. n - 1 /\ (i - 1) + 1 = i
    BY <1>1
  <2> QED BY <1>2, <2>1
<1>11. s = [i \in 1 .. n |-> s[i]]
  BY <1>1 DEF n
<1> HIDE DEF size
<1> QED BY <1>8, <1>9, <1>10, <1>11

(* The ring of e, as Do sees it.                                           *)
Circuit(m, e) == R!Around(R!Linked(m, e), e)

(* Every element is in a ring that comes back to it.                       *)
Rings(m) == Closed(m) /\ \A e \in Elem : \E s : Ringed(m, s) /\ s[1] = e

(* Linking a zero value lazily makes no other ring.                        *)
LEMMA LinkedRinged ==
  ASSUME NEW m, Closed(m), NEW r \in Elem, NEW s, Ringed(m, s)
  PROVE  /\ Ringed(R!Linked(m, r), s)
         /\ s[1] = r => Turning(R!Linked(m, r), s)
         /\ m.next[s[1]] # Nil => Turning(m, s)
<1> DEFINE g == R!Linked(m, r)
<1>1. s \in Seq(Elem) /\ Len(s) \in Nat \ {0} /\ \A i \in 1 .. Len(s) : s[i] \in Elem
  BY DEF Ringed, Turning
<1>2. CASE m.next[r] # Nil
  <2>1. g = m
    BY <1>2 DEF R!Linked
  <2> QED BY <1>2, <2>1 DEF Ringed
<1>3. CASE m.next[r] = Nil
  <2>1. g = [m EXCEPT !.next[r] = r, !.prev[r] = r]
    BY <1>3 DEF R!Linked
  <2> HIDE DEF g
  <2>2. m \in LinkType
    BY DEF Closed
  <2>3. g.next = [m.next EXCEPT ![r] = r]
    BY <2>1, <2>2 DEF LinkType
  <2>4. g.next[r] = r /\ \A e \in Elem : e # r => g.next[e] = m.next[e]
    BY <2>2, <2>3 DEF LinkType
  <2>5. CASE Turning(m, s)
    <3>1. \A i \in 1 .. Len(s) : m.next[s[i]] \in Elem
      BY <2>5, TurningBack
    <3>2. \A i \in 1 .. Len(s) : s[i] # r
      BY <1>3, <3>1, NilApart
    <3>3. Turning(g, s)
      BY <1>1, <2>4, <2>5, <3>2 DEF Turning
    <3> QED BY <2>5, <3>3 DEF Ringed, g
  <2>6. CASE Len(s) = 1 /\ m.next[s[1]] = Nil
    <3>1. CASE s[1] # r
      <4>1. g.next[s[1]] = Nil
        BY <1>1, <2>4, <2>6, <3>1
      <4> QED BY <1>1, <2>6, <3>1, <4>1 DEF Ringed, g
    <3>2. CASE s[1] = r
      <4>1. OneOn(1, 1) = 1
        BY OneTurn
      <4>2. Turning(g, s)
        BY <1>1, <2>4, <2>6, <3>2, <4>1 DEF Turning
      <4> QED BY <2>6, <4>2 DEF Ringed, g
    <3> QED BY <3>1, <3>2
  <2> QED BY <2>5, <2>6 DEF Ringed
<1> QED BY <1>2, <1>3

LEMMA LinkedRings ==
  ASSUME NEW m, Rings(m), NEW r \in Elem
  PROVE  Rings(R!Linked(m, r)) /\ R!Linked(m, r).next[r] # Nil
BY LinkedClosed, LinkedRinged, NilApart DEF Rings

(* Whatever runs through e as a ring is what Do sees, from e.              *)
LEMMA SeenIs ==
  ASSUME IsFiniteSet(Elem), NEW m, Closed(m), NEW s, Ringed(m, s), NEW i \in 1 .. Len(s)
  PROVE  /\ Circuit(m, s[i]) = R!Promise!From(s, i)
         /\ Circuit(m, s[1]) = s
<1>1. ASSUME NEW t, Ringed(m, t) PROVE Circuit(m, t[1]) = t
  <2>1. t[1] \in Elem
    BY <1>1 DEF Ringed, Turning
  <2>2. Closed(R!Linked(m, t[1])) /\ Turning(R!Linked(m, t[1]), t)
    BY <1>1, <2>1, LinkedClosed, LinkedRinged
  <2> QED BY <2>2, VisitedIs DEF Circuit
<1>2. Ringed(m, R!Promise!From(s, i)) /\ R!Promise!From(s, i)[1] = s[i]
  BY TurnedRound
<1> QED BY <1>1, <1>2

LEMMA SeenRings ==
  ASSUME IsFiniteSet(Elem), NEW m, Rings(m), NEW e \in Elem
  PROVE  /\ Ringed(m, Circuit(m, e)) /\ Circuit(m, e)[1] = e
         /\ Circuit(m, e) \in Seq(Elem) /\ Len(Circuit(m, e)) \in Nat \ {0}
         /\ m.next[e] # Nil => Turning(m, Circuit(m, e))
         /\ \A r \in Elem : Circuit(R!Linked(m, r), e) = Circuit(m, e)
<1>1. PICK s : Ringed(m, s) /\ s[1] = e
  BY DEF Rings
<1>2. s \in Seq(Elem) /\ Len(s) \in Nat \ {0} /\ 1 \in 1 .. Len(s)
  BY <1>1 DEF Ringed, Turning
<1>3. Circuit(m, e) = s
  BY <1>1, <1>2, SeenIs DEF Rings
<1>4. ASSUME NEW r \in Elem PROVE Circuit(R!Linked(m, r), e) = s
  <2> DEFINE g == R!Linked(m, r)
  <2>1. Closed(g) /\ Ringed(g, s)
    BY <1>1, LinkedClosed, LinkedRinged DEF Rings
  <2> HIDE DEF g
  <2>2. Circuit(g, s[1]) = s
    BY <1>2, <2>1, SeenIs
  <2> QED BY <1>1, <2>2 DEF g
<1>5. m.next[e] # Nil => Turning(m, s)
  BY <1>1, LinkedRinged DEF Rings
<1> QED BY <1>1, <1>2, <1>3, <1>4, <1>5

(* Two rings that meet are one.                                            *)
LEMMA MeetingIs ==
  ASSUME IsFiniteSet(Elem), NEW m, Closed(m), NEW s, Ringed(m, s), NEW t, Ringed(m, t),
         NEW e, Among(e, s), Among(e, t)
  PROVE  \A x : Among(x, s) <=> Among(x, t)
<1>1. PICK i \in 1 .. Len(s) : s[i] = e
  BY DEF Among
<1>2. PICK j \in 1 .. Len(t) : t[j] = e
  BY DEF Among
<1>3. R!Promise!From(s, i) = R!Promise!From(t, j)
  BY <1>1, <1>2, SeenIs
<1>4. /\ \A x : Among(x, R!Promise!From(s, i)) <=> Among(x, s)
      /\ \A x : Among(x, R!Promise!From(t, j)) <=> Among(x, t)
  BY <1>1, <1>2, TurnedRound
<1> QED BY <1>3, <1>4

LEMMA RangeIs ==
  ASSUME NEW s \in Seq(Elem), NEW e
  PROVE  e \in R!Promise!Range(s) <=> Among(e, s)
BY DEF R!Promise!Range, Among

(* What a step to the memory g has to show: the rings in C have come about *)
(* and the others are as they were.                                        *)
Changes(m, g, C) ==
  /\ Closed(g)
  /\ \A x \in C : x = <<>> \/ Ringed(g, x)
  /\ \A e \in Elem : (\A x \in C : ~ Among(e, x)) => Ringed(g, Circuit(m, e))

LEMMA ChangesRings ==
  ASSUME IsFiniteSet(Elem), NEW m, Rings(m), NEW g, NEW C, Changes(m, g, C)
  PROVE  Rings(g)
<1>1. ASSUME NEW e \in Elem PROVE \E s : Ringed(g, s) /\ s[1] = e
  <2>1. CASE \A x \in C : ~ Among(e, x)
    BY <2>1, SeenRings DEF Changes
  <2>2. ASSUME NEW x \in C, Among(e, x) PROVE \E s : Ringed(g, s) /\ s[1] = e
    <3>1. PICK i \in 1 .. Len(x) : x[i] = e
      BY <2>2 DEF Among
    <3>2. x # <<>>
      BY <3>1
    <3>3. Ringed(g, x)
      BY <3>2 DEF Changes
    <3> QED BY <3>1, <3>3, TurnedRound
  <2> QED BY <2>1, <2>2
<1> QED BY <1>1 DEF Changes, Rings

LEMMA BecomeIs ==
  ASSUME IsFiniteSet(Elem), Rings(links), NEW C, Changes(links, links', C)
  PROVE  R!Promise!Become(C)
<1> DEFINE seen(e) == Circuit(links, e)
           now(e) == Circuit(links', e)
           g == links'
<1>1. ASSUME NEW d \in C, NEW e \in Elem PROVE e \in R!Promise!Range(d) <=> Among(e, d)
  <2>1. d = <<>> \/ Ringed(g, d)
    BY DEF Changes
  <2>2. <<>> \in Seq(Elem)
    OBVIOUS
  <2>3. d \in Seq(Elem)
    BY <2>1, <2>2 DEF Ringed, Turning
  <2> QED BY <2>3, RangeIs
<1>2. ASSUME NEW e \in Elem, \E d \in C : e \in R!Promise!Range(d)
      PROVE  now(e) = LET d == CHOOSE d \in C : e \in R!Promise!Range(d)
                      IN  R!Promise!From(d, CHOOSE i \in 1 .. Len(d) : d[i] = e)
  <2> DEFINE d == CHOOSE x \in C : e \in R!Promise!Range(x)
             i == CHOOSE j \in 1 .. Len(d) : d[j] = e
  <2>1. d \in C /\ e \in R!Promise!Range(d)
    BY <1>2
  <2> HIDE DEF d
  <2>2. Among(e, d)
    BY <1>1, <2>1
  <2>3. i \in 1 .. Len(d) /\ d[i] = e
    BY <2>2 DEF Among
  <2> HIDE DEF i
  <2>4. d # <<>>
    BY <2>3
  <2>5. Closed(g) /\ Ringed(g, d)
    BY <2>1, <2>4 DEF Changes
  <2> HIDE DEF g
  <2>6. Circuit(g, d[i]) = R!Promise!From(d, i)
    BY <2>3, <2>5, SeenIs
  <2> QED BY <2>3, <2>6 DEF d, i, g
<1>3. ASSUME NEW e \in Elem, ~ \E d \in C : e \in R!Promise!Range(d)
      PROVE  now(e) = seen(e)
  <2> DEFINE s == seen(e)
  <2>1. \A d \in C : ~ Among(e, d)
    BY <1>1, <1>3
  <2>2. s[1] = e /\ 1 \in 1 .. Len(s)
    BY SeenRings
  <2>3. Closed(g) /\ Ringed(g, s)
    BY <2>1 DEF Changes
  <2> HIDE DEF g, s
  <2>4. Circuit(g, s[1]) = s
    BY <2>2, <2>3, SeenIs
  <2> QED BY <2>2, <2>4 DEF g, s
<1> QED BY <1>2, <1>3 DEF R!Promise!Become, Circuit

LEMMA SameRings ==
  ASSUME IsFiniteSet(Elem), Rings(links),
         links' = links \/ \E r \in Elem : links' = R!Linked(links, r)
  PROVE  /\ Rings(links')
         /\ [e \in Elem |-> R!Around(R!Linked(links', e), e)]
              = [e \in Elem |-> R!Around(R!Linked(links, e), e)]
<1>1. Rings(links')
  BY LinkedRings
<1>2. \A e \in Elem : Circuit(links', e) = Circuit(links, e)
  BY SeenRings
<1> QED BY <1>1, <1>2 DEF Circuit

(* The sequences that Link makes of a ring.                                *)
LEMMA JoinSeq ==
  ASSUME NEW c \in Seq(Elem), Len(c) > 0, NEW d \in Seq(Elem)
  PROVE  LET x == <<c[1]>> \o d \o Tail(c)
         IN  /\ x \in Seq(Elem) /\ Len(x) = Len(d) + Len(c) /\ x[1] = c[1]
             /\ \A i \in 1 .. Len(d) : x[i + 1] = d[i]
             /\ \A i \in 2 .. Len(c) : x[Len(d) + i] = c[i]
<1> DEFINE u == <<c[1]>>
           v == u \o d
           t == Tail(c)
           x == <<c[1]>> \o d \o Tail(c)
           n == Len(c)
           k == Len(d)
<1>1. n \in Nat \ {0} /\ k \in Nat /\ c[1] \in Elem
  OBVIOUS
<1>2. u \in Seq(Elem) /\ Len(u) = 1 /\ u[1] = c[1]
  BY <1>1
<1>3. t \in Seq(Elem) /\ Len(t) = n - 1 /\ \A i \in 1 .. n - 1 : t[i] = c[i + 1]
  BY <1>1
<1>4. x = v \o t /\ v = u \o d /\ Len(d) = k
  OBVIOUS
<1> HIDE DEF u, v, t, x, n, k
<1>5. /\ v \in Seq(Elem) /\ Len(v) = 1 + k
      /\ \A i \in 1 .. 1 + k : v[i] = IF i <= 1 THEN u[i] ELSE d[i - 1]
  <2>1. /\ u \o d \in Seq(Elem) /\ Len(u \o d) = Len(u) + Len(d)
        /\ \A i \in 1 .. Len(u) + Len(d) : (u \o d)[i] = IF i <= Len(u) THEN u[i] ELSE d[i - Len(u)]
    BY <1>2, ConcatProperties
  <2> QED BY <1>2, <1>4, <2>1
<1>6. /\ x \in Seq(Elem) /\ Len(x) = (1 + k) + (n - 1)
      /\ \A i \in 1 .. (1 + k) + (n - 1) : x[i] = IF i <= 1 + k THEN v[i] ELSE t[i - (1 + k)]
  <2>1. /\ v \o t \in Seq(Elem) /\ Len(v \o t) = Len(v) + Len(t)
        /\ \A i \in 1 .. Len(v) + Len(t) : (v \o t)[i] = IF i <= Len(v) THEN v[i] ELSE t[i - Len(v)]
    BY <1>3, <1>5, ConcatProperties
  <2> QED BY <1>3, <1>4, <1>5, <2>1
<1>7. x[1] = c[1]
  BY <1>1, <1>2, <1>5, <1>6
<1>8. ASSUME NEW i \in 1 .. k PROVE x[i + 1] = d[i]
  <2>1. i + 1 \in 1 .. 1 + k /\ i + 1 \in 1 .. (1 + k) + (n - 1) /\ (i + 1) - 1 = i /\ ~ (i + 1 <= 1)
    BY <1>1
  <2>2. x[i + 1] = v[i + 1] /\ v[i + 1] = d[(i + 1) - 1]
    BY <1>5, <1>6, <2>1
  <2> QED BY <2>1, <2>2
<1>9. ASSUME NEW i \in 2 .. n PROVE x[k + i] = c[i]
  <2>1. /\ k + i \in 1 .. (1 + k) + (n - 1) /\ ~ (k + i <= 1 + k)
        /\ (k + i) - (1 + k) = i - 1 /\ i - 1 \in 1 .. n - 1 /\ (i - 1) + 1 = i
    BY <1>1
  <2> QED BY <1>3, <1>6, <2>1
<1>10. Len(x) = k + n
  BY <1>1, <1>6
<1> QED BY <1>6, <1>7, <1>8, <1>9, <1>10 DEF x, k, n

LEMMA SplitSeq ==
  ASSUME NEW c \in Seq(Elem), NEW k \in 0 .. Len(c) - 1
  PROVE  LET x == <<c[1]>> \o SubSeq(c, k + 2, Len(c))
             y == SubSeq(c, 2, k + 1)
         IN  /\ x \in Seq(Elem) /\ Len(x) = Len(c) - k /\ x[1] = c[1]
             /\ \A i \in 2 .. Len(c) - k : x[i] = c[k + i]
             /\ y \in Seq(Elem) /\ Len(y) = k
             /\ \A i \in 1 .. k : y[i] = c[i + 1]
<1> DEFINE n == Len(c)
           u == <<c[1]>>
           t == SubSeq(c, k + 2, n)
           x == <<c[1]>> \o SubSeq(c, k + 2, Len(c))
           y == SubSeq(c, 2, k + 1)
<1>1. n \in Nat \ {0} /\ k \in 0 .. n - 1 /\ \A i \in 1 .. n : c[i] \in Elem
  OBVIOUS
<1>2. u \in Seq(Elem) /\ Len(u) = 1 /\ u[1] = c[1]
  BY <1>1
<1>3. x = u \o t
  OBVIOUS
<1> HIDE DEF u, x, n
<1>4. t \in Seq(Elem) /\ Len(t) = n - k - 1 /\ \A j \in 1 .. n - k - 1 : t[j] = c[k + j + 1]
  <2>1. k + 2 \in Int /\ n \in Int /\ \A j \in k + 2 .. n : c[j] \in Elem
    BY <1>1
  <2>2. /\ t \in Seq(Elem) /\ Len(t) = IF k + 2 <= n THEN n - (k + 2) + 1 ELSE 0
        /\ \A j \in 1 .. n - (k + 2) + 1 : t[j] = c[k + 2 + j - 1]
    BY <1>1, <2>1, SubSeqProperties
  <2> HIDE DEF t
  <2> QED BY <1>1, <2>2
<1>5. y \in Seq(Elem) /\ Len(y) = k /\ \A j \in 1 .. k : y[j] = c[j + 1]
  <2>1. k + 1 \in Int /\ 2 \in Int /\ \A j \in 2 .. k + 1 : c[j] \in Elem
    BY <1>1
  <2>2. /\ y \in Seq(Elem) /\ Len(y) = IF 2 <= k + 1 THEN (k + 1) - 2 + 1 ELSE 0
        /\ \A j \in 1 .. (k + 1) - 2 + 1 : y[j] = c[2 + j - 1]
    BY <1>1, <2>1, SubSeqProperties
  <2> HIDE DEF y
  <2> QED BY <1>1, <2>2
<1> HIDE DEF t, y
<1>6. /\ x \in Seq(Elem) /\ Len(x) = 1 + (n - k - 1)
      /\ \A i \in 1 .. 1 + (n - k - 1) : x[i] = IF i <= 1 THEN u[i] ELSE t[i - 1]
  <2>1. u \in Seq(Elem) /\ t \in Seq(Elem) /\ Len(u) = 1 /\ Len(t) = n - k - 1
    BY <1>2, <1>4
  <2>2. /\ u \o t \in Seq(Elem) /\ Len(u \o t) = Len(u) + Len(t)
        /\ \A i \in 1 .. Len(u) + Len(t) :
             (u \o t)[i] = IF i <= Len(u) THEN u[i] ELSE t[i - Len(u)]
    BY <2>1, ConcatProperties
  <2> QED BY <1>3, <2>1, <2>2
<1>7. 1 + (n - k - 1) = n - k /\ 1 \in 1 .. n - k
  BY <1>1
<1>8. ASSUME NEW i \in 2 .. n - k PROVE x[i] = c[k + i]
  <2>1. i \in 1 .. n - k /\ ~ (i <= 1) /\ i - 1 \in 1 .. n - k - 1 /\ k + (i - 1) + 1 = k + i
    BY <1>1
  <2> QED BY <1>4, <1>6, <1>7, <2>1
<1>9. x \in Seq(Elem) /\ Len(x) = n - k /\ x[1] = c[1]
  BY <1>2, <1>6, <1>7
<1> QED BY <1>5, <1>8, <1>9 DEF x, y, n

(* What Link's four assignments do to the walks.                           *)
Prior(m, r, s) == R!Linked(R!Linked(m, r), s)

Relinked(m, r, s) ==
  LET a == Prior(m, r, s)
      g == R!Joined(m, r, s)
  IN  /\ Rings(a) /\ Closed(g) /\ a.next[r] \in Elem /\ a.prev[s] \in Elem
      /\ \A e \in Elem : g.next[e] = IF e = a.prev[s] THEN a.next[r]
                                     ELSE IF e = r THEN s ELSE a.next[e]
      /\ \A e \in Elem : Circuit(a, e) = Circuit(m, e)
      /\ Turning(a, Circuit(m, r)) /\ Turning(a, Circuit(m, s))

LEMMA JoinedNext ==
  ASSUME IsFiniteSet(Elem), NEW m, Rings(m), NEW r \in Elem, NEW s \in Elem
  PROVE  Relinked(m, r, s)
<1> DEFINE b == R!Linked(m, r)
           a == R!Linked(b, s)
           g == R!Joined(m, r, s)
           n == a.next[r]
           p == a.prev[s]
<1>1. Rings(b) /\ b.next[r] # Nil
  BY LinkedRings
<1>2. Closed(b) /\ b.next[r] \in Elem
  BY LinkedClosed DEF Rings
<1>3. \A e \in Elem : Circuit(b, e) = Circuit(m, e)
  BY SeenRings
<1>4. g.next = [a.next EXCEPT ![r] = s, ![p] = n]
  BY DEF R!Joined
<1>5. Closed(g)
  BY JoinedClosed DEF Rings
<1> HIDE DEF b, g
<1>6. Rings(a) /\ a.next[s] # Nil
  BY <1>1, LinkedRings
<1>7. n \in Elem /\ p \in Elem /\ Closed(a)
  BY <1>2, LinkedClosed
<1>8. \A e \in Elem : Circuit(a, e) = Circuit(b, e)
  BY <1>1, SeenRings
<1> HIDE DEF a
<1>9. a.next \in [Elem -> Elem \cup {Nil}]
  BY <1>7 DEF Closed, LinkType
<1>10. \A e \in Elem : g.next[e] = IF e = p THEN n ELSE IF e = r THEN s ELSE a.next[e]
  <2> HIDE DEF n, p
  <2> QED BY <1>4, <1>7, <1>9
<1>11. Turning(a, Circuit(a, r))
  <2>1. n # Nil
    BY <1>7, NilApart
  <2> QED BY <1>6, <2>1, SeenRings
<1>12. Turning(a, Circuit(a, s))
  BY <1>6, SeenRings
<1>13. \A e \in Elem : Circuit(a, e) = Circuit(m, e)
  BY <1>3, <1>8
<1>14. Turning(a, Circuit(m, r)) /\ Turning(a, Circuit(m, s))
  BY <1>11, <1>12, <1>13
<1> QED BY <1>5, <1>6, <1>7, <1>10, <1>13, <1>14 DEF a, b, g, Prior, Relinked

(* A ring without either end of a new link stays.                          *)
LEMMA LeftAlone ==
  ASSUME NEW a, NEW g, NEW s, Ringed(a, s),
         \A e \in Elem : Among(e, s) => g.next[e] = a.next[e]
  PROVE  Ringed(g, s)
<1>1. s \in Seq(Elem) /\ Len(s) \in Nat \ {0} /\ \A i \in 1 .. Len(s) : s[i] \in Elem
  BY DEF Ringed, Turning
<1>2. \A i \in 1 .. Len(s) : g.next[s[i]] = a.next[s[i]]
  BY <1>1 DEF Among
<1>3. g.next[s[1]] = a.next[s[1]]
  BY <1>1, <1>2
<1> QED BY <1>2, <1>3 DEF Ringed, Turning

(* "If r and s point to different rings, linking them creates a single     *)
(* ring with the elements of s inserted after r."                          *)
LEMMA JoinIs ==
  ASSUME IsFiniteSet(Elem), NEW m, Rings(m), NEW r \in Elem, NEW s \in Elem,
         ~ Among(s, Circuit(m, r))
  PROVE  Changes(m, R!Joined(m, r, s), {<<r>> \o Circuit(m, s) \o Tail(Circuit(m, r))})
<1> DEFINE a == Prior(m, r, s)
           g == R!Joined(m, r, s)
           c == Circuit(m, r)
           d == Circuit(m, s)
           x == <<r>> \o d \o Tail(c)
           n == Len(c)
           k == Len(d)
           p == a.prev[s]
<1>1. /\ Rings(a) /\ Closed(g) /\ a.next[r] \in Elem /\ p \in Elem
      /\ \A e \in Elem : g.next[e] = IF e = p THEN a.next[r] ELSE IF e = r THEN s ELSE a.next[e]
      /\ \A e \in Elem : Circuit(a, e) = Circuit(m, e)
      /\ Turning(a, c) /\ Turning(a, d)
  <2>1. Relinked(m, r, s)
    BY JoinedNext
  <2> QED BY <2>1 DEF Relinked
<1>2. c[1] = r /\ d[1] = s
  BY SeenRings
<1>3. Closed(a)
  BY <1>1 DEF Rings
<1>h. ~ Among(s, c)
  OBVIOUS
<1> HIDE DEF a, g, c, d
<1>4. n \in Nat \ {0} /\ k \in Nat \ {0} /\ c \in Seq(Elem) /\ d \in Seq(Elem)
  BY <1>1 DEF Turning
<1>5. /\ x \in Seq(Elem) /\ Len(x) = k + n /\ x[1] = c[1]
      /\ \A i \in 1 .. k : x[i + 1] = d[i]
      /\ \A i \in 2 .. n : x[k + i] = c[i]
  BY <1>2, <1>4, JoinSeq
<1> HIDE DEF x
<1>6. p = d[k]
  <2>1. k \in 1 .. k /\ OneOn(k, k) = 1
    BY <1>4, OneTurn
  <2>2. a.prev[d[OneOn(k, k)]] = d[k]
    BY <1>1, <1>3, <2>1, TurningBack
  <2> QED BY <1>2, <2>1, <2>2
<1>7. ASSUME NEW e, Among(e, c), Among(e, d) PROVE FALSE
  <2>1. Ringed(a, c) /\ Ringed(a, d)
    BY <1>1 DEF Ringed
  <2>2. Among(s, d)
    BY <1>2, <1>4 DEF Among
  <2>3. Among(s, c)
    BY <1>3, <1>7, <2>1, <2>2, MeetingIs
  <2> QED BY <1>h, <2>3
<1>8. \A i \in 1 .. n, j \in 1 .. k : c[i] # d[j]
  BY <1>7 DEF Among
<1>9. /\ \A i \in 1 .. n : a.next[c[i]] = c[OneOn(i, n)] /\ c[i] \in Elem
      /\ \A i \in 1 .. k : a.next[d[i]] = d[OneOn(i, k)] /\ d[i] \in Elem
  BY <1>1, <1>4 DEF Turning
<1>10. ASSUME NEW i \in 1 .. k + n
       PROVE  \/ i = 1
              \/ i - 1 \in 1 .. k /\ x[i] = d[i - 1]
              \/ i - k \in 2 .. n /\ x[i] = c[i - k]
  <2>1. CASE i = 1
    BY <2>1
  <2>2. CASE i - 1 \in 1 .. k
    <3>1. (i - 1) + 1 = i
      OBVIOUS
    <3> QED BY <1>5, <2>2, <3>1
  <2>3. CASE i - k \in 2 .. n
    <3>1. k + (i - k) = i
      BY <1>4
    <3> QED BY <1>5, <2>3, <3>1
  <2> QED BY <1>4, <2>1, <2>2, <2>3
<1>11. ASSUME NEW i \in 1 .. k + n, NEW j \in 1 .. k + n, x[i] = x[j] PROVE i = j
  <2>1. /\ \A u, v \in 1 .. n : c[u] = c[v] => u = v
        /\ \A u, v \in 1 .. k : d[u] = d[v] => u = v
    BY <1>1 DEF Turning
  <2>2. 1 \in 1 .. n /\ 2 .. n \subseteq 1 .. n /\ 1 \notin 2 .. n
    BY <1>4
  <2>3. CASE i = 1
    <3>1. CASE j = 1
      BY <2>3, <3>1
    <3>2. CASE j - 1 \in 1 .. k /\ x[j] = d[j - 1]
      BY <1>5, <1>8, <1>11, <2>2, <2>3, <3>2
    <3>3. CASE j - k \in 2 .. n /\ x[j] = c[j - k]
      BY <1>5, <1>11, <2>1, <2>2, <2>3, <3>3
    <3> QED BY <1>10, <3>1, <3>2, <3>3
  <2>4. CASE i - 1 \in 1 .. k /\ x[i] = d[i - 1]
    <3>1. CASE j = 1
      BY <1>5, <1>8, <1>11, <2>2, <2>4, <3>1
    <3>2. CASE j - 1 \in 1 .. k /\ x[j] = d[j - 1]
      <4>1. i - 1 = j - 1
        BY <1>11, <2>1, <2>4, <3>2
      <4> QED BY <4>1
    <3>3. CASE j - k \in 2 .. n /\ x[j] = c[j - k]
      BY <1>8, <1>11, <2>2, <2>4, <3>3
    <3> QED BY <1>10, <3>1, <3>2, <3>3
  <2>5. CASE i - k \in 2 .. n /\ x[i] = c[i - k]
    <3>1. CASE j = 1
      BY <1>5, <1>11, <2>1, <2>2, <2>5, <3>1
    <3>2. CASE j - 1 \in 1 .. k /\ x[j] = d[j - 1]
      BY <1>8, <1>11, <2>2, <2>5, <3>2
    <3>3. CASE j - k \in 2 .. n /\ x[j] = c[j - k]
      <4>1. i - k = j - k
        BY <1>11, <2>1, <2>2, <2>5, <3>3
      <4> QED BY <1>4, <4>1
    <3> QED BY <1>10, <3>1, <3>2, <3>3
  <2> QED BY <1>10, <2>3, <2>4, <2>5
<1>12. ASSUME NEW i \in 1 .. k + n PROVE g.next[x[i]] = x[OneOn(i, k + n)]
  <2>1. OneOn(i, k + n) = IF i = k + n THEN 1 ELSE i + 1
    <3>1. k + n \in Nat \ {0}
      BY <1>4
    <3> QED BY <3>1, OneTurn
  <2>2. /\ \A j \in 1 .. n : OneOn(j, n) = IF j = n THEN 1 ELSE j + 1
        /\ \A j \in 1 .. k : OneOn(j, k) = IF j = k THEN 1 ELSE j + 1
    BY <1>4, OneTurn
  <2>3. 1 \in 1 .. n /\ 1 \in 1 .. k /\ k \in 1 .. k
    BY <1>4
  <2>4. CASE i = 1
    <3>1. r # p
      BY <1>2, <1>6, <1>8, <2>3
    <3>2. g.next[r] = s
      BY <1>1, <3>1
    <3>3. i # k + n
      BY <1>4, <2>4
    <3> QED BY <1>2, <1>5, <2>1, <2>3, <2>4, <3>2, <3>3
  <2>5. CASE i - 1 \in 1 .. k /\ x[i] = d[i - 1]
    <3>1. CASE i - 1 = k
      <4>1. g.next[x[i]] = a.next[c[1]]
        BY <1>1, <1>2, <1>6, <2>5, <3>1
      <4>2. g.next[x[i]] = c[OneOn(1, n)]
        BY <1>9, <2>3, <4>1
      <4>3. CASE n = 1
        <5>1. i = k + n /\ OneOn(1, n) = 1
          BY <1>4, <2>2, <2>3, <3>1, <4>3
        <5> QED BY <1>5, <2>1, <4>2, <5>1
      <4>4. CASE n # 1
        <5>0. n \in Nat \ {0} /\ k \in Nat \ {0} /\ n # 1 /\ i = k + 1
          BY <1>4, <3>1, <4>4
        <5> HIDE DEF n, k
        <5>1. OneOn(1, n) = 2
          BY <2>2, <2>3, <5>0
        <5>2. i # k + n /\ 2 \in 2 .. n /\ i + 1 = k + 2
          BY <5>0
        <5> QED BY <1>5, <2>1, <4>2, <5>1, <5>2
      <4> QED BY <4>3, <4>4
    <3>2. CASE i - 1 # k
      <4>1. d[i - 1] # p /\ d[i - 1] # r
        <5>1. \A u, v \in 1 .. k : d[u] = d[v] => u = v
          BY <1>1 DEF Turning
        <5> QED BY <1>2, <1>6, <1>8, <2>3, <2>5, <3>2, <5>1
      <4>2. g.next[x[i]] = d[OneOn(i - 1, k)]
        BY <1>1, <1>9, <2>5, <4>1
      <4>3. OneOn(i - 1, k) = i /\ i \in 1 .. k /\ i # k + n
        BY <1>4, <2>2, <2>5, <3>2
      <4> QED BY <1>5, <2>1, <4>2, <4>3
    <3> QED BY <3>1, <3>2
  <2>6. CASE i - k \in 2 .. n /\ x[i] = c[i - k]
    <3>0. i - k \in 1 .. n /\ i - k # 1
      BY <1>4, <2>6
    <3>1. c[i - k] # p /\ c[i - k] # r
      <4>1. \A u, v \in 1 .. n : c[u] = c[v] => u = v
        BY <1>1 DEF Turning
      <4> QED BY <1>2, <1>6, <1>8, <2>3, <3>0, <4>1
    <3>2. g.next[x[i]] = c[OneOn(i - k, n)]
      BY <1>1, <1>9, <2>6, <3>0, <3>1
    <3>3. CASE i = k + n
      <4>1. OneOn(i - k, n) = 1
        BY <1>4, <2>2, <3>0, <3>3
      <4> QED BY <1>5, <2>1, <3>2, <3>3, <4>1
    <3>4. CASE i # k + n
      <4>1. OneOn(i - k, n) = (i - k) + 1 /\ (i - k) + 1 \in 2 .. n /\ k + ((i - k) + 1) = i + 1
        <5>1. i \in Int /\ k \in Int /\ n \in Int
          BY <1>4
        <5>2. i - k \in 1 .. n /\ i - k # n /\ k + ((i - k) + 1) = i + 1
          BY <3>0, <3>4, <5>1
        <5>3. (i - k) + 1 \in 2 .. n
          BY <5>1, <5>2
        <5> QED BY <2>2, <5>2, <5>3
      <4> QED BY <1>5, <2>1, <3>2, <3>4, <4>1
    <3> QED BY <3>3, <3>4
  <2> QED BY <1>10, <2>4, <2>5, <2>6
<1>13. Ringed(g, x)
  BY <1>4, <1>5, <1>11, <1>12 DEF Turning, Ringed
<1>14. ASSUME NEW e \in Elem, ~ Among(e, x) PROVE Ringed(g, Circuit(m, e))
  <2> DEFINE t == Circuit(m, e)
  <2>1. Ringed(a, t) /\ Among(e, t)
    <3>1. Ringed(a, Circuit(a, e)) /\ Circuit(a, e)[1] = e /\ Len(Circuit(a, e)) \in Nat \ {0}
      BY <1>1, SeenRings
    <3> QED BY <1>1, <3>1 DEF Among
  <2> HIDE DEF t
  <2>2. ~ Among(e, c)
    <3>1. ASSUME NEW i \in 1 .. n, c[i] = e PROVE FALSE
      <4>1. CASE i = 1
        BY <1>4, <1>5, <1>14, <3>1, <4>1 DEF Among
      <4>2. CASE i # 1
        <5>1. i \in 2 .. n /\ k + i \in 1 .. k + n
          BY <1>4, <4>2
        <5> QED BY <1>5, <1>14, <3>1, <5>1 DEF Among
      <4> QED BY <4>1, <4>2
    <3> QED BY <3>1 DEF Among, n
  <2>3. ~ Among(e, d)
    <3>1. ASSUME NEW i \in 1 .. k, d[i] = e PROVE FALSE
      <4>1. i + 1 \in 1 .. k + n
        BY <1>4
      <4> QED BY <1>5, <1>14, <3>1, <4>1 DEF Among
    <3> QED BY <3>1 DEF Among, k
  <2>4. ~ Among(r, t)
    <3>1. Among(r, c) /\ Ringed(a, c)
      BY <1>1, <1>2, <1>4 DEF Among, Ringed
    <3>2. Among(r, t) => (Among(e, c) <=> Among(e, t))
      BY <1>3, <2>1, <3>1, MeetingIs
    <3> QED BY <2>1, <2>2, <3>2
  <2>5. ~ Among(p, t)
    <3>1. Among(p, d) /\ Ringed(a, d)
      BY <1>1, <1>4, <1>6 DEF Among, Ringed
    <3>2. Among(p, t) => (Among(e, d) <=> Among(e, t))
      BY <1>3, <2>1, <3>1, MeetingIs
    <3> QED BY <2>1, <2>3, <3>2
  <2>6. \A f \in Elem : Among(f, t) => g.next[f] = a.next[f]
    BY <1>1, <2>4, <2>5
  <2>7. Ringed(g, t)
    BY <2>1, <2>6, LeftAlone
  <2> QED BY <2>7 DEF t
<1> QED BY <1>1, <1>13, <1>14 DEF Changes, g, x, c, d

(* "If r and s point to the same ring, linking them removes the elements   *)
(* between r and s from the ring."  There are k of them.                   *)
LEMMA SplitIs ==
  ASSUME IsFiniteSet(Elem), NEW m, Rings(m), NEW r \in Elem, NEW s \in Elem,
         NEW k \in 0 .. Len(Circuit(m, r)) - 1,
         s = Circuit(m, r)[OneOn(k + 1, Len(Circuit(m, r)))]
  PROVE  LET c == Circuit(m, r)
         IN  Changes(m, R!Joined(m, r, s), {<<r>> \o SubSeq(c, k + 2, Len(c)), SubSeq(c, 2, k + 1)})
<1> DEFINE a == Prior(m, r, s)
           g == R!Joined(m, r, s)
           c == Circuit(m, r)
           n == Len(c)
           x == <<r>> \o SubSeq(c, k + 2, Len(c))
           y == SubSeq(c, 2, k + 1)
           p == a.prev[s]
<1>1. /\ Rings(a) /\ Closed(g) /\ a.next[r] \in Elem /\ p \in Elem
      /\ \A e \in Elem : g.next[e] = IF e = p THEN a.next[r] ELSE IF e = r THEN s ELSE a.next[e]
      /\ \A e \in Elem : Circuit(a, e) = Circuit(m, e)
      /\ Turning(a, c)
  <2>1. Relinked(m, r, s)
    BY JoinedNext
  <2> QED BY <2>1 DEF Relinked
<1>2. c[1] = r
  BY SeenRings
<1>3. Closed(a)
  BY <1>1 DEF Rings
<1>s. s = c[OneOn(k + 1, n)] /\ k \in 0 .. n - 1
  OBVIOUS
<1> HIDE DEF a, g, c
<1>4. c \in Seq(Elem) /\ n \in Nat \ {0} /\ k \in 0 .. n - 1
  BY <1>1, <1>s DEF Turning
<1>5. /\ x \in Seq(Elem) /\ Len(x) = n - k /\ x[1] = r
      /\ \A i \in 2 .. n - k : x[i] = c[k + i]
      /\ y \in Seq(Elem) /\ Len(y) = k
      /\ \A i \in 1 .. k : y[i] = c[i + 1]
  BY <1>2, <1>4, SplitSeq
<1>6. /\ \A i \in 1 .. n : a.next[c[i]] = c[OneOn(i, n)] /\ c[i] \in Elem
      /\ \A i, j \in 1 .. n : c[i] = c[j] => i = j
  BY <1>1, <1>4 DEF Turning
<1>7. p = c[k + 1]
  <2>1. k + 1 \in 1 .. n
    BY <1>4
  <2>2. a.prev[c[OneOn(k + 1, n)]] = c[k + 1]
    BY <1>1, <1>3, <2>1, TurningBack
  <2> QED BY <1>s, <2>2
<1> HIDE DEF x, y, n
<1>8. \A j \in 1 .. n : OneOn(j, n) = IF j = n THEN 1 ELSE j + 1
  BY <1>4, OneTurn
<1>9. 1 \in 1 .. n /\ a.next[r] = c[OneOn(1, n)]
  BY <1>2, <1>4, <1>6
<1>10. Turning(g, x)
  <2>1. ASSUME NEW i \in 1 .. n - k
        PROVE  i = 1 \/ (i # 1 /\ x[i] = c[k + i] /\ k + i \in 1 .. n /\ k + i # 1 /\ k + i # k + 1)
    <3>1. CASE i # 1
      <4>1. i \in 2 .. n - k
        BY <1>4, <3>1
      <4> QED BY <1>4, <1>5, <3>1, <4>1
    <3> QED BY <3>1
  <2>2. ASSUME NEW i \in 1 .. n - k, NEW j \in 1 .. n - k, x[i] = x[j] PROVE i = j
    <3>1. CASE i = 1 /\ j # 1
      BY <1>2, <1>5, <1>6, <1>9, <2>1, <2>2, <3>1
    <3>2. CASE i # 1 /\ j = 1
      BY <1>2, <1>5, <1>6, <1>9, <2>1, <2>2, <3>2
    <3>3. CASE i # 1 /\ j # 1
      <4>1. k + i = k + j
        BY <1>6, <2>1, <2>2, <3>3
      <4> QED BY <1>4, <4>1
    <3> QED BY <3>1, <3>2, <3>3
  <2>3. ASSUME NEW i \in 1 .. n - k PROVE g.next[x[i]] = x[OneOn(i, n - k)]
    <3>1. OneOn(i, n - k) = IF i = n - k THEN 1 ELSE i + 1
      <4>1. n - k \in Nat \ {0}
        BY <1>4
      <4> QED BY <4>1, OneTurn
    <3>2. CASE i = 1 /\ k = 0
      <4>1. p = r
        BY <1>2, <1>7, <3>2
      <4>2. g.next[x[i]] = c[OneOn(1, n)]
        BY <1>1, <1>5, <1>9, <3>2, <4>1
      <4>3. CASE n = 1
        <5>1. OneOn(i, n - k) = 1 /\ OneOn(1, n) = 1
          BY <1>8, <1>9, <3>1, <3>2, <4>3
        <5> QED BY <1>2, <1>5, <4>2, <5>1
      <4>4. CASE n # 1
        <5>1. OneOn(1, n) = 2 /\ OneOn(i, n - k) = 2 /\ 2 \in 2 .. n - k /\ k + 2 = 2
          BY <1>4, <1>8, <1>9, <3>1, <3>2, <4>4
        <5> QED BY <1>5, <4>2, <5>1
      <4> QED BY <4>3, <4>4
    <3>3. CASE i = 1 /\ k # 0
      <4>1. k + 1 \in 1 .. n /\ k + 1 # 1
        BY <1>4, <3>3
      <4>2. r # p
        BY <1>2, <1>6, <1>7, <1>9, <4>1
      <4>3. g.next[x[i]] = c[OneOn(k + 1, n)]
        BY <1>1, <1>5, <1>s, <3>3, <4>2
      <4>4. CASE k + 1 = n
        <5>1. OneOn(k + 1, n) = 1 /\ OneOn(i, n - k) = 1
          BY <1>4, <1>8, <3>1, <3>3, <4>1, <4>4
        <5> QED BY <1>2, <1>5, <4>3, <5>1
      <4>5. CASE k + 1 # n
        <5>1. OneOn(k + 1, n) = k + 2 /\ OneOn(i, n - k) = 2 /\ 2 \in 2 .. n - k
          BY <1>4, <1>8, <3>1, <3>3, <4>1, <4>5
        <5> QED BY <1>5, <4>3, <5>1
      <4> QED BY <4>4, <4>5
    <3>4. CASE i # 1
      <4>1. x[i] = c[k + i] /\ k + i \in 1 .. n /\ k + i # 1 /\ k + i # k + 1
        BY <2>1, <3>4
      <4>2. k + 1 \in 1 .. n
        BY <1>4
      <4>3. c[k + i] # r /\ c[k + i] # p
        BY <1>2, <1>6, <1>7, <1>9, <4>1, <4>2
      <4>4. g.next[x[i]] = c[OneOn(k + i, n)]
        BY <1>1, <1>6, <4>1, <4>3
      <4>5. CASE k + i = n
        <5>0. i = n - k
          BY <1>4, <4>5
        <5>1. OneOn(k + i, n) = 1 /\ OneOn(i, n - k) = 1
          BY <1>8, <3>1, <4>1, <4>5, <5>0
        <5> QED BY <1>2, <1>5, <4>4, <5>1
      <4>6. CASE k + i # n
        <5>1. OneOn(k + i, n) = k + (i + 1) /\ OneOn(i, n - k) = i + 1 /\ i + 1 \in 2 .. n - k
          BY <1>4, <1>8, <3>1, <3>4, <4>1, <4>6
        <5> QED BY <1>5, <4>4, <5>1
      <4> QED BY <4>5, <4>6
    <3> QED BY <3>2, <3>3, <3>4
  <2> QED BY <1>4, <1>5, <2>2, <2>3 DEF Turning
<1>11. y = <<>> \/ Turning(g, y)
  <2>1. CASE k = 0
    BY <1>5, <2>1, EmptySeq
  <2>2. CASE k # 0
    <3>1. ASSUME NEW i \in 1 .. k
          PROVE  y[i] = c[i + 1] /\ i + 1 \in 1 .. n /\ i + 1 # 1
      BY <1>4, <1>5
    <3>2. ASSUME NEW i \in 1 .. k, NEW j \in 1 .. k, y[i] = y[j] PROVE i = j
      <4>1. i + 1 = j + 1
        BY <1>6, <3>1, <3>2
      <4> QED BY <4>1
    <3>3. ASSUME NEW i \in 1 .. k PROVE g.next[y[i]] = y[OneOn(i, k)]
      <4>1. OneOn(i, k) = IF i = k THEN 1 ELSE i + 1
        <5>1. k \in Nat \ {0}
          BY <1>4, <2>2
        <5> QED BY <5>1, OneTurn
      <4>2. y[i] # r
        BY <1>2, <1>6, <1>9, <3>1
      <4>3. CASE i = k
        <5>1. g.next[y[i]] = c[OneOn(1, n)]
          BY <1>1, <1>7, <1>9, <3>1, <4>3
        <5>2. OneOn(1, n) = 1 + 1 /\ 1 \in 1 .. k
          BY <1>4, <1>8, <1>9, <2>2
        <5> QED BY <1>5, <4>1, <4>3, <5>1, <5>2
      <4>4. CASE i # k
        <5>1. k + 1 \in 1 .. n /\ i + 1 # k + 1
          BY <1>4, <4>4
        <5>2. y[i] # p
          BY <1>6, <1>7, <3>1, <5>1
        <5>3. g.next[y[i]] = c[OneOn(i + 1, n)]
          BY <1>1, <1>6, <3>1, <4>2, <5>2
        <5>4. OneOn(i + 1, n) = (i + 1) + 1 /\ i + 1 \in 1 .. k
          BY <1>4, <1>8, <3>1, <4>4
        <5> QED BY <1>5, <4>1, <4>4, <5>3, <5>4
      <4> QED BY <4>3, <4>4
    <3>4. Turning(g, y)
      BY <1>4, <1>5, <2>2, <3>2, <3>3 DEF Turning
    <3> QED BY <3>4
  <2> QED BY <2>1, <2>2
<1>12. ASSUME NEW e \in Elem, ~ Among(e, x), ~ Among(e, y) PROVE Ringed(g, Circuit(m, e))
  <2> DEFINE t == Circuit(m, e)
  <2>1. Ringed(a, t) /\ Among(e, t)
    <3>1. Ringed(a, Circuit(a, e)) /\ Circuit(a, e)[1] = e /\ Len(Circuit(a, e)) \in Nat \ {0}
      BY <1>1, SeenRings
    <3> QED BY <1>1, <3>1 DEF Among
  <2> HIDE DEF t
  <2>2. ~ Among(e, c)
    <3>1. ASSUME NEW i \in 1 .. n, c[i] = e PROVE FALSE
      <4>1. CASE i = 1
        <5>1. 1 \in 1 .. n - k
          BY <1>4
        <5> QED BY <1>2, <1>5, <1>12, <3>1, <4>1, <5>1 DEF Among
      <4>2. CASE i # 1 /\ i <= k + 1
        <5>1. i - 1 \in 1 .. k /\ (i - 1) + 1 = i
          BY <1>4, <4>2
        <5>2. y[i - 1] = e
          BY <1>5, <3>1, <5>1
        <5> QED BY <1>5, <1>12, <5>1, <5>2 DEF Among
      <4>3. CASE i > k + 1
        <5>1. i - k \in 2 .. n - k /\ i - k \in 1 .. n - k /\ k + (i - k) = i
          BY <1>4, <4>3
        <5>2. x[i - k] = e
          BY <1>5, <3>1, <5>1
        <5> QED BY <1>5, <1>12, <5>1, <5>2 DEF Among
      <4> QED BY <1>4, <4>1, <4>2, <4>3
    <3> QED BY <3>1 DEF Among, n
  <2>3. Among(r, c) /\ Among(p, c)
    <3>1. k + 1 \in 1 .. n
      BY <1>4
    <3> QED BY <1>2, <1>7, <1>9, <3>1 DEF Among, n
  <2>4. ASSUME NEW f, Among(f, c), Among(f, t) PROVE FALSE
    <3>1. Ringed(a, c)
      BY <1>1 DEF Ringed
    <3>2. Among(e, c) <=> Among(e, t)
      BY <1>3, <2>1, <2>4, <3>1, MeetingIs
    <3> QED BY <2>1, <2>2, <3>2
  <2>5. \A f \in Elem : Among(f, t) => g.next[f] = a.next[f]
    BY <1>1, <2>3, <2>4
  <2>6. Ringed(g, t)
    BY <2>1, <2>5, LeftAlone
  <2> QED BY <2>6 DEF t
<1> QED BY <1>1, <1>10, <1>11, <1>12 DEF Changes, Ringed, g, x, y, c

(* NewRing makes a ring of zero values, each of which was one of its own.  *)
LEMMA NewRingRings ==
  ASSUME IsFiniteSet(Elem), Rings(links), NEW n \in Int, R!NewRing(n)
  PROVE  Rings(links') /\ R!Promise!NewRing(n)
<1>1. CASE n <= 0
  <2>1. /\ links' = links
        /\ ringResult' = [op |-> "NewRing", r |-> Nil, s |-> Nil, n |-> n, e |-> Nil, seen |-> <<>>]
    BY <1>1 DEF R!NewRing, R!Return
  <2> QED BY <1>1, <2>1, SameRings DEF R!Promise!NewRing, R!Promise!Says
<1>2. CASE n > 0
  <2>1. n \in Nat \ {0} /\ Closed(links)
    BY <1>2 DEF Rings
  <2>2. PICK new : /\ NewLinks(links, links', n, new)
                   /\ ringResult' = [op |-> "NewRing", r |-> Nil, s |-> Nil, n |-> n,
                                     e |-> new[1], seen |-> <<>>]
    BY <2>1, NewRingIs
  <2>3. /\ new \in [1 .. n -> Elem] /\ \A i, j \in 1 .. n : new[i] = new[j] => i = j
        /\ \A i \in 1 .. n : links.next[new[i]] = Nil
        /\ \A i \in 1 .. n : links'.next[new[i]] = new[OneOn(i, n)]
        /\ \A e \in Elem : (\A i \in 1 .. n : new[i] # e) => links'.next[e] = links.next[e]
    BY <2>2 DEF NewLinks
  <2>4. new \in Seq(Elem) /\ Len(new) = n /\ 1 \in 1 .. n
    BY <2>1, <2>3
  <2>5. Ringed(links', new)
    BY <2>1, <2>3, <2>4 DEF Ringed, Turning
  <2>6. ASSUME NEW i \in 1 .. n
        PROVE  Ringed(links, <<new[i]>>) /\ Circuit(links, new[i]) = <<new[i]>>
    <3> DEFINE s == <<new[i]>>
    <3>1. Ringed(links, s) /\ s[1] = new[i]
      BY <2>3 DEF Ringed
    <3> HIDE DEF s
    <3>2. 1 \in 1 .. Len(s)
      BY <3>1 DEF Ringed, Turning
    <3>3. Circuit(links, s[1]) = s
      BY <2>1, <3>1, <3>2, SeenIs
    <3> QED BY <3>1, <3>3 DEF s
  <2>7. ASSUME NEW e \in Elem, ~ Among(e, new) PROVE Ringed(links', Circuit(links, e))
    <3> DEFINE t == Circuit(links, e)
    <3>1. Ringed(links, t) /\ Among(e, t)
      BY SeenRings DEF Among
    <3> HIDE DEF t
    <3>2. ASSUME NEW i \in 1 .. n, Among(new[i], t) PROVE FALSE
      <4> DEFINE s == <<new[i]>>
                 f == new[i]
      <4>1. Ringed(links, s)
        BY <2>6
      <4>2. Among(f, s) /\ \A x : Among(x, s) => x = f
        BY DEF Among
      <4> HIDE DEF s, f
      <4>3. Among(f, t)
        BY <3>2 DEF f
      <4>4. Among(e, s) <=> Among(e, t)
        BY <2>1, <3>1, <4>1, <4>2, <4>3, MeetingIs
      <4>5. e = new[i]
        BY <3>1, <4>2, <4>4 DEF f
      <4> QED BY <2>4, <2>7, <4>5 DEF Among
    <3>3. \A f \in Elem : Among(f, t) => links'.next[f] = links.next[f]
      BY <2>3, <3>2
    <3> DEFINE g == links'
               a == links
    <3>4. Ringed(g, t)
      <4>1. Ringed(a, t) /\ \A f \in Elem : Among(f, t) => g.next[f] = a.next[f]
        BY <3>1, <3>3
      <4> HIDE DEF g, a
      <4> QED BY <4>1, LeftAlone
    <3> QED BY <3>4 DEF t
  <2>8. Closed(links')
    BY <1>2, <2>1, NewRingClosed
  <2>9. Changes(links, links', {new})
    BY <2>5, <2>7, <2>8 DEF Changes
  <2>10. R!Promise!Become({new})
    BY <2>9, BecomeIs
  <2>11. Rings(links')
    <3> DEFINE g == links'
    <3>1. Changes(links, g, {new})
      BY <2>9
    <3> HIDE DEF g
    <3>2. Rings(g)
      BY <3>1, ChangesRings
    <3> QED BY <3>2 DEF g
  <2>12. \A i \in 1 .. n : new[i] \in {e \in Elem : R!Around(R!Linked(links, e), e) = <<e>>}
    BY <2>3, <2>6 DEF Circuit
  <2>13. new \in R!Promise!Injection(1 .. n, {e \in Elem : R!Around(R!Linked(links, e), e) = <<e>>})
    BY <2>3, <2>12 DEF R!Promise!Injection, R!Promise!IsInjective
  <2>14. new[1] # Nil
    BY <2>3, <2>4, NilApart
  <2>15. R!Promise!NewRing(n)
    <3>1. ringResult'.e = new[1]
      BY <2>2
    <3>3. R!Promise!Says("NewRing", Nil, Nil, n, ringResult'.e, <<>>)
      BY <2>2, <3>1 DEF R!Promise!Says
    <3>4. \A e \in Elem : [r \in Elem |-> R!Around(R!Linked(links, r), r)][e] = R!Around(R!Linked(links, e), e)
      OBVIOUS
    <3>5. {e \in Elem : [r \in Elem |-> R!Around(R!Linked(links, r), r)][e] = <<e>>}
             = {e \in Elem : R!Around(R!Linked(links, e), e) = <<e>>}
      BY <3>4
    <3>6. n > 0 /\ ringResult'.e # Nil
      BY <1>2, <2>14, <3>1
    <3>7. \E x \in R!Promise!Injection(1 .. n, {e \in Elem : [r \in Elem |-> R!Around(R!Linked(links, r), r)][e] = <<e>>}) :
            x[1] = ringResult'.e /\ R!Promise!Become({x})
      BY <2>10, <2>13, <3>1, <3>5
    <3> QED BY <3>3, <3>6, <3>7 DEF R!Promise!NewRing
  <2> QED BY <2>11, <2>15
<1> QED BY <1>1, <1>2

(* What Next, Prev and Move find from r.                                   *)
Looks(m, r, n) ==
  LET k == R!Linked(m, r)
      c == Circuit(m, r)
  IN  /\ Rings(k) /\ \A e \in Elem : Circuit(k, e) = Circuit(m, e)
      /\ c \in Seq(Elem) /\ Len(c) \in Nat \ {0} /\ c[1] = r
      /\ k.next[r] = c[(1 % Len(c)) + 1] /\ k.prev[r] = c[((-1) % Len(c)) + 1]
      /\ R!MovedTo(k, r, n) = c[(n % Len(c)) + 1]

LEMMA LooksIs ==
  ASSUME IsFiniteSet(Elem), NEW m, Rings(m), NEW r \in Elem, NEW n \in Int
  PROVE  Looks(m, r, n)
<1> DEFINE k == R!Linked(m, r)
           c == Circuit(m, r)
<1>1. Rings(k) /\ k.next[r] # Nil
  BY LinkedRings
<1>2. c \in Seq(Elem) /\ Len(c) \in Nat \ {0} /\ c[1] = r /\ \A e \in Elem : Circuit(k, e) = Circuit(m, e)
  BY SeenRings
<1> HIDE DEF k
<1>3. Turning(k, c)
  <2>1. Turning(k, Circuit(k, r))
    BY <1>1, SeenRings
  <2> QED BY <1>2, <2>1
<1> HIDE DEF c
<1>4. Closed(k)
  BY <1>1 DEF Rings
<1>5. R!MovedTo(k, c[1], n) = c[(n % Len(c)) + 1]
  BY <1>3, <1>4, MovedToIs
<1>6. k.next[c[1]] = c[(1 % Len(c)) + 1]
  BY <1>2, <1>3 DEF Turning, OneOn
<1>7. k.prev[c[1]] = c[((-1) % Len(c)) + 1]
  <2> DEFINE x == -1
             size == Len(c)
             i == (x % size) + 1
  <2>0. x \in Int /\ x + 1 = 0 /\ size \in Nat \ {0} /\ (0 % size) + 1 = 1
    BY <1>2
  <2> HIDE DEF x, size
  <2>1. i \in 1 .. size /\ OneOn(i, size) = ((x + 1) % size) + 1
    BY <2>0, OneMore
  <2>2. ((x + 1) % size) + 1 = 1
    BY <2>0
  <2> HIDE DEF i
  <2> USE DEF size
  <2>3. k.prev[c[OneOn(i, Len(c))]] = c[i]
    BY <1>3, <1>4, <2>1, TurningBack
  <2> QED BY <1>2, <2>1, <2>2, <2>3 DEF i, x
<1> QED BY <1>1, <1>2, <1>5, <1>6, <1>7 DEF Looks, k, c

(* The same, as the promise has it.                                        *)
LEMMA PromisedAhead ==
  ASSUME NEW r \in Elem, NEW n, NEW i, NEW k
  PROVE  /\ R!Promise!Ahead(r, n) = Circuit(links, r)[(n % Len(Circuit(links, r))) + 1]
         /\ R!Promise!Cut(r, i) <=>
              R!Promise!Become({<<r>> \o SubSeq(Circuit(links, r), i + 2, Len(Circuit(links, r))),
                                SubSeq(Circuit(links, r), 2, i + 1)})
BY DEF R!Promise!Ahead, R!Promise!Cut, Circuit

(* Next, Prev, Move, Link(nil) and Do change no ring.                      *)
LEMMA LookRings ==
  ASSUME IsFiniteSet(Elem), Rings(links), NEW r \in Elem,
         \/ R!NextOf(r) \/ R!PrevOf(r) \/ R!Link(r, Nil) \/ R!Do(r)
         \/ \E n \in RingCount : R!Move(r, n)
  PROVE  Rings(links') /\ R!Promise!Look(r)
<1> DEFINE k == R!Linked(links, r)
           c == Circuit(links, r)
           Told(op, n, e, seen) ==
             ringResult' = [op |-> op, r |-> r, s |-> Nil, n |-> n, e |-> e, seen |-> seen]
<1>1. links' = k
  BY NilApart DEF R!NextOf, R!PrevOf, R!Link, R!Do, R!Move, R!Return
<1>2. Rings(links') /\ UNCHANGED [e \in Elem |-> R!Around(R!Linked(links, e), e)]
  <2>1. links' = links \/ \E q \in Elem : links' = R!Linked(links, q)
    BY <1>1
  <2> QED BY <2>1, SameRings
<1>3. \/ Told("Next", 0, k.next[r], <<>>)
      \/ Told("Prev", 0, k.prev[r], <<>>)
      \/ Told("Link", 0, k.next[r], <<>>)
      \/ Told("Do", 0, Nil, c)
      \/ \E n \in RingCount : Told("Move", n, R!MovedTo(k, r, n), <<>>)
  BY NilApart DEF R!NextOf, R!PrevOf, R!Link, R!Do, R!Move, R!Return, Circuit
<1>4. ASSUME NEW n \in Int
      PROVE  /\ k.next[r] = R!Promise!Ahead(r, 1) /\ k.prev[r] = R!Promise!Ahead(r, -1)
             /\ R!MovedTo(k, r, n) = R!Promise!Ahead(r, n)
  <2>1. Looks(links, r, n)
    BY LooksIs
  <2> QED BY <2>1, PromisedAhead DEF Looks
<1>5. k.next[r] = R!Promise!Ahead(r, 1) /\ k.prev[r] = R!Promise!Ahead(r, -1)
  <2>1. 0 \in Int
    OBVIOUS
  <2> QED BY <1>4, <2>1
<1>6. \A n \in RingCount : R!MovedTo(k, r, n) = R!Promise!Ahead(r, n)
  <2>1. RingCount \subseteq Int
    BY ContainersAssumption DEF R!RingAssumption
  <2> QED BY <1>4, <2>1
<1>7. [e \in Elem |-> R!Around(R!Linked(links, e), e)][r] = c
  BY DEF Circuit
<1>8. \/ Told("Next", 0, R!Promise!Ahead(r, 1), <<>>)
      \/ Told("Prev", 0, R!Promise!Ahead(r, -1), <<>>)
      \/ Told("Link", 0, R!Promise!Ahead(r, 1), <<>>)
      \/ Told("Do", 0, Nil, [e \in Elem |-> R!Around(R!Linked(links, e), e)][r])
      \/ \E n \in RingCount : Told("Move", n, R!Promise!Ahead(r, n), <<>>)
  <2> HIDE DEF k, c
  <2> QED BY <1>3, <1>5, <1>6, <1>7
<1> QED BY <1>2, <1>8 DEF R!Promise!Look, R!Promise!Says

(* Link and Unlink, in one ring.                                           *)
LEMMA CutIs ==
  ASSUME IsFiniteSet(Elem), Rings(links), NEW r \in Elem, NEW s \in Elem,
         NEW k \in 0 .. Len(Circuit(links, r)) - 1,
         s = Circuit(links, r)[OneOn(k + 1, Len(Circuit(links, r)))],
         NEW m, Rings(m), \A e \in Elem : Circuit(m, e) = Circuit(links, e),
         links' = R!Joined(m, r, s)
  PROVE  Rings(links') /\ R!Promise!Cut(r, k)
<1> DEFINE c == Circuit(links, r)
           C == {<<r>> \o SubSeq(c, k + 2, Len(c)), SubSeq(c, 2, k + 1)}
           g == links'
           was == links
<1>1. Changes(m, g, C)
  <2>1. Circuit(m, r) = c
    OBVIOUS
  <2>2. k \in 0 .. Len(Circuit(m, r)) - 1 /\ s = Circuit(m, r)[OneOn(k + 1, Len(Circuit(m, r)))]
    BY <2>1
  <2>3. Changes(m, R!Joined(m, r, s),
                {<<r>> \o SubSeq(Circuit(m, r), k + 2, Len(Circuit(m, r))), SubSeq(Circuit(m, r), 2, k + 1)})
    BY <2>2, SplitIs
  <2> QED BY <2>1, <2>3
<1>2. Changes(links, links', C)
  BY <1>1 DEF Changes
<1> HIDE DEF C
<1>3. R!Promise!Become(C)
  BY <1>2, BecomeIs
<1>4. Rings(g)
  <2>1. Changes(was, g, C) /\ Rings(was)
    BY <1>2
  <2> HIDE DEF was, g
  <2> QED BY <2>1, ChangesRings
<1> QED BY <1>3, <1>4, PromisedAhead DEF C

LEMMA UnlinkRings ==
  ASSUME IsFiniteSet(Elem), Rings(links), NEW r \in Elem, NEW n \in Int, R!Unlink(r, n)
  PROVE  Rings(links') /\ R!Promise!Unlink(r, n)
<1> DEFINE k == R!Linked(links, r)
           c == Circuit(links, r)
           size == Len(c)
           s == R!MovedTo(k, r, n + 1)
<1>1. CASE n <= 0
  <2>1. /\ links' = links
        /\ ringResult' = [op |-> "Unlink", r |-> r, s |-> Nil, n |-> n, e |-> Nil, seen |-> <<>>]
    BY <1>1 DEF R!Unlink, R!Return
  <2> QED BY <1>1, <2>1, SameRings DEF R!Promise!Unlink, R!Promise!Says
<1>2. CASE n > 0
  <2>1. /\ links' = R!Joined(k, r, s)
        /\ ringResult' = [op |-> "Unlink", r |-> r, s |-> Nil, n |-> n, e |-> k.next[r], seen |-> <<>>]
    BY <1>2 DEF R!Unlink, R!Return
  <2>2. Looks(links, r, n + 1)
    BY LooksIs
  <2>3. /\ Rings(k) /\ \A e \in Elem : Circuit(k, e) = Circuit(links, e)
        /\ c \in Seq(Elem) /\ size \in Nat \ {0}
        /\ k.next[r] = c[(1 % size) + 1] /\ s = c[((n + 1) % size) + 1]
    BY <2>2 DEF Looks
  <2> DEFINE d == n % size
  <2>4. d \in 0 .. size - 1 /\ OneOn(d + 1, size) = ((n + 1) % size) + 1
    <3> HIDE DEF size
    <3> QED BY <2>3, OneMore
  <2>5. s \in Elem /\ s = c[OneOn(d + 1, size)]
    <3>1. d + 1 \in 1 .. size
      BY <2>3, <2>4
    <3>2. OneOn(d + 1, size) \in 1 .. size
      <4> HIDE DEF d, size
      <4> QED BY <2>3, <3>1, OneTurn
    <3> QED BY <2>3, <2>4, <3>2
  <2> HIDE DEF s, d, k
  <2>6. Rings(links') /\ R!Promise!Cut(r, d)
    <3>1. /\ d \in 0 .. Len(Circuit(links, r)) - 1
          /\ s = Circuit(links, r)[OneOn(d + 1, Len(Circuit(links, r)))]
      BY <2>4, <2>5
    <3> QED BY <2>1, <2>3, <2>5, <3>1, CutIs
  <2>7. k.next[r] = R!Promise!Ahead(r, 1)
    BY <2>3, PromisedAhead
  <2>8. R!Promise!Says("Unlink", r, Nil, n, R!Promise!Ahead(r, 1), <<>>)
    BY <2>1, <2>7 DEF R!Promise!Says
  <2>9. R!Promise!Cut(r, n % Len([e \in Elem |-> R!Around(R!Linked(links, e), e)][r]))
    <3>1. [e \in Elem |-> R!Around(R!Linked(links, e), e)][r] = c
      BY DEF Circuit
    <3>2. d = n % Len([e \in Elem |-> R!Around(R!Linked(links, e), e)][r])
      BY <3>1 DEF d
    <3> HIDE DEF size, c
    <3> QED BY <2>6, <3>2
  <2> QED BY <1>2, <2>6, <2>8, <2>9 DEF R!Promise!Unlink
<1> QED BY <1>1, <1>2

LEMMA LinkRings ==
  ASSUME IsFiniteSet(Elem), Rings(links), NEW r \in Elem, NEW s \in Elem, R!Link(r, s)
  PROVE  Rings(links') /\ R!Promise!Link(r, s)
<1> DEFINE ring == [e \in Elem |-> R!Around(R!Linked(links, e), e)]
           c == Circuit(links, r)
           n == Len(c)
           k == R!Linked(links, r)
           between == IF s = r THEN n - 1 ELSE (CHOOSE i \in 2 .. n : c[i] = s) - 2
           g == links'
           was == links
<1>1. /\ links' = R!Joined(links, r, s)
      /\ ringResult' = [op |-> "Link", r |-> r, s |-> s, n |-> 0, e |-> k.next[r], seen |-> <<>>]
  BY NilApart DEF R!Link, R!Return
<1>2. Looks(links, r, 0)
  BY LooksIs
<1>3. /\ c \in Seq(Elem) /\ n \in Nat \ {0} /\ c[1] = r
      /\ k.next[r] = c[(1 % n) + 1]
  BY <1>2 DEF Looks
<1>4. R!Promise!Says("Link", r, s, 0, R!Promise!Ahead(r, 1), <<>>)
  <2>1. k.next[r] = R!Promise!Ahead(r, 1)
    BY <1>3, PromisedAhead
  <2> QED BY <1>1, <2>1 DEF R!Promise!Says
<1>5. ring[r] = c /\ ring[s] = Circuit(links, s)
  BY DEF Circuit
<1>6. s \in R!Promise!Range(c) <=> Among(s, c)
  BY <1>3, RangeIs
<1>7. CASE Among(s, c)
  <2>1. between \in 0 .. n - 1 /\ s = c[OneOn(between + 1, n)]
    <3>1. CASE s = r
      <4>1. between = n - 1 /\ between + 1 = n /\ n \in 1 .. n
        BY <1>3, <3>1
      <4>2. OneOn(n, n) = 1
        BY <1>3, <4>1, OneTurn
      <4> QED BY <1>3, <3>1, <4>1, <4>2
    <3>2. CASE s # r
      <4>1. PICK i \in 1 .. n : c[i] = s
        BY <1>7 DEF Among
      <4>2. i \in 2 .. n
        BY <1>3, <3>2, <4>1
      <4> DEFINE j == CHOOSE i0 \in 2 .. n : c[i0] = s
      <4>3. j \in 2 .. n /\ c[j] = s
        BY <4>1, <4>2
      <4>4. between = j - 2
        BY <3>2
      <4> HIDE DEF j, between, n
      <4>5. between + 1 \in 1 .. n /\ between + 1 # n /\ (between + 1) + 1 = j /\ between \in 0 .. n - 1
        BY <1>3, <4>3, <4>4
      <4>6. OneOn(between + 1, n) = j
        BY <1>3, <4>5, OneTurn
      <4> QED BY <4>3, <4>5, <4>6
    <3> QED BY <3>1, <3>2
  <2> HIDE DEF between
  <2>2. Rings(links') /\ R!Promise!Cut(r, between)
    <3>1. /\ between \in 0 .. Len(Circuit(links, r)) - 1
          /\ s = Circuit(links, r)[OneOn(between + 1, Len(Circuit(links, r)))]
      BY <2>1
    <3>2. \E m : Rings(m) /\ (\A e \in Elem : Circuit(m, e) = Circuit(links, e)) /\ links' = R!Joined(m, r, s)
      BY <1>1
    <3> QED BY <3>1, <3>2, CutIs
  <2>3. R!Promise!Link(r, s)
    <3>1. between = IF s = r THEN Len(ring[r]) - 1
                    ELSE (CHOOSE i \in 2 .. Len(ring[r]) : ring[r][i] = s) - 2
      BY <1>5 DEF between
    <3>2. s \in R!Promise!Range(ring[r])
      BY <1>5, <1>6, <1>7
    <3> QED BY <1>4, <2>2, <3>1, <3>2 DEF R!Promise!Link
  <2> QED BY <2>2, <2>3
<1>8. CASE ~ Among(s, c)
  <2> DEFINE C == {<<r>> \o Circuit(links, s) \o Tail(c)}
  <2>1. Changes(links, links', C)
    <3>1. Changes(was, R!Joined(was, r, s), {<<r>> \o Circuit(was, s) \o Tail(Circuit(was, r))})
      <4>1. Rings(was) /\ ~ Among(s, Circuit(was, r))
        BY <1>8
      <4> HIDE DEF was
      <4> QED BY <4>1, JoinIs
    <3> QED BY <1>1, <3>1
  <2>2. Rings(g)
    <3>1. Changes(was, g, C) /\ Rings(was)
      BY <2>1
    <3> HIDE DEF was, g, C
    <3> QED BY <3>1, ChangesRings
  <2>3. R!Promise!Become(C)
    <3> HIDE DEF C
    <3> QED BY <2>1, BecomeIs
  <2>4. R!Promise!Link(r, s)
    <3>1. ~ (s \in R!Promise!Range(ring[r]))
      BY <1>5, <1>6, <1>8
    <3>2. R!Promise!Become({<<r>> \o ring[s] \o Tail(ring[r])})
      BY <1>5, <2>3
    <3> QED BY <1>4, <3>1, <3>2 DEF R!Promise!Link
  <2> QED BY <2>2, <2>4
<1> QED BY <1>7, <1>8

LEMMA CyclesNext ==
  ASSUME IsFiniteSet(Elem), Rings(links), R!Next
  PROVE  Rings(links') /\ R!Promise!Next
<1>0. RingCount \subseteq Int
  BY ContainersAssumption DEF R!RingAssumption
<1>1. ASSUME NEW n \in RingCount, R!NewRing(n) PROVE Rings(links') /\ R!Promise!Next
  <2>1. Rings(links') /\ R!Promise!NewRing(n)
    BY <1>0, <1>1, NewRingRings
  <2> QED BY <2>1 DEF R!Promise!Next
<1>2. ASSUME NEW r \in Elem,
             \/ R!NextOf(r) \/ R!PrevOf(r) \/ R!Link(r, Nil) \/ R!Do(r)
             \/ \E n \in RingCount : R!Move(r, n)
      PROVE  Rings(links') /\ R!Promise!Next
  <2>1. Rings(links') /\ R!Promise!Look(r)
    BY <1>2, LookRings
  <2> QED BY <2>1 DEF R!Promise!Next
<1>3. ASSUME NEW r \in Elem, NEW n \in RingCount, R!Unlink(r, n) PROVE Rings(links') /\ R!Promise!Next
  <2>1. Rings(links') /\ R!Promise!Unlink(r, n)
    BY <1>0, <1>3, UnlinkRings
  <2> QED BY <2>1 DEF R!Promise!Next
<1>4. ASSUME NEW r \in Elem, NEW s \in Elem, R!Link(r, s) PROVE Rings(links') /\ R!Promise!Next
  <2>1. Rings(links') /\ R!Promise!Link(r, s)
    BY <1>4, LinkRings
  <2> QED BY <2>1 DEF R!Promise!Next
<1>5. ASSUME R!Do(Nil) PROVE Rings(links') /\ R!Promise!Next
  <2>1. /\ links' = links
        /\ ringResult' = [op |-> "Do", r |-> Nil, s |-> Nil, n |-> 0, e |-> Nil, seen |-> <<>>]
    BY <1>5 DEF R!Do, R!Return
  <2> QED BY <2>1, SameRings DEF R!Promise!Next, R!Promise!Says
<1> QED BY <1>1, <1>2, <1>3, <1>4, <1>5 DEF R!Next

LEMMA CyclesInit ==
  ASSUME IsFiniteSet(Elem), R!Init PROVE Rings(links) /\ R!Promise!Init
<1>1. Closed(links) /\ \A e \in Elem : links.next[e] = Nil
  BY DEF R!Init, Closed, LinkType, Mutual
<1>2. ASSUME NEW e \in Elem PROVE Ringed(links, <<e>>) /\ Circuit(links, e) = <<e>>
  <2> DEFINE s == <<e>>
  <2>1. Ringed(links, s) /\ s[1] = e
    BY <1>1 DEF Ringed
  <2> HIDE DEF s
  <2>2. 1 \in 1 .. Len(s)
    BY <2>1 DEF Ringed, Turning
  <2>3. Circuit(links, s[1]) = s
    BY <1>1, <2>1, <2>2, SeenIs
  <2> QED BY <2>1, <2>3 DEF s
<1>3. Rings(links)
  <2>1. ASSUME NEW e \in Elem PROVE \E s : Ringed(links, s) /\ s[1] = e
    <3>1. Ringed(links, <<e>>) /\ <<e>>[1] = e
      BY <1>2
    <3> QED BY <3>1
  <2> QED BY <1>1, <2>1 DEF Rings
<1> QED BY <1>2, <1>3 DEF R!Init, R!Promise!Init, R!NoResult, R!Promise!NoResult, Circuit

(* IsCycles: Ring implements Cycles.  For any finite set of elements and   *)
(* any counts, every method of ring.go does to the cycles what its comment *)
(* says: Link makes one ring of two, or takes out what lies between, and   *)
(* Unlink takes out n modulo the length; links set lazily show in no ring. *)
THEOREM RingsAreCycles == IsFiniteSet(Elem) /\ Spec => IsCycles
<1> SUFFICES ASSUME IsFiniteSet(Elem) PROVE Spec => IsCycles
  OBVIOUS
<1> DEFINE Inv == Rings(links)
<1>1. Init => Inv /\ R!Promise!Init
  BY CyclesInit DEF Init
<1>2. Inv /\ [Next]_<<kind, lists, rings, heaps, repeats>>
        => Inv' /\ [R!Promise!Next]_(R!Promise!vars)
  <2>1. Inv /\ RingStep => Inv' /\ R!Promise!Next
    BY CyclesNext DEF RingStep
  <2>2. Inv /\ UNCHANGED rings => Inv' /\ UNCHANGED R!Promise!vars
    BY DEF rings, R!Promise!vars
  <2> HIDE DEF Inv
  <2> QED BY <2>1, <2>2 DEF Next, ListStep, HeapStep, RepeatStep
<1> HIDE DEF Inv
<1> QED BY <1>1, <1>2, PTL DEF Spec, IsCycles, R!IsCycles, R!Promise!Spec

-----------------------------------------------------------------------------
(* Repeat.  An int wraps round; a product shows that it has by not being   *)
(* divisible back, whatever its sign.                                      *)

LEMMA MachineInt == MaxInt \in Nat /\ RepeatCount \subseteq Int /\ Zero \in Mark
BY ContainersAssumption DEF P!RepeatAssumption

LEMMA WrappedIs ==
  ASSUME NEW x \in Nat
  PROVE  /\ P!Wrapped(x) \in Int /\ P!Wrapped(x) <= MaxInt
         /\ x <= MaxInt => P!Wrapped(x) = x
         /\ x > MaxInt /\ x <= 2 * MaxInt => P!Wrapped(x) < 0
<1> DEFINE all == 2 * (MaxInt + 1)
           y == x + MaxInt + 1
<1>1. MaxInt \in Nat /\ all \in Nat \ {0} /\ y \in Int /\ all = MaxInt + 1 + MaxInt + 1
  BY MachineInt
<1>2. P!Wrapped(x) = (y % all) - (MaxInt + 1)
  BY DEF P!Wrapped
<1>3. ASSUME x <= MaxInt PROVE y % all = y
  <2>1. y \in 0 .. all - 1 /\ y = all * 0 + y
    BY <1>1, <1>3
  <2> HIDE DEF y, all
  <2> QED BY <1>1, <2>1, Remainder
<1>4. ASSUME x > MaxInt, x <= 2 * MaxInt PROVE y % all = x - (MaxInt + 1)
  <2> DEFINE d == x - (MaxInt + 1)
  <2>1. d \in 0 .. all - 1 /\ y = all * 1 + d /\ 1 \in Int
    BY <1>1, <1>4
  <2> HIDE DEF y, all, d
  <2>2. y % all = d
    BY <1>1, <2>1, Remainder
  <2> QED BY <2>2 DEF d
<1>5. y % all \in 0 .. all - 1
  <2> HIDE DEF y, all
  <2> QED BY <1>1
<1>6. P!Wrapped(x) \in Int /\ P!Wrapped(x) <= MaxInt
  <2> HIDE DEF y
  <2> QED BY <1>1, <1>2, <1>5
<1>7. x <= MaxInt => P!Wrapped(x) = x
  BY <1>1, <1>2, <1>3
<1>8. x > MaxInt /\ x <= 2 * MaxInt => P!Wrapped(x) < 0
  BY <1>1, <1>2, <1>4
<1> QED BY <1>6, <1>7, <1>8

LEMMA DividedIs ==
  ASSUME NEW w \in Nat, NEW c \in Nat \ {0}, NEW n \in Nat
  PROVE  /\ w = c * n => w \div c = n
         /\ w < c * n => w \div c < n
<1> DEFINE q == w \div c
<1>1. q \in Int /\ c * q <= w /\ w < c * q + c
  OBVIOUS
<1> HIDE DEF q
<1>2. ASSUME q >= n + 1 PROVE c * q >= c * n + c
  <2>1. PICK j \in Nat : q = n + 1 + j
    <3>1. q - (n + 1) \in Nat /\ q = n + 1 + (q - (n + 1))
      BY <1>1, <1>2
    <3> QED BY <3>1
  <2>2. c * (n + 1 + j) = c * n + c + c * j /\ c * j \in Nat
    OBVIOUS
  <2> QED BY <2>1, <2>2
<1>3. ASSUME q <= n - 1 PROVE c * n >= c * q + c
  <2>1. PICK j \in Nat : n = q + 1 + j
    <3>1. n - (q + 1) \in Nat /\ n = q + 1 + (n - (q + 1))
      BY <1>1, <1>3
    <3> QED BY <3>1
  <2>2. c * (q + 1 + j) = c * q + c + c * j /\ c * j \in Nat
    BY <1>1
  <2> QED BY <1>1, <2>1, <2>2
<1>4. w = c * n => q = n
  BY <1>1, <1>2, <1>3
<1>5. w < c * n => q < n
  <2>1. ASSUME q >= n, w < c * n PROVE FALSE
    <3>1. CASE q = n
      BY <1>1, <2>1, <3>1
    <3>2. CASE q >= n + 1
      <4>1. c * q >= c * n + c
        BY <1>2, <3>2
      <4>2. c * q \in Int /\ c * n \in Int
        BY <1>1
      <4> QED BY <1>1, <2>1, <4>1, <4>2
    <3> QED BY <1>1, <2>1, <3>1, <3>2
  <2> QED BY <1>1, <2>1
<1> QED BY <1>4, <1>5 DEF q

LEMMA OverflowsIs ==
  ASSUME NEW n \in Nat, NEW c \in Nat \ {0}
  PROVE  P!Overflows(n, c) <=> n * c > MaxInt
<1> DEFINE x == n * c
           w == P!Wrapped(x)
<1>1. x \in Nat /\ x = c * n /\ MaxInt \in Nat
  BY MachineInt
<1>2. P!Overflows(n, c) <=> P!Quotient(w, c) # n
  BY DEF P!Overflows
<1> HIDE DEF x
<1>3. w \in Int /\ w <= MaxInt /\ (x <= MaxInt => w = x)
  BY <1>1, WrappedIs
<1> HIDE DEF w
<1>4. CASE x <= MaxInt
  <2>1. w = c * n /\ w \in Nat
    BY <1>1, <1>3, <1>4
  <2>2. w \div c = n
    BY <2>1, DividedIs
  <2> QED BY <1>1, <1>2, <1>4, <2>1, <2>2 DEF P!Quotient, x
<1>5. CASE x > MaxInt
  <2>1. CASE w < 0
    <3>1. (- w) \div c >= 0 /\ (- w) \div c \in Int
      <4> DEFINE v == - w
      <4>1. v \in Nat
        BY <1>3, <2>1
      <4> HIDE DEF v
      <4>2. v \div c \in Nat
        BY <4>1
      <4> QED BY <4>2 DEF v
    <3>2. P!Quotient(w, c) <= 0
      BY <2>1, <3>1 DEF P!Quotient
    <3>3. n > 0
      <4>1. n = 0 => c * n = 0
        OBVIOUS
      <4> QED BY <1>1, <1>5, <4>1
    <3> QED BY <1>2, <1>5, <3>2, <3>3 DEF x
  <2>2. CASE w >= 0
    <3>1. w \in Nat /\ w < c * n
      BY <1>1, <1>3, <1>5, <2>2
    <3>2. w \div c < n
      BY <3>1, DividedIs
    <3> QED BY <1>2, <1>5, <2>2, <3>1, <3>2 DEF P!Quotient, x
  <2> QED BY <1>3, <2>1, <2>2
<1> QED BY <1>1, <1>4, <1>5

(* Repeat's loop: after k turns bp is a multiple of n, what is before it   *)
(* are copies, and it has reached the end or is beyond k; or it has        *)
(* wrapped round.                                                          *)
Sized(b, n, size) ==
  /\ n \in Nat /\ b \in [1 .. n -> Mark] /\ Len(b) = n
  /\ size \in Nat /\ size <= MaxInt /\ (n = 0 => size = 0)

Made(b, n, size) == [i \in 1 .. size |-> b[((i - 1) % n) + 1]]

Repeating(b, n, size, k, c) ==
  /\ c.nb \in [1 .. size -> Mark] /\ c.bp \in Int
  /\ \/ c.bp < 0 /\ 2 * size > MaxInt + 1
     \/ /\ c.bp >= 0 /\ (c.bp >= size \/ c.bp > k)
        /\ \E q \in Nat : c.bp = n * q
        /\ \A i \in 1 .. size : i <= c.bp => c.nb[i] = Made(b, n, size)[i]

LEMMA CopiedCopies ==
  ASSUME NEW b, NEW n, NEW size, Sized(b, n, size)
  PROVE  Repeating(b, n, size, 0, P!Copied(b, size))
<1> DEFINE c == P!Copied(b, size)
<1>1. /\ n \in Nat /\ b \in [1 .. n -> Mark] /\ Len(b) = n
      /\ size \in Nat /\ (n = 0 => size = 0)
  BY DEF Sized
<1>2. c.nb = [i \in 1 .. size |-> IF i <= n THEN b[i] ELSE Zero] /\ c.bp = n
  BY <1>1 DEF P!Copied
<1> HIDE DEF c
<1>3. \A i \in 1 .. size : i <= n => i \in 1 .. n
  BY <1>1
<1>4. c.nb \in [1 .. size -> Mark]
  BY <1>1, <1>2, <1>3, MachineInt
<1>5. ASSUME NEW i \in 1 .. size, i <= n PROVE c.nb[i] = Made(b, n, size)[i]
  <2>1. n \in Nat \ {0} /\ i - 1 \in 0 .. n - 1 /\ i - 1 \in Int /\ i - 1 = n * 0 + (i - 1)
    BY <1>1, <1>5
  <2>2. (i - 1) % n = i - 1
    BY <2>1, Remainder
  <2> QED BY <1>2, <1>5, <2>1, <2>2 DEF Made
<1>6. \E q \in Nat : n = n * q
  BY <1>1
<1>7. n >= 0 /\ (n >= size \/ n > 0)
  BY <1>1
<1> QED BY <1>1, <1>2, <1>4, <1>5, <1>6, <1>7 DEF Repeating, c

LEMMA TurnCopies ==
  ASSUME NEW b, NEW n, NEW size, Sized(b, n, size), NEW k \in 1 .. size,
         NEW c, Repeating(b, n, size, k - 1, c)
  PROVE  Repeating(b, n, size, k, P!Turn(c, size))
<1> DEFINE m == P!Turn(c, size)
           bp == c.bp
           x == 2 * bp
<1>1. n \in Nat \ {0} /\ size \in Nat /\ size <= MaxInt /\ MaxInt \in Nat
  BY MachineInt DEF Sized
<1>2. c.nb \in [1 .. size -> Mark] /\ bp \in Int
  BY DEF Repeating
<1>3. CASE bp < 0
  <2>1. m = c
    BY <1>3 DEF P!Turn
  <2> QED BY <1>3, <2>1 DEF Repeating
<1>4. CASE bp >= size
  <2>1. m = c
    BY <1>4 DEF P!Turn
  <2>2. bp >= 0
    BY <1>1, <1>2, <1>4
  <2> QED BY <1>1, <1>2, <1>4, <2>1, <2>2 DEF Repeating
<1>5. CASE bp >= 0 /\ bp < size
  <2>1. /\ m.nb = [i \in 1 .. size |-> IF i \in bp + 1 .. x THEN c.nb[i - bp] ELSE c.nb[i]]
        /\ m.bp = P!Wrapped(x)
    <3>1. ~ (bp < 0 \/ bp >= size)
      BY <1>1, <1>2, <1>5
    <3> QED BY <3>1 DEF P!Turn
  <2>2. /\ bp > k - 1 /\ \E q \in Nat : bp = n * q
        /\ \A i \in 1 .. size : i <= bp => c.nb[i] = Made(b, n, size)[i]
    <3>1. ~ (bp < 0) /\ ~ (bp >= size)
      BY <1>1, <1>2, <1>5
    <3> QED BY <3>1 DEF Repeating
  <2> HIDE DEF m
  <2>3. x \in Nat /\ x = bp + bp /\ x <= 2 * MaxInt /\ x >= k + 1 /\ bp \in Nat \ {0}
    BY <1>1, <1>2, <1>5, <2>2
  <2> HIDE DEF x
  <2>4. m.nb \in [1 .. size -> Mark]
    <3>1. \A i \in 1 .. size : i \in bp + 1 .. x => i - bp \in 1 .. size
      BY <1>1, <2>3
    <3> QED BY <1>2, <2>1, <3>1
  <2>5. /\ m.bp \in Int /\ (x <= MaxInt => m.bp = x)
        /\ x > MaxInt /\ x <= 2 * MaxInt => m.bp < 0
    <3>1. x \in Nat
      BY <2>3
    <3>2. /\ P!Wrapped(x) \in Int /\ (x <= MaxInt => P!Wrapped(x) = x)
          /\ x > MaxInt /\ x <= 2 * MaxInt => P!Wrapped(x) < 0
      BY <3>1, WrappedIs
    <3> QED BY <2>1, <3>2
  <2>6. CASE x > MaxInt
    <3>1. m.bp < 0
      BY <2>3, <2>5, <2>6
    <3>2. 2 * size > MaxInt + 1
      BY <1>1, <1>2, <1>5, <2>3, <2>6
    <3> QED BY <2>4, <2>5, <3>1, <3>2 DEF Repeating, m
  <2>7. CASE x <= MaxInt
    <3>1. m.bp = x
      BY <2>5, <2>7
    <3>2. PICK q \in Nat : bp = n * q
      BY <2>2
    <3>3. \E p \in Nat : x = n * p
      <4>1. n * (2 * q) = n * q + n * q
        BY <1>1
      <4> QED BY <2>3, <3>2, <4>1
    <3>4. ASSUME NEW i \in 1 .. size, i <= x PROVE m.nb[i] = Made(b, n, size)[i]
      <4>1. CASE i <= bp
        <5>1. ~ (i \in bp + 1 .. x)
          BY <1>2, <4>1
        <5> QED BY <2>1, <2>2, <4>1, <5>1
      <4>2. CASE i > bp
        <5> DEFINE j == i - bp
                   y == j - 1
                   d == y % n
                   r == y \div n
        <5>0. i > bp /\ i <= bp + bp /\ bp \in Nat /\ size \in Nat /\ i \in 1 .. size /\ x = bp + bp
          BY <1>1, <2>3, <3>4, <4>2
        <5>1. i \in bp + 1 .. x /\ j \in 1 .. size /\ j <= bp /\ y \in Nat /\ i - 1 = bp + y
          <6> HIDE DEF bp
          <6> QED BY <5>0
        <5>2. m.nb[i] = c.nb[j] /\ c.nb[j] = Made(b, n, size)[j]
          BY <2>1, <2>2, <5>1
        <5> HIDE DEF y
        <5>3. y = n * r + d /\ d \in 0 .. n - 1 /\ r \in Int
          BY <1>1, <5>1
        <5>4. i - 1 = n * (q + r) + d /\ q + r \in Int /\ i - 1 \in Int
          <6> HIDE DEF j, r, d
          <6>1. n * (q + r) = n * q + n * r /\ n * q \in Int /\ n * r \in Int /\ q + r \in Int
            BY <1>1, <5>3
          <6> DEFINE u == n * q
                     v == n * r
          <6>2. n * (q + r) = u + v /\ u \in Int /\ v \in Int /\ i - 1 = u + y /\ y = v + d
            BY <3>2, <5>1, <5>3, <6>1
          <6> HIDE DEF u, v
          <6> QED BY <5>3, <6>1, <6>2
        <5> HIDE DEF d, r
        <5>5. (i - 1) % n = d
          BY <1>1, <5>3, <5>4, Remainder
        <5>6. (j - 1) % n = (i - 1) % n
          BY <5>5 DEF d, y
        <5> QED BY <5>1, <5>2, <5>6 DEF Made
      <4> QED BY <1>2, <4>1, <4>2
    <3>5. x >= 0 /\ x > k
      BY <2>3
    <3> QED BY <2>3, <2>4, <3>1, <3>3, <3>4, <3>5 DEF Repeating, m
  <2> QED BY <1>1, <2>3, <2>6, <2>7
<1> QED BY <1>1, <1>2, <1>3, <1>4, <1>5

LEMMA DoubledIs ==
  ASSUME NEW b, NEW n, NEW size, Sized(b, n, size)
  PROVE  LET d == P!Doubled(b, size)
         IN  \/ d.bp < 0 /\ 2 * size > MaxInt + 1
             \/ ~ (d.bp < 0) /\ d.nb = Made(b, n, size)
<1> DEFINE S == [nb : [1 .. size -> Mark], bp : Int]
           D == [k \in 0 .. size |-> {c \in S : Repeating(b, n, size, k, c)}]
           F == [k \in 1 .. size |-> [c \in D[k - 1] |-> P!Turn(c, size)]]
           x == P!Copied(b, size)
           Is(f) == f = [k \in 0 .. size |-> IF k = 0 THEN x ELSE P!Turn(f[k - 1], size)]
           step == CHOOSE f : Is(f)
<1>1. size \in Nat
  BY DEF Sized
<1>2. ASSUME NEW k, NEW c, Repeating(b, n, size, k, c), c = [nb |-> c.nb, bp |-> c.bp] PROVE c \in S
  BY <1>2 DEF Repeating
<1>3. x \in S /\ Repeating(b, n, size, 0, x)
  <2>1. x = [nb |-> x.nb, bp |-> x.bp]
    BY DEF P!Copied
  <2>2. Repeating(b, n, size, 0, x)
    BY CopiedCopies
  <2> HIDE DEF x, S
  <2> QED BY <1>2, <2>1, <2>2
<1>4. ASSUME NEW k \in 1 .. size, NEW c \in S, Repeating(b, n, size, k - 1, c)
      PROVE  P!Turn(c, size) \in S /\ Repeating(b, n, size, k, P!Turn(c, size))
  <2> DEFINE t == P!Turn(c, size)
  <2>1. Repeating(b, n, size, k, t)
    BY <1>4, TurnCopies
  <2>2. t = [nb |-> t.nb, bp |-> t.bp]
    BY DEF P!Turn
  <2> HIDE DEF t, S
  <2>3. t \in S
    BY <1>2, <2>1, <2>2
  <2> QED BY <2>1, <2>3 DEF t
<1> HIDE DEF S, x
<1>5. \A k \in 0 .. size : D[k] = {c \in S : Repeating(b, n, size, k, c)}
  OBVIOUS
<1>6. \A k \in 1 .. size : k - 1 \in 0 .. size /\ k \in 0 .. size
  BY <1>1
<1> HIDE DEF D
<1>7. x \in D[0]
  BY <1>1, <1>3, <1>5
<1>8. \A k \in 1 .. size : \A c \in D[k - 1] : F[k][c] = P!Turn(c, size) /\ P!Turn(c, size) \in D[k]
  BY <1>4, <1>5, <1>6
<1> HIDE DEF F
<1>9. \E f : Is(f)
  <2>1. PICK f : Loop(f, size, x, F) /\ \A k \in 0 .. size : f[k] \in D[k]
    <3>1. \A k \in 1 .. size : \A c \in D[k - 1] : F[k][c] \in D[k]
      BY <1>8
    <3> QED BY <1>1, <1>7, <3>1, LoopExists
  <2>2. \A k \in 0 .. size : k # 0 => F[k][f[k - 1]] = P!Turn(f[k - 1], size)
    <3>1. \A k \in 0 .. size : k # 0 => k \in 1 .. size /\ k - 1 \in 0 .. size
      BY <1>1
    <3> QED BY <1>8, <2>1, <3>1
  <2> QED BY <2>1, <2>2 DEF Loop
<1>10. Is(step)
  BY <1>9
<1>11. P!Doubled(b, size) = step[size]
  BY DEF P!Doubled, x
<1> HIDE DEF step
<1>12. step[0] = x /\ \A k \in 1 .. size : step[k] = P!Turn(step[k - 1], size)
  BY <1>1, <1>6, <1>10
<1>13. step[0] \in D[0] /\ \A k \in 1 .. size : step[k - 1] \in D[k - 1] => step[k] \in D[k]
  BY <1>7, <1>8, <1>12
<1>14. \A k \in 0 .. size : step[k] \in D[k]
  BY <1>1, <1>13, LoopHolds
<1> DEFINE d == step[size]
<1>15. Repeating(b, n, size, size, d)
  BY <1>1, <1>5, <1>14
<1> HIDE DEF d
<1>16. CASE d.bp < 0
  <2>1. 2 * size > MaxInt + 1
    BY <1>16, <1>15 DEF Repeating
  <2> QED BY <1>11, <1>16, <2>1 DEF d
<1>17. CASE ~ (d.bp < 0)
  <2>1. d.nb \in [1 .. size -> Mark] /\ d.bp >= size /\ d.bp \in Int
        /\ \A i \in 1 .. size : i <= d.bp => d.nb[i] = Made(b, n, size)[i]
    BY <1>1, <1>15, <1>17 DEF Repeating
  <2>2. \A i \in 1 .. size : d.nb[i] = Made(b, n, size)[i]
    BY <1>1, <2>1
  <2>3. d.nb = Made(b, n, size)
    BY <2>1, <2>2 DEF Made
  <2> QED BY <1>11, <1>17, <2>3 DEF d
<1> QED BY <1>16, <1>17

(* How a call may end, with a result of size items.                        *)
Outcome(b, n, count, size, r) ==
  \/ count < 0 /\ r.end = "negative repeat count"
  \/ count >= 0 /\ size > MaxInt /\ r.end = "count overflows"
  \/ /\ count >= 0 /\ size <= MaxInt
     /\ \/ r = [out |-> Made(b, n, size), end |-> "return"]
        \/ 2 * size > MaxInt + 1 /\ r.end = "bounds"

LEMMA RepeatedIs ==
  ASSUME NEW n \in Nat, NEW b \in [1 .. n -> Mark], NEW count \in Int
  PROVE  Len(b) = n /\ Outcome(b, n, count, n * count, P!Repeated(b, count))
<1> DEFINE r == P!Repeated(b, count)
           size == n * count
           d == P!Doubled(b, size)
<1>1. Len(b) = n
  OBVIOUS
<1>2. CASE count = 0
  <2>1. r = [out |-> <<>>, end |-> "return"]
    BY <1>2 DEF P!Repeated
  <2>2. size = 0 /\ 1 .. 0 = {} /\ 0 <= MaxInt /\ count >= 0
    BY <1>2, MachineInt
  <2>3. Made(b, n, 0) = <<>>
    BY <2>2 DEF Made
  <2> HIDE DEF r, size
  <2>4. Outcome(b, n, count, size, r)
    BY <2>1, <2>2, <2>3 DEF Outcome
  <2> QED BY <1>1, <2>4 DEF r, size
<1>3. CASE count < 0
  <2>1. r.end = "negative repeat count"
    BY <1>3 DEF P!Repeated
  <2> HIDE DEF r, size
  <2>2. Outcome(b, n, count, size, r)
    BY <1>3, <2>1 DEF Outcome
  <2> QED BY <1>1, <2>2 DEF r, size
<1>4. CASE count > 0
  <2>0. count # 0 /\ ~ (count < 0) /\ count >= 0 /\ count \in Nat \ {0}
    BY <1>4
  <2>1. r = IF P!Overflows(n, count) THEN [out |-> <<>>, end |-> "count overflows"]
            ELSE IF d.bp < 0 THEN [out |-> <<>>, end |-> "bounds"] ELSE [out |-> d.nb, end |-> "return"]
    BY <1>1, <2>0, Zenon DEF P!Repeated
  <2>2. P!Overflows(n, count) <=> size > MaxInt
    BY <2>0, OverflowsIs
  <2>3. size \in Nat /\ (n = 0 => size = 0)
    BY <2>0
  <2> HIDE DEF r, size, d
  <2>4. ASSUME size > MaxInt PROVE Outcome(b, n, count, size, r)
    <3>1. r.end = "count overflows"
      BY <2>1, <2>2, <2>4
    <3> QED BY <2>0, <2>4, <3>1 DEF Outcome
  <2>5. ASSUME size <= MaxInt PROVE Outcome(b, n, count, size, r)
    <3>1. Sized(b, n, size)
      BY <1>1, <2>3, <2>5 DEF Sized
    <3>2. \/ d.bp < 0 /\ 2 * size > MaxInt + 1
          \/ ~ (d.bp < 0) /\ d.nb = Made(b, n, size)
      BY <3>1, DoubledIs DEF d
    <3>3. ~ (size > MaxInt)
      BY <2>3, <2>5, MachineInt
    <3>4. \/ r = [out |-> Made(b, n, size), end |-> "return"]
          \/ 2 * size > MaxInt + 1 /\ r.end = "bounds"
      BY <2>1, <2>2, <3>2, <3>3
    <3> QED BY <2>0, <2>5, <3>4 DEF Outcome
  <2>6. size > MaxInt \/ size <= MaxInt
    BY <2>3, MachineInt
  <2>7. Outcome(b, n, count, size, r)
    BY <2>4, <2>5, <2>6
  <2> QED BY <1>1, <2>7 DEF r, size
<1> QED BY <1>2, <1>3, <1>4

LEMMA RepeatsNext == ASSUME P!Next PROVE Repeats'
<1>0. PICK n \in 0 .. MaxLen, count \in RepeatCount : \E b \in [1 .. n -> Mark] : P!Repeat(b, count)
  BY DEF P!Next
<1>1. PICK b \in [1 .. n -> Mark] : P!Repeat(b, count)
  BY <1>0
<1> DEFINE size == n * count
           r == P!Repeated(b, count)
<1>2. n \in Nat /\ count \in Int
  BY MachineInt
<1>3. call' = [b |-> b, count |-> count] /\ repeated' = r
  BY <1>1 DEF P!Repeat
<1>4. Len(b) = n /\ Outcome(b, n, count, size, r)
  BY <1>2, RepeatedIs
<1>5. size \in Int /\ MaxInt \in Int
  BY <1>2, MachineInt
<1>6. Len(call'.b) = n /\ call'.count = count /\ call'.b = b
  BY <1>3, <1>4
<1> HIDE DEF r
<1>7. CASE count < 0
  <2>1. ~ (count >= 0)
    BY <1>2, <1>7
  <2>2. r.end = "negative repeat count"
    BY <1>4, <2>1 DEF Outcome
  <2> QED BY <1>3, <1>6, <1>7, <2>1, <2>2 DEF Repeats, P!Repeats
<1>8. CASE count >= 0 /\ size > MaxInt
  <2>1. ~ (count < 0) /\ ~ (size <= MaxInt)
    BY <1>2, <1>5, <1>8
  <2>2. r.end = "count overflows"
    BY <1>4, <2>1 DEF Outcome
  <2> QED BY <1>3, <1>6, <1>8, <2>1, <2>2 DEF Repeats, P!Repeats
<1>9. CASE count >= 0 /\ size <= MaxInt
  <2>1. ~ (count < 0) /\ ~ (size > MaxInt)
    BY <1>2, <1>5, <1>9
  <2>2. \/ r = [out |-> Made(b, n, size), end |-> "return"]
        \/ 2 * size > MaxInt + 1 /\ r.end = "bounds"
    BY <1>4, <2>1 DEF Outcome
  <2> QED BY <1>3, <1>6, <1>9, <2>1, <2>2 DEF Repeats, P!Repeats, Made
<1> QED BY <1>2, <1>5, <1>7, <1>8, <1>9

LEMMA RepeatsInit == ASSUME P!Init PROVE Repeats
<1>1. call.b = <<>> /\ call.count = 0 /\ repeated = [out |-> <<>>, end |-> "return"]
  BY DEF P!Init
<1>2. Len(call.b) * call.count = 0 /\ Len(call.b) = 0
  BY <1>1
<1>3. [i \in 1 .. 0 |-> call.b[((i - 1) % Len(call.b)) + 1]] = <<>>
  <2>1. 1 .. 0 = {}
    OBVIOUS
  <2> QED BY <2>1
<1>4. 0 <= MaxInt /\ ~ (0 > MaxInt)
  BY MachineInt
<1> QED BY <1>1, <1>2, <1>3, <1>4 DEF Repeats, P!Repeats

(* Repeats: with ints of any range, Repeat returns exactly count copies,   *)
(* panics with the error its comment names for a negative count and for    *)
(* every product that is no int, whatever sign it wraps round to, and      *)
(* panics otherwise only when the result takes more than half of all ints. *)
THEOREM RepeatsOrPanics == Spec => []Repeats
<1>1. Init => Repeats
  BY RepeatsInit DEF Init
<1>2. Repeats /\ [Next]_<<kind, lists, rings, heaps, repeats>> => Repeats'
  <2>1. RepeatStep => Repeats'
    BY RepeatsNext DEF RepeatStep
  <2>2. Repeats /\ UNCHANGED repeats => Repeats'
    BY DEF repeats, Repeats, P!Repeats
  <2> QED BY <2>1, <2>2 DEF Next, ListStep, RingStep, HeapStep
<1> QED BY <1>1, <1>2, PTL DEF Spec

=============================================================================
