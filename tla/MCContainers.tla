----------------------------- MODULE MCContainers -----------------------------
(* Small instances of Containers.                                          *)
EXTENDS Containers, TLC

MCRingCount == -2 .. 6
MCRepeatCount == -1 .. MaxInt

(* What the last calls returned decides nothing that comes after, and one  *)
(* element or list is as good as another.                                  *)
View == <<kind, list, dropped, links, h, call>>
Alike == Permutations(Elem) \cup Permutations(Lists)

=============================================================================
