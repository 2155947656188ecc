----------------------------- MODULE MCRingFilter -----------------------------
(***************************************************************************)
(* RingFilter on small rings, with the bounds of MCRingBuffer: slices up   *)
(* to one item longer than the ring, readers with up to one item more than *)
(* it holds, offsets past it in both directions.                           *)
(***************************************************************************)
EXTENDS RingFilter

MaxWrite == N + 1
MaxStream == N + 1

MCInput == UNION {[1 .. n -> Item] : n \in 0 .. MaxWrite}
MCCount == -1 .. N + 1
MCOffset == -N .. N
MCDelim == {{}, {Zero}, Item \ {Zero}}
MCLength == {0, 2, MaxStream}

=============================================================================
