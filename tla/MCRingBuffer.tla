---------------------------- MODULE MCRingBuffer ----------------------------
(***************************************************************************)
(* RingBuffer on small rings.  MaxWrite bounds the slices written, one     *)
(* item past the ring so that the whole-ring branch is taken with more     *)
(* than the ring holds; MaxStream bounds what a reader has, enough to go   *)
(* round the ring and on; offsets reach past the ring in both directions.  *)
(***************************************************************************)
EXTENDS RingBufferContract

MaxWrite == N + 1
MaxStream == N + 1

MCInput == UNION {[1 .. n -> Item] : n \in 0 .. MaxWrite}
MCCount == -1 .. N + 1
MCOffset == -N .. N
MCDelim == {{}, {Zero}, Item \ {Zero}}
MCLength == {0, 2, MaxStream}

=============================================================================
