--------------------------- MODULE MCFilterPipeline ---------------------------
(* A small instance of FilterPipeline: a ring of two slots, slices of up   *)
(* to one item more, and a reader of three items.                          *)
EXTENDS FilterPipeline

CONSTANTS item1, item2

MCInput == UNION {[1 .. n -> Item] : n \in 0 .. N + 1}
MCCount == {0, 1, N}
MCOffset == {-1, 1}
MCDelim == {{}, {Zero}, Item \ {Zero}}
MCSource == {<<>>, <<item2, item1, item2>>}
MCRoom == {0, 1, 2}
MCStep == {-1, 0, 2}

(* What the last calls returned decides nothing that comes after.          *)
View == <<ring, stream, fn, reader, sink, whole>>

=============================================================================
