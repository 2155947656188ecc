------------------------------- MODULE MCBuffer -------------------------------
(* Small instances of Buffer.                                              *)
EXTENDS BufferContract

CONSTANTS item1, item2

MCInput == {<<>>, <<item2, item1>>}
MCOwned == {<<>>, <<item1, item2>>}
MCCount == -1 .. 2
MCRoom == {-1, 2, 3}
MCDelim == {{}, {item2}}
MCLength == {0, 2}

=============================================================================
