---------------------------- MODULE MCBufioWriter ----------------------------
(* A small instance of BufioWriter.                                        *)
EXTENDS BufioWriterContract

CONSTANTS item1, item2

MCInput == {<<>>, <<item2>>, <<item1, item2>>, <<item2, item1, item1>>,
            <<item1, item2, item2, item1, item2>>}
MCLength == {0, 1, 4}
MCChunk == UNION {[1 .. n -> Item] : n \in 0 .. 4}

=============================================================================
