---------------------------- MODULE MCBufioReader ----------------------------
(* A small instance of ComparableReader.                                   *)
EXTENDS BufioReaderContract

CONSTANTS item1, item2

MCCount == {-1, 0, 1, 3}
MCLength == {0, 4}
MCChunk == UNION {[1 .. n -> Item] : n \in 0 .. 4}

(* What a comment says and the code does not do:                           *)
(* "UnreadItem unreads the last item" (gbufio/reader.go:264), and "returns *)
(* an error if the most recent method called on the Reader was not a read  *)
(* operation": called directly after a ReadItem that returned an item, it  *)
(* succeeds.                                                               *)
UnreadsLast ==
  [][result.op = "ReadItem" /\ result.err = "nil" /\ result'.op = "UnreadItem"
       => result'.err = "nil"]_vars

=============================================================================
