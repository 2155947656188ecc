--------------------------- MODULE ScannerContract ----------------------------
(***************************************************************************)
(* What a gbufio.Scanner promises to any caller, whatever the reader and a *)
(* split function of the caller's do.                                      *)
(***************************************************************************)
EXTENDS Scanner

(* The reader's Read returns, if need be for ever with nothing; and a      *)
(* caller goes on to call Scan, as in "for s.Scan()".                      *)
Fairness ==
  /\ WF_vars((\E chunk \in Chunk, err \in SourceErr : ReadTurn(chunk, err)) \/ BadCount)
  /\ WF_vars(Scan)

FairSpec == Spec /\ Fairness

(* The refinement: what the buffer holds between start and end is a queue  *)
(* that the reader feeds and Scan cuts tokens from.  A line is the same    *)
(* wherever the reads were cut and however the buffer was shifted and grew;*)
(* a token is too long exactly if the largest buffer allowed is full and   *)
(* holds none; an error is kept, except EOF under a later one; and nothing *)
(* is dropped but at the end.                                              *)
Promise == INSTANCE Tokenizer WITH
             queue <- Data(scanner),
             err <- scanner.err, token <- scanner.token,
             started <- scanner.scanCalled, done <- scanner.done,
             split <- scanner.split, excluded <- scanner.excluded,
             limit <- IF Len(scanner.buf) > scanner.max THEN Len(scanner.buf) ELSE scanner.max,
             scanning <- call.at = "read"

IsTokenizer == Promise!Spec

(* The positions stay in range and in order, the buffer within the bounds  *)
(* it was given, and the reader is asked only with room for an item and as *)
(* long as there has been no error.                                        *)
TypeOK ==
  /\ scanner.buf \in [1 .. Len(scanner.buf) -> Item]
  /\ Len(scanner.buf) <= MaxRoom
  /\ 0 <= scanner.start /\ scanner.start <= scanner.end /\ scanner.end <= Len(scanner.buf)
  /\ scanner.empties \in 0 .. TooManyEmpties
  /\ call.at = "read" => /\ scanner.end < Len(scanner.buf) /\ scanner.err = "nil"
                         /\ call.loop <= MaxConsecutiveEmptyReads

(* Scan returns, even if its reader delivers nothing for ever.             *)
ScanReturns == (call # NoCall) ~> (call = NoCall)

(* "for s.Scan()" ends: for lines always, and for any split function once  *)
(* the reader has ended, because tokens that come for nothing then make    *)
(* Scan panic.                                                             *)
ScanningEnds ==
  scanner.scanCalled /\ (scanner.split = "ScanLines" \/ scanner.err # "nil")
    ~> result.op = "Scan" /\ result.ret \in {"false", "panic"}

=============================================================================
