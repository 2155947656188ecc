------------------------------ MODULE Tokenizer ------------------------------
(***************************************************************************)
(* What a gbufio.Scanner promises, with no buffer, no shifting or growing  *)
(* and no counting of empty reads and tokens: a queue of the items that    *)
(* were read and are in no token yet, from whose front Scan cuts tokens.   *)
(*                                                                         *)
(* queue     the items not yet scanned                                     *)
(* err       the error the scan stopped with, or "nil"                     *)
(* token     the last token                                                *)
(* started   Scan has been called                                          *)
(* done      the split function has said that there are no more tokens     *)
(* split, excluded, limit   how to cut, what to drop at the end of a line, *)
(*           and how many items without a token are too many               *)
(* scanning  Scan is waiting for the reader                                *)
(* result    the call that has just finished                               *)
(***************************************************************************)
EXTENDS Integers, Sequences

CONSTANTS Item, NoItem, NoToken, Delim, Excluded, MaxScanTokenSize, Cap, Limit, Chunk, SourceErr

VARIABLES queue, err, token, started, done, split, excluded, limit, scanning, result

config == <<split, excluded, limit>>
vars == <<queue, err, token, started, done, config, scanning, result>>

NoResult == [op |-> "none", ret |-> "none"]

Init ==
  /\ queue = <<>> /\ err = "nil" /\ token = NoToken /\ started = FALSE /\ done = FALSE
  /\ split = "ScanLines" /\ excluded \in Excluded /\ limit = MaxScanTokenSize
  /\ scanning = FALSE /\ result = NoResult

First(k, s) == SubSeq(s, 1, k)
After(k, s) == SubSeq(s, k + 1, Len(s))

(* Scan returns, or panics, and leaves q to be scanned.                    *)
Returns(q, e, tok, ret) ==
  /\ queue' = q /\ err' = e /\ token' = tok
  /\ scanning' = FALSE /\ result' = [op |-> "Scan", ret |-> ret]

(* There is no token in q: after an error that is the end, and what is not *)
(* a token is dropped; else Scan reads, unless limit items are too many.   *)
NeedsMore(q, e, tok) ==
  \/ e # "nil" /\ Returns(<<>>, e, tok, "false")
  \/ e = "nil" /\ Len(q) >= limit /\ Returns(q, "too long", tok, "false")
  \/ /\ e = "nil" /\ Len(q) < limit
     /\ queue' = q /\ err' = e /\ token' = tok /\ scanning' = TRUE /\ result' = NoResult

(* The token of a line is the line without the excluded item at its end;   *)
(* with no excluded item only an empty line has one.                       *)
CutLine(line, rest, q, e) ==
  \/ line # <<>> /\ excluded = NoItem /\ Returns(q, e, token, "panic")
  \/ /\ line = <<>> \/ excluded # NoItem
     /\ Returns(rest, e,
                IF line # <<>> /\ line[Len(line)] = excluded THEN First(Len(line) - 1, line)
                ELSE line, "true")

(* Lines: up to the first delimiter, and after an error what is left.      *)
CutLines(q, e) ==
  LET ends == {i \in 1 .. Len(q) : q[i] = Delim}
      i == CHOOSE j \in ends : \A k \in ends : j <= k
  IN  \/ ends # {} /\ CutLine(First(i - 1, q), After(i, q), q, e)
      \/ ends = {} /\ e = "nil" /\ NeedsMore(q, e, NoToken)
      \/ ends = {} /\ e # "nil" /\ q = <<>> /\ NeedsMore(q, e, NoToken)
      \/ ends = {} /\ e # "nil" /\ q # <<>> /\ CutLine(q, <<>>, q, e)

(* A split function of the caller's: it may advance over part of what it   *)
(* is given, fail, or end the scan.  The scan breaks only if tokens come   *)
(* for nothing after an error.                                             *)
CutAny(q, e) ==
  \/ \E k \in 0 .. Len(q) :
       \/ NeedsMore(After(k, q), e, NoToken)
       \/ \E tok \in {<<>>, q} : \/ Returns(After(k, q), e, tok, "true")
                                 \/ e # "nil" /\ k = 0 /\ Returns(q, e, tok, "panic")
  \/ \E why \in {"split fault", "negative advance", "advance too far"} :
       Returns(q, IF e \in {"nil", "EOF"} THEN why ELSE e, token, "false")

Ends(q, e) == \E tok \in {NoToken, <<>>, q} : done' = TRUE /\ Returns(q, e, tok, "true")

Cuts(q, e) ==
  \/ q = <<>> /\ e = "nil" /\ NeedsMore(q, e, token) /\ UNCHANGED done
  \/ (q # <<>> \/ e # "nil") /\ split = "ScanLines" /\ CutLines(q, e) /\ UNCHANGED done
  \/ /\ (q # <<>> \/ e # "nil") /\ split = "any"
     /\ \/ CutAny(q, e) /\ UNCHANGED done
        \/ Ends(q, e)

Scan ==
  /\ ~ scanning /\ UNCHANGED config
  /\ \/ done /\ Returns(queue, err, token, "false") /\ UNCHANGED <<started, done>>
     \/ ~ done /\ started' = TRUE /\ Cuts(queue, err)

(* The reader delivers a chunk, and then an error or not.                  *)
Arrive ==
  /\ scanning /\ UNCHANGED <<started, config>>
  /\ \E chunk \in Chunk, e \in SourceErr \cup {"bad count", "no progress"} :
       /\ Len(queue) + Len(chunk) <= limit
       /\ chunk # <<>> \/ e # "nil"
       /\ Cuts(queue \o chunk, e)

(* How to cut can be said only before the first Scan.                      *)
Configure(op) ==
  /\ ~ scanning /\ UNCHANGED <<queue, err, token, started, done, scanning, excluded>>
  /\ \/ started /\ result' = [op |-> op, ret |-> "panic"] /\ UNCHANGED config
     \/ /\ ~ started /\ result' = [op |-> op, ret |-> "none"]
        /\ \/ op = "Split" /\ split' \in {"ScanLines", "any"} /\ UNCHANGED limit
           \/ /\ op = "Buffer" /\ UNCHANGED split
              /\ \E cap \in Cap, n \in Limit : limit' = IF cap > n THEN cap ELSE n

Next == Scan \/ Arrive \/ Configure("Buffer") \/ Configure("Split")

Spec == Init /\ [][Next]_vars

=============================================================================
