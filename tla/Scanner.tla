------------------------------- MODULE Scanner -------------------------------
(***************************************************************************)
(* gbufio.Scanner[T] (gbufio/scanner.go): Scan cuts the items of a reader  *)
(* into tokens, with a buffer that shifts and grows, and a split function. *)
(* One goroutine calls its methods in any order; each Read that Scan makes *)
(* is a step of its own, in which the reader delivers any chunk that fits, *)
(* with any error, or returns an impossible count.  The split function is  *)
(* ScanLines, or a caller's own that returns what it likes.                *)
(*                                                                         *)
(* scanner  the struct: split (by name), excluded (NoItem if nil), max     *)
(*          (maxTokenSize), token (NoToken if nil), buf, start, end, err,  *)
(*          empties, scanCalled and done                                   *)
(* left     how many items the reader still has                            *)
(* call     the Scan in progress, if any, and its empty reads in a row     *)
(* result   the call that has just finished: what Scan returned, or "panic"*)
(***************************************************************************)
EXTENDS Integers, Sequences

CONSTANTS
  Item, Zero, NoItem,         (* the values of T, its zero value, and nil     *)
  NoToken,                    (* the nil token, which is no empty token       *)
  Delim,                      (* the field delim                              *)
  Excluded,                   (* the values of excluded, NoItem or an item    *)
  StartBufSize,               (* 4096 in the code                             *)
  MaxScanTokenSize,           (* 64 * 1024 in the code                        *)
  MaxConsecutiveEmptyReads,   (* 100 in the code                              *)
  Cap, Limit,                 (* what callers pass to Buffer                  *)
  Length                      (* how many items a reader has                  *)

ASSUME ScannerAssumption ==
  /\ Zero \in Item /\ Delim \in Item /\ NoItem \notin Item /\ NoToken \notin Seq(Item)
  /\ Excluded \subseteq Item \cup {NoItem}
  /\ StartBufSize \in Nat \ {0} /\ MaxScanTokenSize \in Nat \ {0}
  /\ MaxConsecutiveEmptyReads \in Nat
  /\ Cap \subseteq Nat /\ Limit \subseteq Int /\ Length \subseteq Nat
  /\ \E n \in Cap \cup Limit \cup {MaxScanTokenSize} :   (* as any set of ints has *)
       \A k \in Cap \cup Limit \cup {MaxScanTokenSize} : k <= n

VARIABLES scanner, left, call, result

vars == <<scanner, left, call, result>>

NoCall == [at |-> "none", loop |-> 0]
NoResult == [op |-> "none", ret |-> "none"]

NewBuf(n) == [i \in 1 .. n |-> Zero]

Init ==
  /\ \E excluded \in Excluded :
       scanner = [split |-> "ScanLines", excluded |-> excluded, max |-> MaxScanTokenSize,
                  token |-> NoToken, buf |-> <<>>, start |-> 0, end |-> 0, err |-> "nil",
                  empties |-> 0, scanCalled |-> FALSE, done |-> FALSE]
  /\ left \in Length
  /\ call = NoCall /\ result = NoResult

Smaller(a, b) == IF a < b THEN a ELSE b
Data(s) == SubSeq(s.buf, s.start + 1, s.end)
SourceErr == {"nil", "EOF", "fault"}

(* The largest buffer there can be: that of Buffer, or one of the          *)
(* scanner's own, which starts at StartBufSize.                            *)
MaxRoom == CHOOSE n \in Cap \cup Limit \cup {MaxScanTokenSize} :
             \A k \in Cap \cup Limit \cup {MaxScanTokenSize} : k <= n
Chunk == UNION {[1 .. n -> Item] : n \in 0 .. MaxRoom}

Return(s, op, ret) ==
  scanner' = s /\ call' = NoCall /\ result' = [op |-> op, ret |-> ret]
WaitRead(s, loop) ==
  scanner' = s /\ call' = [at |-> "read", loop |-> loop] /\ result' = NoResult

(* The first error but EOF is kept.                                        *)
SetErr(s, err) == IF s.err \in {"nil", "EOF"} THEN [s EXCEPT !.err = err] ELSE s

-----------------------------------------------------------------------------
(* What the split function may return for data.                            *)

(* The line without the item before its end, if that is the excluded one.  *)
Dropped(line, excluded) ==
  IF line # <<>> /\ line[Len(line)] = excluded THEN SubSeq(line, 1, Len(line) - 1) ELSE line

(* dropExcluded dereferences the nil excluded of a scanner that was given  *)
(* none, unless the line is empty.                                         *)
Line(advance, line, excluded) ==
  IF line # <<>> /\ excluded = NoItem
  THEN [advance |-> 0, token |-> NoToken, err |-> "nil pointer"]
  ELSE [advance |-> advance, token |-> Dropped(line, excluded), err |-> "nil"]

ScanLines(data, excluded, atEOF) ==
  LET ends == {i \in 1 .. Len(data) : data[i] = Delim}
      i == CHOOSE j \in ends : \A k \in ends : j <= k
      more == [advance |-> 0, token |-> NoToken, err |-> "nil"]
  IN  IF atEOF /\ data = <<>> THEN more
      ELSE IF ends # {} THEN Line(i, SubSeq(data, 1, i - 1), excluded)
      ELSE IF atEOF THEN Line(Len(data), data, excluded)
      ELSE more

AnyCut(data) ==
  [advance : -1 .. Len(data) + 1, token : {NoToken, <<>>, data}, err : {"nil"}]
  \cup [advance : {0}, token : {NoToken, <<>>, data}, err : {"final"}]
  \cup {[advance |-> 0, token |-> NoToken, err |-> "split fault"]}

Cuts(s) ==
  IF s.split = "ScanLines" THEN {ScanLines(Data(s), s.excluded, s.err # "nil")}
  ELSE AnyCut(Data(s))

-----------------------------------------------------------------------------
(* Scan's loop.                                                            *)

(* Mutant: an empty token is counted as progress.                          *)
CountedNever(s, advance) == [s EXCEPT !.empties = 0]

(* After the panic the count goes on in the code; here it stops, because   *)
(* all that is asked of it is whether it is above the maximum.             *)
TooManyEmpties == MaxConsecutiveEmptyReads + 1

Counted(s, advance) ==
  [s EXCEPT !.empties = IF s.err = "nil" \/ advance > 0 THEN 0 ELSE Smaller(@ + 1, TooManyEmpties)]

(* Mutant: the end of the data stays where it was.                         *)
ShiftedHalfway(s) ==
  IF s.start > 0 /\ (s.end = Len(s.buf) \/ s.start > Len(s.buf) \div 2)
  THEN [s EXCEPT !.buf = [i \in 1 .. Len(s.buf) |->
                            IF i <= s.end - s.start THEN s.buf[i + s.start] ELSE s.buf[i]],
                 !.start = 0]
  ELSE s

(* Shift if there is lots of empty space in front, or space is needed.     *)
Shifted(s) ==
  IF s.start > 0 /\ (s.end = Len(s.buf) \/ s.start > Len(s.buf) \div 2)
  THEN [s EXCEPT !.buf = [i \in 1 .. Len(s.buf) |->
                            IF i <= s.end - s.start THEN s.buf[i + s.start] ELSE s.buf[i]],
                 !.end = @ - s.start, !.start = 0]
  ELSE s

(* Mutant: the buffer doubles whatever maxTokenSize is.                    *)
ResizedFreely(s) ==
  LET size == IF s.buf = <<>> THEN StartBufSize ELSE 2 * Len(s.buf)
      n == s.end - s.start
  IN  [s EXCEPT !.buf = [i \in 1 .. size |-> IF i <= n THEN s.buf[i + s.start] ELSE Zero],
                !.end = n, !.start = 0]

(* Double the buffer, up to maxTokenSize.                                  *)
Resized(s) ==
  LET doubled == IF s.buf = <<>> THEN StartBufSize ELSE 2 * Len(s.buf)
      size == Smaller(doubled, s.max)
      n == s.end - s.start
  IN  [s EXCEPT !.buf = [i \in 1 .. size |-> IF i <= n THEN s.buf[i + s.start] ELSE Zero],
                !.end = n, !.start = 0]

(* With no token in what is there: shut down after an error, or make room  *)
(* and read.                                                               *)
MakeRoom(s) ==
  IF s.end < Len(s.buf) THEN WaitRead(s, 0)
  ELSE IF Len(s.buf) >= s.max THEN Return(SetErr(s, "too long"), "Scan", "false")
  ELSE WaitRead(Resized(s), 0)

Refill(s) ==
  IF s.err # "nil" THEN Return([s EXCEPT !.start = 0, !.end = 0], "Scan", "false")
  ELSE MakeRoom(Shifted(s))

Advanced(s, n) == [s EXCEPT !.start = @ + n]

(* What Scan does with the split function's answer.                        *)
Use(s, cut) ==
  LET n == cut.advance
      t == [Advanced(s, n) EXCEPT !.token = cut.token]
  IN  \/ cut.err = "nil pointer" /\ Return(s, "Scan", "panic")
      \/ cut.err = "final" /\ Return([s EXCEPT !.token = cut.token, !.done = TRUE], "Scan", "true")
      \/ cut.err = "split fault" /\ Return(SetErr(s, cut.err), "Scan", "false")
      \/ cut.err = "nil" /\ n < 0 /\ Return(SetErr(s, "negative advance"), "Scan", "false")
      \/ cut.err = "nil" /\ n > Len(Data(s)) /\ Return(SetErr(s, "advance too far"), "Scan", "false")
      \/ /\ cut.err = "nil" /\ n \in 0 .. Len(Data(s))
         /\ IF cut.token = NoToken THEN Refill(t)
            ELSE Return(Counted(t, n), "Scan",
                        IF Counted(t, n).empties = TooManyEmpties THEN "panic" ELSE "true")

(* The head of the loop: the split function is asked only if there is      *)
(* something to split, or nothing more to come.                            *)
Try(s) ==
  IF s.start = s.end /\ s.err = "nil" THEN Refill(s) ELSE \E cut \in Cuts(s) : Use(s, cut)

Scan ==
  /\ call = NoCall /\ UNCHANGED left
  /\ IF scanner.done THEN Return(scanner, "Scan", "false")
     ELSE Try([scanner EXCEPT !.scanCalled = TRUE])

(* Mutant: too many empty reads end the reading, but not the scan.         *)
GivenUpSilently(s) == s

GivenUp(s) == SetErr(s, "no progress")

(* One Read: it ends the reading with something or an error, or is made    *)
(* again a limited number of times.                                        *)
ReadTurn(chunk, err) ==
  /\ call.at = "read"
  /\ Len(chunk) <= Len(scanner.buf) - scanner.end /\ Len(chunk) <= left
  /\ err = "EOF" => Len(chunk) = left
  /\ left' = left - Len(chunk)
  /\ LET s == [scanner EXCEPT !.buf = [i \in 1 .. Len(@) |->
                                         IF i \in scanner.end + 1 .. scanner.end + Len(chunk)
                                         THEN chunk[i - scanner.end] ELSE @[i]],
                              !.end = @ + Len(chunk)]
     IN  \/ err # "nil" /\ Try(SetErr(s, err))
         \/ err = "nil" /\ chunk # <<>> /\ Try([s EXCEPT !.empties = 0])
         \/ /\ err = "nil" /\ chunk = <<>>
            /\ IF call.loop + 1 > MaxConsecutiveEmptyReads THEN Try(GivenUp(s))
               ELSE WaitRead(s, call.loop + 1)

(* The reader returns a negative count, or one larger than the room it has.*)
BadCount ==
  /\ call.at = "read" /\ UNCHANGED left
  /\ Try(SetErr(scanner, "bad count"))

-----------------------------------------------------------------------------
(* Buffer and Split, which panic once Scan has been called.                *)

Configure(op, s) ==
  /\ call = NoCall /\ UNCHANGED left
  /\ IF scanner.scanCalled THEN Return(scanner, op, "panic") ELSE Return(s, op, "none")

Buffer(cap, limit) == Configure("Buffer", [scanner EXCEPT !.buf = NewBuf(cap), !.max = limit])
Split(split) == Configure("Split", [scanner EXCEPT !.split = split])

Next ==
  \/ Scan
  \/ \E chunk \in Chunk, err \in SourceErr : ReadTurn(chunk, err)
  \/ BadCount
  \/ \E cap \in Cap, limit \in Limit : Buffer(cap, limit)
  \/ \E split \in {"ScanLines", "any"} : Split(split)

Spec == Init /\ [][Next]_vars

=============================================================================
