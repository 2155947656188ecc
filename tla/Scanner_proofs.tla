---------------------------- MODULE Scanner_proofs ----------------------------
(***************************************************************************)
(* Theorems about gbufio.Scanner, for every pair of buffer sizes, every    *)
(* set of items, every caller, every split function and every reader.      *)
(***************************************************************************)
EXTENDS ScannerContract, SequenceTheorems, WellFoundedInduction, TLAPS

TooLong == "too long"
NoProgress == "no progress"
BadCounted == "bad count"
SplitFault == "split fault"
NegativeAdvance == "negative advance"
TooFar == "advance too far"
NilPointer == "nil pointer"

Kept == {TooLong, NoProgress, BadCounted, SplitFault, NegativeAdvance, TooFar}

ScannerType ==
  [split : {"ScanLines", "any"}, excluded : Item \cup {NoItem}, max : Int,
   token : {NoToken} \cup Seq(Item), buf : Seq(Item), start : Nat, end : Nat,
   err : SourceErr \cup Kept, empties : 0 .. TooManyEmpties, scanCalled : BOOLEAN, done : BOOLEAN]

Ordered(s) ==
  /\ s \in ScannerType /\ s.start <= s.end /\ s.end <= Len(s.buf)
  /\ Len(s.buf) <= MaxRoom /\ s.max <= MaxRoom

(* The inductive invariant.  There is nothing in the buffer before the     *)
(* first Scan; and a Scan that waits for the reader has room for an item,  *)
(* no error, and has returned nothing.                                     *)
Inv ==
  /\ Ordered(scanner)
  /\ scanner.scanCalled \/ (scanner.end = 0 /\ ~ scanner.done)
  /\ \/ call = NoCall
     \/ /\ call.at = "read" /\ call.loop \in Nat /\ call.loop <= MaxConsecutiveEmptyReads
        /\ scanner.end < Len(scanner.buf) /\ scanner.err = "nil" /\ result = NoResult
        /\ scanner.scanCalled

(* MaxRoom is what its name says.                                          *)
LEMMA MaxRoomIs ==
  /\ MaxRoom \in Nat /\ MaxScanTokenSize <= MaxRoom
  /\ \A k \in Cap : k <= MaxRoom
  /\ \A k \in Limit : k <= MaxRoom
<1> DEFINE S == Cap \cup Limit \cup {MaxScanTokenSize}
<1>1. MaxRoom \in S /\ \A k \in S : k <= MaxRoom
  BY ScannerAssumption DEF MaxRoom
<1>2. S \subseteq Int /\ MaxScanTokenSize \in Nat /\ MaxScanTokenSize \in S
  BY ScannerAssumption
<1> QED BY <1>1, <1>2

LEMMA KeptIs ==
  /\ TooLong \in Kept /\ NoProgress \in Kept /\ BadCounted \in Kept /\ SplitFault \in Kept
  /\ NegativeAdvance \in Kept /\ TooFar \in Kept
  /\ \A e \in Kept : e # "nil" /\ e # "EOF"
BY Zenon DEF Kept, TooLong, NoProgress, BadCounted, SplitFault, NegativeAdvance, TooFar

LEMMA InvType == Inv => TypeOK
<1> SUFFICES ASSUME Inv PROVE TypeOK
  OBVIOUS
<1> DEFINE buf == scanner.buf
<1>1. /\ scanner \in ScannerType /\ scanner.start <= scanner.end /\ scanner.end <= Len(buf)
      /\ Len(buf) <= MaxRoom
  BY DEF Inv, Ordered
<1>2. buf \in Seq(Item) /\ scanner.start \in Nat /\ scanner.empties \in 0 .. TooManyEmpties
  BY <1>1 DEF ScannerType
<1> HIDE DEF buf
<1>3. buf \in [1 .. Len(buf) -> Item]
  BY <1>2
<1>4. NoCall.at = "none"
  BY DEF NoCall
<1>5. call.at = "read" => /\ scanner.end < Len(buf) /\ scanner.err = "nil"
                          /\ call.loop <= MaxConsecutiveEmptyReads
  BY <1>4 DEF Inv, buf
<1> QED BY <1>1, <1>2, <1>3, <1>5 DEF TypeOK, buf

-----------------------------------------------------------------------------
(* The buffer.                                                             *)

LEMMA OrderedFields ==
  ASSUME NEW s, Ordered(s)
  PROVE  /\ s \in ScannerType /\ s.buf \in Seq(Item) /\ Len(s.buf) \in Nat
         /\ s.start \in Nat /\ s.end \in Nat /\ s.start <= s.end /\ s.end <= Len(s.buf)
         /\ s.max \in Int /\ s.max <= MaxRoom /\ Len(s.buf) <= MaxRoom /\ MaxRoom \in Nat
         /\ s.end - s.start \in Nat
<1>1. /\ s \in ScannerType /\ s.start <= s.end /\ s.end <= Len(s.buf)
      /\ Len(s.buf) <= MaxRoom /\ s.max <= MaxRoom
  BY DEF Ordered
<1>2. s.buf \in Seq(Item) /\ s.start \in Nat /\ s.end \in Nat /\ s.max \in Int
  BY <1>1 DEF ScannerType
<1>3. Len(s.buf) \in Nat /\ s.end - s.start \in Nat
  BY <1>1, <1>2
<1> QED BY <1>1, <1>2, <1>3, MaxRoomIs

LEMMA PartOf ==
  ASSUME NEW t \in Seq(Item), NEW from \in Nat, NEW to \in Nat, from <= to, to <= Len(t)
  PROVE  /\ SubSeq(t, from + 1, to) \in Seq(Item) /\ Len(SubSeq(t, from + 1, to)) = to - from
         /\ \A i \in 1 .. to - from : SubSeq(t, from + 1, to)[i] = t[from + i]
OBVIOUS

LEMMA DataIs ==
  ASSUME NEW s, Ordered(s)
  PROVE  /\ Data(s) \in Seq(Item) /\ Len(Data(s)) = s.end - s.start
         /\ \A i \in 1 .. s.end - s.start : Data(s)[i] = s.buf[s.start + i]
<1> DEFINE t == s.buf
<1>1. /\ t \in Seq(Item) /\ s.start \in Nat /\ s.end \in Nat /\ s.start <= s.end
      /\ s.end <= Len(t) /\ Len(t) \in Nat
  BY OrderedFields
<1> HIDE DEF t
<1>2. /\ SubSeq(t, s.start + 1, s.end) \in Seq(Item)
      /\ Len(SubSeq(t, s.start + 1, s.end)) = s.end - s.start
      /\ \A i \in 1 .. s.end - s.start : SubSeq(t, s.start + 1, s.end)[i] = t[s.start + i]
  BY <1>1, PartOf
<1> QED BY <1>2 DEF Data, t

(* Two scanners that hold the same.                                        *)
LEMMA Alike ==
  ASSUME NEW s, Ordered(s), NEW a, Ordered(a), a.end - a.start = s.end - s.start,
         \A i \in 1 .. s.end - s.start : a.buf[a.start + i] = s.buf[s.start + i]
  PROVE  Data(a) = Data(s)
<1>1. /\ Data(a) \in Seq(Item) /\ Len(Data(a)) = s.end - s.start
      /\ \A i \in 1 .. s.end - s.start : Data(a)[i] = a.buf[a.start + i]
  BY DataIs
<1>2. /\ Data(s) \in Seq(Item) /\ Len(Data(s)) = s.end - s.start
      /\ \A i \in 1 .. s.end - s.start : Data(s)[i] = s.buf[s.start + i]
  BY DataIs
<1>3. \A i \in 1 .. s.end - s.start : Data(a)[i] = Data(s)[i]
  BY <1>1, <1>2
<1> QED BY <1>1, <1>2, <1>3, SeqEqual

(* How many items without a token are too many.                            *)
Room(s) == IF Len(s.buf) > s.max THEN Len(s.buf) ELSE s.max

(* a is what became of s in a Scan, but for its items, token and error.    *)
Like(a, s) ==
  /\ Ordered(a) /\ a.split = s.split /\ a.excluded = s.excluded /\ Room(a) = Room(s)
  /\ a.scanCalled = s.scanCalled /\ a.done = s.done

LEMMA LikeTwice == ASSUME NEW a, NEW b, NEW s, Like(a, b), Like(b, s) PROVE Like(a, s)
BY DEF Like

LEMMA ShiftedIs ==
  ASSUME NEW s, Ordered(s)
  PROVE  /\ Like(Shifted(s), s) /\ Data(Shifted(s)) = Data(s) /\ Shifted(s).err = s.err
         /\ Shifted(s).token = s.token /\ Len(Shifted(s).buf) = Len(s.buf)
         /\ Shifted(s).max = s.max
         /\ (Shifted(s).start = 0 \/ Shifted(s).end < Len(Shifted(s).buf))
<1> DEFINE n == Len(s.buf)
           moves == s.start > 0 /\ (s.end = n \/ s.start > n \div 2)
<1>1. /\ s \in ScannerType /\ s.buf \in Seq(Item) /\ n \in Nat /\ s.start \in Nat /\ s.end \in Nat
      /\ s.start <= s.end /\ s.end <= n /\ s.max \in Int /\ s.max <= MaxRoom
      /\ n <= MaxRoom /\ s.end - s.start \in Nat
  BY OrderedFields
<1>2. CASE ~ moves
  <2>1. Shifted(s) = s
    BY <1>2 DEF Shifted
  <2>2. s.start = 0 \/ s.end < n
    <3> DEFINE half == n \div 2
    <3> HIDE DEF half, n
    <3>1. ~ (s.start > 0 /\ s.end = n)
      BY <1>2
    <3> QED BY <1>1, <3>1
  <2> QED BY <2>1, <2>2 DEF Like
<1>3. CASE moves
  <2> DEFINE f == [i \in 1 .. n |-> IF i <= s.end - s.start THEN s.buf[i + s.start] ELSE s.buf[i]]
             k == s.end - s.start
             a == [s EXCEPT !.buf = f, !.end = k, !.start = 0]
  <2>1. Shifted(s) = a
    BY <1>1, <1>3 DEF Shifted, ScannerType
  <2>2. f \in [1 .. n -> Item] /\ \A i \in 1 .. k : f[i] = s.buf[s.start + i]
    <3>1. ASSUME NEW i \in 1 .. n
          PROVE  (IF i <= s.end - s.start THEN s.buf[i + s.start] ELSE s.buf[i]) \in Item
      BY <1>1
    <3>2. f \in [1 .. n -> Item]
      BY <3>1
    <3>3. ASSUME NEW i \in 1 .. k PROVE f[i] = s.buf[s.start + i]
      <4>1. i \in 1 .. n /\ i <= s.end - s.start /\ i + s.start = s.start + i
        BY <1>1
      <4> QED BY <4>1
    <3> QED BY <3>2, <3>3
  <2>3. k \in Nat /\ k <= n /\ 0 \in Nat /\ 0 <= k
    BY <1>1
  <2> HIDE DEF f, n
  <2>4. f \in Seq(Item) /\ Len(f) = n
    BY <1>1, <2>2
  <2> HIDE DEF k
  <2>5. /\ a \in ScannerType /\ a.buf = f /\ a.start = 0 /\ a.end = k /\ a.err = s.err
        /\ a.token = s.token /\ a.max = s.max /\ a.split = s.split /\ a.excluded = s.excluded
        /\ a.scanCalled = s.scanCalled /\ a.done = s.done
    BY <1>1, <2>3, <2>4 DEF ScannerType
  <2> HIDE DEF a
  <2>6. Ordered(a)
    BY <1>1, <2>3, <2>4, <2>5 DEF Ordered
  <2>7. a.end - a.start = s.end - s.start
    BY <1>1, <2>3, <2>5 DEF k
  <2>8. \A i \in 1 .. s.end - s.start : a.buf[a.start + i] = s.buf[s.start + i]
    <3> TAKE i \in 1 .. s.end - s.start
    <3>1. a.start + i = i /\ i \in 1 .. k
      BY <1>1, <2>5 DEF k
    <3> QED BY <2>2, <2>5, <3>1
  <2>9. Data(a) = Data(s)
    BY <2>6, <2>7, <2>8, Alike
  <2>10. Len(a.buf) = Len(s.buf) /\ Room(a) = Room(s)
    BY <2>4, <2>5 DEF Room, n
  <2> QED BY <2>1, <2>5, <2>6, <2>9, <2>10 DEF Like
<1> QED BY <1>2, <1>3

LEMMA ResizedIs ==
  ASSUME NEW s, Ordered(s), Len(s.buf) < s.max
  PROVE  /\ Like(Resized(s), s) /\ Data(Resized(s)) = Data(s) /\ Resized(s).err = s.err
         /\ Resized(s).token = s.token /\ Resized(s).end < Len(Resized(s).buf)
<1> DEFINE n == s.end - s.start
           doubled == IF s.buf = <<>> THEN StartBufSize ELSE 2 * Len(s.buf)
           size == Smaller(doubled, s.max)
           f == [i \in 1 .. size |-> IF i <= n THEN s.buf[i + s.start] ELSE Zero]
           a == [s EXCEPT !.buf = f, !.end = n, !.start = 0]
<1>1. /\ s \in ScannerType /\ s.buf \in Seq(Item) /\ Len(s.buf) \in Nat /\ s.start \in Nat
      /\ s.end \in Nat /\ s.start <= s.end /\ s.end <= Len(s.buf) /\ s.max \in Int
      /\ s.max <= MaxRoom /\ n \in Nat /\ MaxRoom \in Nat
  BY OrderedFields
<1>2. size \in Nat /\ n < size /\ size <= s.max
  <2>1. CASE s.buf = <<>>
    <3>1. Len(s.buf) = 0 /\ doubled = StartBufSize /\ StartBufSize \in Nat /\ StartBufSize > 0
      BY <2>1, ScannerAssumption
    <3> HIDE DEF doubled
    <3> QED BY <1>1, <3>1 DEF Smaller
  <2>2. CASE s.buf # <<>>
    <3>1. Len(s.buf) > 0 /\ doubled = 2 * Len(s.buf)
      BY <1>1, <2>2
    <3> HIDE DEF doubled
    <3> QED BY <1>1, <3>1 DEF Smaller
  <2> QED BY <2>1, <2>2
<1> HIDE DEF doubled
<1>3. Resized(s) = a
  BY DEF Resized, doubled
<1> HIDE DEF size
<1>4. f \in [1 .. size -> Item] /\ \A i \in 1 .. n : f[i] = s.buf[s.start + i]
  <2>1. ASSUME NEW i \in 1 .. size PROVE (IF i <= n THEN s.buf[i + s.start] ELSE Zero) \in Item
    BY <1>1, <1>2, ScannerAssumption
  <2>2. f \in [1 .. size -> Item]
    BY <2>1
  <2>3. ASSUME NEW i \in 1 .. n PROVE f[i] = s.buf[s.start + i]
    <3>1. i \in 1 .. size /\ i <= n /\ i + s.start = s.start + i
      BY <1>1, <1>2
    <3> QED BY <3>1
  <2> QED BY <2>2, <2>3
<1> HIDE DEF f
<1>5. f \in Seq(Item) /\ Len(f) = size
  BY <1>2, <1>4
<1>6. /\ a \in ScannerType /\ a.buf = f /\ a.start = 0 /\ a.end = n /\ a.err = s.err
      /\ a.token = s.token /\ a.max = s.max /\ a.split = s.split /\ a.excluded = s.excluded
      /\ a.scanCalled = s.scanCalled /\ a.done = s.done
  <2> HIDE DEF n
  <2> QED BY <1>1, <1>5 DEF ScannerType
<1> HIDE DEF a
<1>7. Ordered(a)
  BY <1>1, <1>2, <1>5, <1>6 DEF Ordered
<1>8. a.end - a.start = s.end - s.start
  BY <1>1, <1>6
<1>9. \A i \in 1 .. s.end - s.start : a.buf[a.start + i] = s.buf[s.start + i]
  <2> TAKE i \in 1 .. s.end - s.start
  <2>1. a.start + i = i
    BY <1>1, <1>6
  <2> QED BY <1>4, <1>6, <2>1
<1>10. Data(a) = Data(s)
  BY <1>7, <1>8, <1>9, Alike
<1>11. Room(a) = Room(s)
  BY <1>1, <1>2, <1>5, <1>6 DEF Room
<1> QED BY <1>2, <1>3, <1>5, <1>6, <1>7, <1>10, <1>11 DEF Like

(* Changes of the other fields.                                            *)
LEMMA TokenField ==
  ASSUME NEW s, Ordered(s), NEW token \in {NoToken} \cup Seq(Item),
         NEW a, a = [s EXCEPT !.token = token]
  PROVE  /\ Like(a, s) /\ Data(a) = Data(s) /\ a.err = s.err /\ a.token = token
         /\ a.empties = s.empties
BY DEF Like, Ordered, ScannerType, Data, Room

LEMMA ErrField ==
  ASSUME NEW s, Ordered(s), NEW err \in SourceErr \cup Kept, NEW a, a = [s EXCEPT !.err = err]
  PROVE  Like(a, s) /\ Data(a) = Data(s) /\ a.err = err /\ a.token = s.token
BY DEF Like, Ordered, ScannerType, Data, Room

LEMMA EmptiesField ==
  ASSUME NEW s, Ordered(s), NEW empties \in 0 .. TooManyEmpties,
         NEW a, a = [s EXCEPT !.empties = empties]
  PROVE  /\ Like(a, s) /\ Data(a) = Data(s) /\ a.err = s.err /\ a.token = s.token
         /\ a.empties = empties /\ a.end = s.end /\ a.buf = s.buf
BY DEF Like, Ordered, ScannerType, Data, Room

LEMMA SetErrIs ==
  ASSUME NEW s, Ordered(s), NEW err \in SourceErr \cup Kept
  PROVE  /\ Like(SetErr(s, err), s) /\ Data(SetErr(s, err)) = Data(s)
         /\ SetErr(s, err).err = IF s.err \in {"nil", "EOF"} THEN err ELSE s.err
         /\ SetErr(s, err).token = s.token
<1>1. CASE s.err \in {"nil", "EOF"}
  <2>1. SetErr(s, err) = [s EXCEPT !.err = err]
    BY <1>1 DEF SetErr
  <2> QED BY <1>1, <2>1, ErrField
<1>2. CASE s.err \notin {"nil", "EOF"}
  BY <1>2 DEF SetErr, Like
<1> QED BY <1>1, <1>2

LEMMA AdvancedIs ==
  ASSUME NEW s, Ordered(s), NEW n \in 0 .. Len(Data(s))
  PROVE  /\ Like(Advanced(s, n), s) /\ Data(Advanced(s, n)) = SubSeq(Data(s), n + 1, Len(Data(s)))
         /\ Advanced(s, n).err = s.err /\ Advanced(s, n).token = s.token
         /\ Advanced(s, n).empties = s.empties
<1> DEFINE q == Data(s)
           k == s.start + n
           a == [s EXCEPT !.start = k]
<1>1. /\ s \in ScannerType /\ s.buf \in Seq(Item) /\ s.start \in Nat /\ s.end \in Nat
      /\ s.start <= s.end /\ s.end <= Len(s.buf) /\ Len(s.buf) <= MaxRoom /\ s.max <= MaxRoom
  BY OrderedFields
<1>2. /\ q \in Seq(Item) /\ Len(q) = s.end - s.start
      /\ \A i \in 1 .. s.end - s.start : q[i] = s.buf[s.start + i]
  BY DataIs
<1>3. k \in Nat /\ k <= s.end /\ n \in Nat /\ n <= Len(q)
  BY <1>1, <1>2
<1>4. Advanced(s, n) = a
  BY <1>1 DEF Advanced, ScannerType
<1> HIDE DEF k
<1>5. /\ a \in ScannerType /\ a.start = k /\ a.end = s.end /\ a.buf = s.buf /\ a.err = s.err
      /\ a.token = s.token /\ a.max = s.max /\ a.split = s.split /\ a.excluded = s.excluded
      /\ a.scanCalled = s.scanCalled /\ a.done = s.done /\ a.empties = s.empties
  BY <1>1, <1>3 DEF ScannerType
<1> HIDE DEF a
<1>6. Ordered(a) /\ Room(a) = Room(s)
  BY <1>1, <1>3, <1>5 DEF Ordered, Room
<1>7. /\ Data(a) \in Seq(Item) /\ Len(Data(a)) = s.end - k
      /\ \A i \in 1 .. s.end - k : Data(a)[i] = s.buf[k + i]
  BY <1>5, <1>6, DataIs
<1> HIDE DEF q
<1>8. /\ SubSeq(q, n + 1, Len(q)) \in Seq(Item) /\ Len(SubSeq(q, n + 1, Len(q))) = Len(q) - n
      /\ \A i \in 1 .. Len(q) - n : SubSeq(q, n + 1, Len(q))[i] = q[n + i]
  BY <1>2, <1>3
<1>9. Len(q) - n = s.end - k
  BY <1>1, <1>2, <1>3 DEF k
<1>10. ASSUME NEW i \in 1 .. s.end - k PROVE Data(a)[i] = SubSeq(q, n + 1, Len(q))[i]
  <2>0. k = s.start + n /\ i \in Nat /\ 1 <= i /\ i <= s.end - k
    BY <1>3 DEF k
  <2>1. n + i \in 1 .. s.end - s.start /\ s.start + (n + i) = k + i
    BY <1>1, <2>0
  <2> QED BY <1>2, <1>7, <1>8, <1>9, <2>1
<1>11. Data(a) = SubSeq(q, n + 1, Len(q))
  BY <1>7, <1>8, <1>9, <1>10, SeqEqual
<1> QED BY <1>4, <1>5, <1>6, <1>11 DEF Like, q

(* What s is when chunk has been read behind what there is.                *)
Delivered(s, chunk) ==
  [s EXCEPT !.buf = [i \in 1 .. Len(@) |-> IF i \in s.end + 1 .. s.end + Len(chunk)
                                           THEN chunk[i - s.end] ELSE @[i]],
            !.end = @ + Len(chunk)]

LEMMA DeliveredIs ==
  ASSUME NEW s, Ordered(s), NEW chunk \in Seq(Item), Len(chunk) <= Len(s.buf) - s.end
  PROVE  /\ Like(Delivered(s, chunk), s) /\ Data(Delivered(s, chunk)) = Data(s) \o chunk
         /\ Delivered(s, chunk).err = s.err /\ Delivered(s, chunk).token = s.token
         /\ Delivered(s, chunk).end = s.end + Len(chunk)
         /\ Len(Delivered(s, chunk).buf) = Len(s.buf)
<1> DEFINE n == Len(s.buf)
           q == Data(s)
           all == q \o chunk
           k == s.end - s.start
           m == Len(chunk)
           f == [i \in 1 .. n |-> IF i \in s.end + 1 .. s.end + m THEN chunk[i - s.end] ELSE s.buf[i]]
           a == Delivered(s, chunk)
<1>1. /\ s \in ScannerType /\ s.buf \in Seq(Item) /\ n \in Nat /\ s.start \in Nat /\ s.end \in Nat
      /\ s.start <= s.end /\ s.end <= n /\ n <= MaxRoom /\ s.max <= MaxRoom /\ k \in Nat /\ m \in Nat
      /\ s.end + m <= n
  BY OrderedFields
<1>2. f \in [1 .. n -> Item]
  <2>1. ASSUME NEW i \in 1 .. n
        PROVE  (IF i \in s.end + 1 .. s.end + m THEN chunk[i - s.end] ELSE s.buf[i]) \in Item
    BY <1>1
  <2> QED BY <2>1
<1>3. \A i \in 1 .. n : f[i] = IF i \in s.end + 1 .. s.end + m THEN chunk[i - s.end] ELSE s.buf[i]
  OBVIOUS
<1>a. a = [s EXCEPT !.buf = f, !.end = s.end + m]
  BY <1>1 DEF Delivered, ScannerType
<1> HIDE DEF f, a
<1>4. f \in Seq(Item) /\ Len(f) = n
  <2> HIDE DEF n
  <2> QED BY <1>1, <1>2
<1>5. /\ a \in ScannerType /\ a.buf = f /\ a.end = s.end + m /\ a.start = s.start /\ a.err = s.err
      /\ a.token = s.token /\ a.max = s.max /\ a.split = s.split /\ a.excluded = s.excluded
      /\ a.scanCalled = s.scanCalled /\ a.done = s.done
  <2> DEFINE e == s.end + m
  <2>1. e \in Nat /\ a = [s EXCEPT !.buf = f, !.end = e]
    BY <1>1, <1>a
  <2> HIDE DEF e
  <2>2. /\ a \in ScannerType /\ a.buf = f /\ a.end = e /\ a.start = s.start /\ a.err = s.err
        /\ a.token = s.token /\ a.max = s.max /\ a.split = s.split /\ a.excluded = s.excluded
        /\ a.scanCalled = s.scanCalled /\ a.done = s.done
    BY <1>1, <1>4, <2>1 DEF ScannerType
  <2> QED BY <2>2 DEF e
<1>6. Ordered(a) /\ Room(a) = Room(s)
  BY <1>1, <1>4, <1>5 DEF Ordered, Room
<1>7. /\ q \in Seq(Item) /\ Len(q) = k /\ \A i \in 1 .. k : q[i] = s.buf[s.start + i]
  BY DataIs
<1> HIDE DEF q
<1>8. /\ all \in Seq(Item) /\ Len(all) = k + m
      /\ \A i \in 1 .. k + m : all[i] = IF i <= k THEN q[i] ELSE chunk[i - k]
  <2> HIDE DEF all
  <2>1. /\ q \o chunk \in Seq(Item) /\ Len(q \o chunk) = Len(q) + Len(chunk)
        /\ \A i \in 1 .. Len(q) + Len(chunk) :
             (q \o chunk)[i] = IF i <= Len(q) THEN q[i] ELSE chunk[i - Len(q)]
    BY <1>7, ConcatProperties
  <2> QED BY <1>7, <2>1 DEF all
<1> HIDE DEF all
<1>9. a.end - a.start = k + m
  BY <1>1, <1>5
<1>10. /\ Data(a) \in Seq(Item) /\ Len(Data(a)) = k + m
       /\ \A i \in 1 .. k + m : Data(a)[i] = f[s.start + i]
  BY <1>5, <1>6, <1>9, DataIs
<1>11. ASSUME NEW i \in 1 .. k + m PROVE Data(a)[i] = all[i]
  <2> DEFINE j == s.start + i
  <2>1. i \in Nat /\ 1 <= i /\ i <= k + m /\ k = s.end - s.start
    BY <1>1
  <2>2. j \in 1 .. n
    <3>1. s.start + i >= 1 /\ s.start + i <= s.end + m
      BY <1>1, <2>1
    <3> QED BY <1>1, <2>1, <3>1
  <2>3. j - s.end = i - k
    BY <1>1, <2>1
  <2>4. j \in s.end + 1 .. s.end + m <=> ~ (i <= k)
    BY <1>1, <2>1
  <2>5. Data(a)[i] = f[j]
    BY <1>10
  <2> HIDE DEF j, k, n, m
  <2>6. f[j] = IF ~ (i <= k) THEN chunk[j - s.end] ELSE s.buf[j]
    BY <1>3, <2>2, <2>4
  <2>7. CASE i <= k
    <3>1. i \in 1 .. k
      BY <1>1, <2>1, <2>7
    <3>2. q[i] = s.buf[j]
      BY <1>7, <3>1 DEF j
    <3> QED BY <1>8, <2>5, <2>6, <2>7, <3>2
  <2>8. CASE ~ (i <= k)
    BY <1>8, <2>3, <2>5, <2>6, <2>8
  <2> QED BY <2>7, <2>8
<1>12. Data(a) = all
  BY <1>8, <1>10, <1>11, SeqEqual
<1> QED BY <1>4, <1>5, <1>6, <1>12 DEF Like, all, q, n, m, a

-----------------------------------------------------------------------------
(* How a Scan ends, or goes on, as Tokenizer sees it.                      *)

(* What no Scan changes, and what Scan and the split function have set.    *)
Steady ==
  /\ scanner'.split = scanner.split /\ scanner'.excluded = scanner.excluded
  /\ Room(scanner') = Room(scanner)
Settled(s) == Steady /\ scanner'.scanCalled = s.scanCalled /\ scanner'.done = s.done

(* s is what the scanner has become so far.                                *)
Current(s) ==
  /\ Ordered(s) /\ s.split = scanner.split /\ s.excluded = scanner.excluded
  /\ Room(s) = Room(scanner) /\ s.scanCalled

LEMMA ReturnStep ==
  ASSUME NEW s, NEW a, Like(a, s), Current(s), NEW ret, Return(a, "Scan", ret)
  PROVE  Inv' /\ Settled(s) /\ Promise!Returns(Data(a), a.err, a.token, ret)
<1>1. scanner' = a /\ call' = NoCall /\ result' = [op |-> "Scan", ret |-> ret]
  BY DEF Return
<1>2. Inv'
  BY <1>1 DEF Inv, Like, Current
<1>3. Settled(s)
  BY <1>1 DEF Settled, Steady, Like, Current
<1>4. Data(scanner)' = Data(a) /\ (scanner.err)' = a.err /\ (scanner.token)' = a.token
  BY <1>1 DEF Data
<1>5. (call'.at = "read") = FALSE
  BY <1>1 DEF NoCall
<1> QED BY <1>1, <1>2, <1>3, <1>4, <1>5 DEF Promise!Returns

LEMMA WaitStep ==
  ASSUME NEW s, NEW a, Like(a, s), Current(s), a.end < Len(a.buf), a.err = "nil", WaitRead(a, 0)
  PROVE  Inv' /\ Settled(s) /\ Promise!NeedsMore(Data(a), a.err, a.token)
<1>1. scanner' = a /\ call' = [at |-> "read", loop |-> 0] /\ result' = NoResult
  BY DEF WaitRead
<1>a. call'.at = "read" /\ call'.loop = 0
  BY <1>1
<1>2. Inv'
  <2>1. Ordered(a) /\ a.scanCalled
    BY DEF Like, Current
  <2>2. 0 \in Nat /\ 0 <= MaxConsecutiveEmptyReads
    BY ScannerAssumption
  <2> QED BY <1>1, <1>a, <2>1, <2>2 DEF Inv
<1>3. Settled(s)
  BY <1>1 DEF Settled, Steady, Like, Current
<1>4. Data(scanner)' = Data(a) /\ (scanner.err)' = a.err /\ (scanner.token)' = a.token
  BY <1>1 DEF Data
<1>5. (call'.at = "read") = TRUE
  BY <1>1
<1>6. Len(Data(a)) < Room(scanner)
  <2>1. Room(scanner) = Room(a) /\ Ordered(a)
    BY DEF Like, Current
  <2>2. /\ Len(Data(a)) = a.end - a.start /\ a.start \in Nat /\ a.end \in Nat
        /\ Len(a.buf) \in Nat /\ a.max \in Int
    BY <2>1, DataIs, OrderedFields
  <2> QED BY <2>1, <2>2 DEF Room
<1>7. NoResult = Promise!NoResult
  BY DEF NoResult, Promise!NoResult
<1> QED BY <1>1, <1>2, <1>3, <1>4, <1>5, <1>6, <1>7 DEF Promise!NeedsMore, Room

(* The scan is over and what is left is dropped.                           *)
LEMMA EmptiedIs ==
  ASSUME NEW s, Ordered(s), NEW a, a = [s EXCEPT !.start = 0, !.end = 0]
  PROVE  Like(a, s) /\ Data(a) = <<>> /\ a.err = s.err /\ a.token = s.token
<1>1. /\ s \in ScannerType /\ Len(s.buf) \in Nat /\ Len(s.buf) <= MaxRoom /\ s.max <= MaxRoom
  BY OrderedFields
<1>2. /\ a \in ScannerType /\ a.buf = s.buf /\ a.start = 0 /\ a.end = 0 /\ a.err = s.err
      /\ a.token = s.token /\ a.max = s.max /\ a.split = s.split /\ a.excluded = s.excluded
      /\ a.scanCalled = s.scanCalled /\ a.done = s.done
  BY <1>1 DEF ScannerType
<1>3. Ordered(a) /\ Room(a) = Room(s)
  BY <1>1, <1>2 DEF Ordered, Room
<1>4. Data(a) = <<>>
  <2>1. Data(a) \in Seq(Item) /\ Len(Data(a)) = a.end - a.start
    BY <1>3, DataIs
  <2>2. Len(Data(a)) = 0
    BY <1>2, <2>1
  <2> QED BY <2>1, <2>2
<1> QED BY <1>2, <1>3, <1>4 DEF Like

LEMMA RefillCases ==
  ASSUME NEW s, Refill(s), NEW b, b = Shifted(s)
  PROVE  \/ s.err # "nil" /\ Return([s EXCEPT !.start = 0, !.end = 0], "Scan", "false")
         \/ s.err = "nil" /\ b.end < Len(b.buf) /\ WaitRead(b, 0)
         \/ /\ s.err = "nil" /\ ~ (b.end < Len(b.buf)) /\ Len(b.buf) >= b.max
            /\ Return(SetErr(b, TooLong), "Scan", "false")
         \/ /\ s.err = "nil" /\ ~ (b.end < Len(b.buf)) /\ ~ (Len(b.buf) >= b.max)
            /\ WaitRead(Resized(b), 0)
BY Zenon DEF Refill, MakeRoom, TooLong

LEMMA TooLongIs ==
  ASSUME NEW q, NEW tok, Len(q) >= Room(scanner), Promise!Returns(q, TooLong, tok, "false")
  PROVE  Promise!NeedsMore(q, "nil", tok)
BY Zenon DEF Promise!NeedsMore, TooLong, Room

LEMMA RefillStep ==
  ASSUME NEW s, Current(s), Refill(s)
  PROVE  Inv' /\ Settled(s) /\ Promise!NeedsMore(Data(s), s.err, s.token)
<1> DEFINE b == Shifted(s)
<1>1. /\ Like(b, s) /\ Data(b) = Data(s) /\ b.err = s.err /\ b.token = s.token
      /\ Ordered(b) /\ (b.start = 0 \/ b.end < Len(b.buf))
  BY ShiftedIs DEF Current, Like
<1>2. \/ s.err # "nil" /\ Return([s EXCEPT !.start = 0, !.end = 0], "Scan", "false")
      \/ s.err = "nil" /\ b.end < Len(b.buf) /\ WaitRead(b, 0)
      \/ /\ s.err = "nil" /\ ~ (b.end < Len(b.buf)) /\ Len(b.buf) >= b.max
         /\ Return(SetErr(b, TooLong), "Scan", "false")
      \/ /\ s.err = "nil" /\ ~ (b.end < Len(b.buf)) /\ ~ (Len(b.buf) >= b.max)
         /\ WaitRead(Resized(b), 0)
  BY RefillCases
<1> HIDE DEF b
<1>3. CASE s.err # "nil" /\ Return([s EXCEPT !.start = 0, !.end = 0], "Scan", "false")
  <2> DEFINE a == [s EXCEPT !.start = 0, !.end = 0]
  <2>1. Like(a, s) /\ Data(a) = <<>> /\ a.err = s.err /\ a.token = s.token
    BY EmptiedIs DEF Current
  <2>2. Return(a, "Scan", "false")
    BY <1>3
  <2> HIDE DEF a
  <2>3. Inv' /\ Settled(s) /\ Promise!Returns(<<>>, s.err, s.token, "false")
    BY <2>1, <2>2, ReturnStep
  <2> QED BY <1>3, <2>3 DEF Promise!NeedsMore
<1>4. CASE s.err = "nil" /\ b.end < Len(b.buf) /\ WaitRead(b, 0)
  BY <1>1, <1>4, WaitStep
<1>5. CASE /\ s.err = "nil" /\ ~ (b.end < Len(b.buf)) /\ Len(b.buf) >= b.max
           /\ Return(SetErr(b, TooLong), "Scan", "false")
  <2> DEFINE a == SetErr(b, TooLong)
  <2>1. Like(a, b) /\ Data(a) = Data(b) /\ a.err = TooLong /\ a.token = b.token
    <3>1. TooLong \in SourceErr \cup Kept
      BY KeptIs
    <3> QED BY <1>1, <1>5, <3>1, SetErrIs
  <2> HIDE DEF a
  <2>2. Inv' /\ Settled(s) /\ Promise!Returns(Data(s), TooLong, s.token, "false")
    <3>1. Like(a, s) /\ Return(a, "Scan", "false")
      BY <1>1, <1>5, <2>1, LikeTwice DEF a
    <3> QED BY <1>1, <2>1, <3>1, ReturnStep
  <2>3. Len(Data(s)) >= Room(scanner)
    <3>1. /\ Len(Data(s)) = b.end - b.start /\ b.end \in Nat /\ Len(b.buf) \in Nat /\ b.max \in Int
          /\ b.end <= Len(b.buf) /\ b.start \in Nat
      BY <1>1, DataIs, OrderedFields
    <3>2. Room(scanner) = Room(b) /\ b.start = 0
      BY <1>1, <1>5 DEF Like, Current
    <3> QED BY <1>5, <3>1, <3>2 DEF Room
  <2>4. Promise!NeedsMore(Data(s), "nil", s.token)
    BY <2>2, <2>3, TooLongIs
  <2> QED BY <1>5, <2>2, <2>4
<1>6. CASE /\ s.err = "nil" /\ ~ (b.end < Len(b.buf)) /\ ~ (Len(b.buf) >= b.max)
           /\ WaitRead(Resized(b), 0)
  <2> DEFINE a == Resized(b)
  <2>1. Len(b.buf) < b.max
    <3>1. Len(b.buf) \in Nat /\ b.max \in Int
      BY <1>1, OrderedFields
    <3> QED BY <1>6, <3>1
  <2>2. Like(a, b) /\ Data(a) = Data(b) /\ a.err = b.err /\ a.token = b.token /\ a.end < Len(a.buf)
    BY <1>1, <2>1, ResizedIs
  <2>3. WaitRead(a, 0)
    BY <1>6
  <2> HIDE DEF a
  <2>4. Like(a, s)
    BY <1>1, <2>2, LikeTwice
  <2> QED BY <1>1, <1>6, <2>2, <2>3, <2>4, WaitStep
<1> QED BY <1>2, <1>3, <1>4, <1>5, <1>6

-----------------------------------------------------------------------------
(* What Scan does with the split function's answer.                        *)

(* Tokens that come for nothing are counted after an error only.           *)
LEMMA CountedIs ==
  ASSUME NEW s, Ordered(s), NEW n \in Nat
  PROVE  /\ Like(Counted(s, n), s) /\ Data(Counted(s, n)) = Data(s) /\ Counted(s, n).err = s.err
         /\ Counted(s, n).token = s.token
         /\ Counted(s, n).empties = TooManyEmpties => s.err # "nil" /\ n = 0
<1> DEFINE k == IF s.err = "nil" \/ n > 0 THEN 0 ELSE Smaller(s.empties + 1, TooManyEmpties)
<1>1. s \in ScannerType /\ s.empties \in 0 .. TooManyEmpties
  BY OrderedFields DEF ScannerType
<1>2. TooManyEmpties \in Nat /\ TooManyEmpties > 0
  BY ScannerAssumption DEF TooManyEmpties
<1>3. k \in 0 .. TooManyEmpties /\ (k = TooManyEmpties => s.err # "nil" /\ n = 0)
  BY <1>1, <1>2 DEF Smaller
<1>4. Counted(s, n) = [s EXCEPT !.empties = k]
  BY <1>1 DEF Counted, ScannerType
<1> HIDE DEF k
<1> DEFINE a == Counted(s, n)
<1> HIDE DEF a
<1>5. /\ Like(a, s) /\ Data(a) = Data(s) /\ a.err = s.err /\ a.token = s.token /\ a.empties = k
  BY <1>3, <1>4, EmptiesField DEF a
<1> QED BY <1>3, <1>5 DEF a

LEMMA UseCases ==
  ASSUME NEW s, NEW cut, Use(s, cut), NEW n, n = cut.advance, NEW t,
         t = [Advanced(s, n) EXCEPT !.token = cut.token]
  PROVE  \/ cut.err = NilPointer /\ Return(s, "Scan", "panic")
         \/ /\ cut.err = "final"
            /\ Return([s EXCEPT !.token = cut.token, !.done = TRUE], "Scan", "true")
         \/ cut.err = SplitFault /\ Return(SetErr(s, SplitFault), "Scan", "false")
         \/ cut.err = "nil" /\ n < 0 /\ Return(SetErr(s, NegativeAdvance), "Scan", "false")
         \/ cut.err = "nil" /\ n > Len(Data(s)) /\ Return(SetErr(s, TooFar), "Scan", "false")
         \/ cut.err = "nil" /\ n \in 0 .. Len(Data(s)) /\ cut.token = NoToken /\ Refill(t)
         \/ /\ cut.err = "nil" /\ n \in 0 .. Len(Data(s)) /\ cut.token # NoToken
            /\ Counted(t, n).empties = TooManyEmpties /\ Return(Counted(t, n), "Scan", "panic")
         \/ /\ cut.err = "nil" /\ n \in 0 .. Len(Data(s)) /\ cut.token # NoToken
            /\ Counted(t, n).empties # TooManyEmpties /\ Return(Counted(t, n), "Scan", "true")
BY Zenon DEF Use, NilPointer, SplitFault, NegativeAdvance, TooFar

(* The kinds of answers are different.                                     *)
LEMMA AnswersDiffer ==
  /\ NilPointer # "nil" /\ NilPointer # "final" /\ NilPointer # SplitFault /\ SplitFault # "nil"
  /\ SplitFault # "final" /\ "nil" # "final"
BY Zenon DEF NilPointer, SplitFault

(* A token, or none, and an advance that is in range.                      *)
LEMMA TokenStep ==
  ASSUME NEW s, Current(s), NEW cut, Use(s, cut), cut.err = "nil", NEW n, n = cut.advance,
         n \in 0 .. Len(Data(s)), NEW tok, tok = cut.token, tok \in {NoToken} \cup Seq(Item),
         NEW q, q = Data(s), NEW e, e = s.err
  PROVE  /\ Inv' /\ Settled(s)
         /\ \/ tok = NoToken /\ Promise!NeedsMore(Promise!After(n, q), e, NoToken)
            \/ tok # NoToken /\ Promise!Returns(Promise!After(n, q), e, tok, "true")
            \/ /\ tok # NoToken /\ e # "nil" /\ n = 0
               /\ Promise!Returns(Promise!After(n, q), e, tok, "panic")
<1> DEFINE a == Advanced(s, n)
           t == [a EXCEPT !.token = tok]
           u == Counted(t, n)
<1>1. Ordered(s) /\ n \in Nat
  <2>1. Ordered(s)
    BY DEF Current
  <2>2. Len(Data(s)) \in Nat
    BY <2>1, DataIs, OrderedFields
  <2> QED BY <2>1, <2>2
<1>2. \/ tok = NoToken /\ Refill(t)
      \/ tok # NoToken /\ u.empties = TooManyEmpties /\ Return(u, "Scan", "panic")
      \/ tok # NoToken /\ u.empties # TooManyEmpties /\ Return(u, "Scan", "true")
  <2>1. ~ (n < 0) /\ ~ (n > Len(Data(s)))
    <3>1. Len(Data(s)) \in Nat
      BY <1>1, DataIs, OrderedFields
    <3> QED BY <1>1, <3>1
  <2>2. cut.err # NilPointer /\ cut.err # "final" /\ cut.err # SplitFault
    BY AnswersDiffer
  <2> HIDE DEF u
  <2>3. t = [Advanced(s, n) EXCEPT !.token = cut.token]
    OBVIOUS
  <2> HIDE DEF t
  <2> QED BY <2>1, <2>2, <2>3, UseCases DEF u
<1>3. Like(a, s) /\ Data(a) = Promise!After(n, q) /\ a.err = e
  BY <1>1, AdvancedIs DEF Promise!After
<1> HIDE DEF a
<1>4. Like(t, s) /\ Data(t) = Promise!After(n, q) /\ t.err = e /\ t.token = tok
  <2>1. Ordered(a)
    BY <1>3 DEF Like
  <2>2. Like(t, a) /\ Data(t) = Data(a) /\ t.err = a.err /\ t.token = tok
    BY <2>1, TokenField
  <2> HIDE DEF t
  <2> QED BY <1>3, <2>2, LikeTwice
<1> HIDE DEF t
<1>5. CASE tok = NoToken /\ Refill(t)
  <2>1. Current(t)
    BY <1>4 DEF Current, Like
  <2>2. Inv' /\ Settled(t) /\ Promise!NeedsMore(Data(t), t.err, t.token)
    BY <1>5, <2>1, RefillStep
  <2>3. Settled(s)
    BY <1>4, <2>2 DEF Settled, Like
  <2> QED BY <1>4, <1>5, <2>2, <2>3
<1>6. Like(u, s) /\ Data(u) = Promise!After(n, q) /\ u.err = e /\ u.token = tok
      /\ (u.empties = TooManyEmpties => e # "nil" /\ n = 0)
  <2>1. /\ Like(u, t) /\ Data(u) = Data(t) /\ u.err = t.err /\ u.token = t.token
        /\ (u.empties = TooManyEmpties => t.err # "nil" /\ n = 0)
    BY <1>1, <1>4, CountedIs DEF Like
  <2> HIDE DEF u
  <2> QED BY <1>4, <2>1, LikeTwice
<1> HIDE DEF u
<1>7. CASE tok # NoToken /\ u.empties = TooManyEmpties /\ Return(u, "Scan", "panic")
  <2>1. Inv' /\ Settled(s) /\ Promise!Returns(Data(u), u.err, u.token, "panic")
    BY <1>6, <1>7, ReturnStep
  <2> QED BY <1>6, <1>7, <2>1
<1>8. CASE tok # NoToken /\ u.empties # TooManyEmpties /\ Return(u, "Scan", "true")
  <2>1. Inv' /\ Settled(s) /\ Promise!Returns(Data(u), u.err, u.token, "true")
    BY <1>6, <1>8, ReturnStep
  <2> QED BY <1>6, <1>8, <2>1
<1> QED BY <1>2, <1>5, <1>7, <1>8

(* The ways in which the caller's split function ends a scan, and the code *)
(* does if the function advances out of range.                             *)
LEMMA FaultIs ==
  ASSUME NEW q, NEW e, NEW why, why \in {SplitFault, NegativeAdvance, TooFar},
         Promise!Returns(q, IF e \in {"nil", "EOF"} THEN why ELSE e, scanner.token, "false")
  PROVE  Promise!CutAny(q, e)
BY Zenon DEF Promise!CutAny, SplitFault, NegativeAdvance, TooFar

LEMMA FaultStep ==
  ASSUME NEW s, Current(s), s.token = scanner.token, NEW why \in {SplitFault, NegativeAdvance, TooFar},
         Return(SetErr(s, why), "Scan", "false")
  PROVE  Inv' /\ Settled(s) /\ Promise!CutAny(Data(s), s.err)
<1> DEFINE a == SetErr(s, why)
<1>1. why \in SourceErr \cup Kept
  BY KeptIs
<1>2. /\ Like(a, s) /\ Data(a) = Data(s) /\ a.token = s.token
      /\ a.err = IF s.err \in {"nil", "EOF"} THEN why ELSE s.err
  BY <1>1, SetErrIs DEF Current
<1> HIDE DEF a
<1>3. Inv' /\ Settled(s) /\ Promise!Returns(Data(a), a.err, a.token, "false")
  BY <1>2, ReturnStep DEF a
<1>4. Promise!CutAny(Data(s), s.err)
  BY <1>2, <1>3, FaultIs
<1> QED BY <1>3, <1>4

(* The answers of a split function of the caller's.                        *)
LEMMA AnyCutCases ==
  ASSUME NEW q, NEW cut \in AnyCut(q)
  PROVE  \/ cut.err = "nil" /\ cut.advance \in -1 .. Len(q) + 1 /\ cut.token \in {NoToken, <<>>, q}
         \/ cut.err = "final" /\ cut.token \in {NoToken, <<>>, q}
         \/ cut.err = SplitFault
<1> DEFINE fault == {[advance |-> 0, token |-> NoToken, err |-> SplitFault]}
           nil == [advance : -1 .. Len(q) + 1, token : {NoToken, <<>>, q}, err : {"nil"}]
           final == [advance : {0}, token : {NoToken, <<>>, q}, err : {"final"}]
<1>1. AnyCut(q) = nil \cup final \cup fault
  BY Zenon DEF AnyCut, SplitFault
<1>2. cut \in nil => cut.err = "nil" /\ cut.advance \in -1 .. Len(q) + 1 /\ cut.token \in {NoToken, <<>>, q}
  OBVIOUS
<1>3. cut \in final => cut.err = "final" /\ cut.token \in {NoToken, <<>>, q}
  OBVIOUS
<1>4. cut \in fault => cut.err = SplitFault
  OBVIOUS
<1> HIDE DEF fault, nil, final
<1> QED BY <1>1, <1>2, <1>3, <1>4

LEMMA AnyStep ==
  ASSUME NEW s, Current(s), s.token = scanner.token, s.done = scanner.done,
         NEW cut \in AnyCut(Data(s)), Use(s, cut), NEW q, q = Data(s), NEW e, e = s.err
  PROVE  /\ Inv' /\ Steady /\ scanner'.scanCalled = s.scanCalled
         /\ \/ Promise!CutAny(q, e) /\ scanner'.done = scanner.done
            \/ Promise!Ends(q, e)
<1> DEFINE n == cut.advance
           tok == cut.token
           t == [Advanced(s, n) EXCEPT !.token = cut.token]
<1>1. Ordered(s) /\ q \in Seq(Item) /\ Len(q) \in Nat /\ <<>> \in Seq(Item)
  <2>1. Ordered(s)
    BY DEF Current
  <2>2. <<>> \in Seq(Item)
    OBVIOUS
  <2> QED BY <2>1, <2>2, DataIs
<1>2. \/ cut.err = "nil" /\ n \in -1 .. Len(q) + 1 /\ tok \in {NoToken, <<>>, q}
      \/ cut.err = "final" /\ tok \in {NoToken, <<>>, q}
      \/ cut.err = SplitFault
  BY AnyCutCases
<1>3. \/ cut.err = NilPointer
      \/ cut.err = "final" /\ Return([s EXCEPT !.token = tok, !.done = TRUE], "Scan", "true")
      \/ cut.err = SplitFault /\ Return(SetErr(s, SplitFault), "Scan", "false")
      \/ cut.err = "nil" /\ n < 0 /\ Return(SetErr(s, NegativeAdvance), "Scan", "false")
      \/ cut.err = "nil" /\ n > Len(q) /\ Return(SetErr(s, TooFar), "Scan", "false")
      \/ cut.err = "nil" /\ n \in 0 .. Len(q)
  <2>1. t = [Advanced(s, n) EXCEPT !.token = cut.token]
    OBVIOUS
  <2> HIDE DEF t
  <2> QED BY <2>1, UseCases
<1> HIDE DEF n, tok
<1>4. CASE cut.err = "nil" /\ n \in 0 .. Len(q)
  <2>1. tok \in {NoToken, <<>>, q}
    <3> DEFINE any == tok \in {NoToken, <<>>, q}
    <3>1. \/ cut.err = "nil" /\ any
          \/ cut.err = "final"
          \/ cut.err = SplitFault
      BY <1>2
    <3> HIDE DEF any
    <3>2. any
      BY <1>4, <3>1, AnswersDiffer
    <3> QED BY <3>2 DEF any
  <2>2. tok \in {NoToken} \cup Seq(Item)
    BY <1>1, <2>1, Zenon
  <2>3. /\ Inv' /\ Settled(s)
        /\ \/ tok = NoToken /\ Promise!NeedsMore(Promise!After(n, q), e, NoToken)
           \/ tok # NoToken /\ Promise!Returns(Promise!After(n, q), e, tok, "true")
           \/ /\ tok # NoToken /\ e # "nil" /\ n = 0
              /\ Promise!Returns(Promise!After(n, q), e, tok, "panic")
    BY <1>4, <2>2, TokenStep DEF n, tok
  <2>4. e # "nil" /\ n = 0 => Promise!After(n, q) = q
    BY <1>1, SubSeqFull DEF Promise!After
  <2>5. tok # NoToken => tok \in {<<>>, q}
    BY <2>1
  <2>6. Promise!CutAny(q, e)
    BY <1>4, <2>3, <2>4, <2>5, Zenon DEF Promise!CutAny
  <2> QED BY <2>3, <2>6 DEF Settled
<1>5. CASE cut.err = SplitFault /\ Return(SetErr(s, SplitFault), "Scan", "false")
  BY <1>5, FaultStep DEF Settled
<1>6. CASE cut.err = "nil" /\ n < 0 /\ Return(SetErr(s, NegativeAdvance), "Scan", "false")
  BY <1>6, FaultStep DEF Settled
<1>7. CASE cut.err = "nil" /\ n > Len(q) /\ Return(SetErr(s, TooFar), "Scan", "false")
  BY <1>7, FaultStep DEF Settled
<1>8. CASE cut.err = "final" /\ Return([s EXCEPT !.token = tok, !.done = TRUE], "Scan", "true")
  <2> DEFINE a == [s EXCEPT !.token = tok]
             d == [a EXCEPT !.done = TRUE]
  <2>0. tok \in {NoToken, <<>>, q}
    <3> DEFINE any == tok \in {NoToken, <<>>, q}
    <3>1. \/ cut.err = "nil"
          \/ cut.err = "final" /\ any
          \/ cut.err = SplitFault
      BY <1>2
    <3> HIDE DEF any
    <3>2. any
      BY <1>8, <3>1, AnswersDiffer
    <3> QED BY <3>2 DEF any
  <2>1. tok \in {NoToken, <<>>, q} /\ tok \in {NoToken} \cup Seq(Item)
    BY <1>1, <2>0, Zenon
  <2>2. Like(a, s) /\ Data(a) = Data(s) /\ a.err = s.err /\ a.token = tok
    BY <1>1, <2>1, TokenField
  <2>3. [s EXCEPT !.token = tok, !.done = TRUE] = d
    BY <1>1, OrderedFields DEF ScannerType
  <2> HIDE DEF a
  <2>4. Current(a) /\ Ordered(a) /\ a.scanCalled = s.scanCalled
    BY <2>2 DEF Current, Like
  <2>5. /\ Current(d) /\ Like(d, d) /\ Data(d) = Data(a) /\ d.err = a.err /\ d.token = a.token
        /\ d.done = TRUE /\ d.scanCalled = a.scanCalled
    BY <2>4 DEF Current, Like, Ordered, ScannerType, Room, Data
  <2>6. Return(d, "Scan", "true")
    BY <1>8, <2>3
  <2> HIDE DEF d
  <2>7. Inv' /\ Settled(d) /\ Promise!Returns(q, e, tok, "true")
    BY <2>2, <2>5, <2>6, ReturnStep
  <2>8. scanner'.done = TRUE
    BY <2>5, <2>7 DEF Settled
  <2>9. Promise!Ends(q, e)
    BY <2>1, <2>7, <2>8 DEF Promise!Ends
  <2> QED BY <2>4, <2>5, <2>7, <2>9 DEF Settled
<1>9. cut.err # NilPointer
  BY <1>2, AnswersDiffer
<1> QED BY <1>3, <1>4, <1>5, <1>6, <1>7, <1>8, <1>9

-----------------------------------------------------------------------------
(* ScanLines.                                                              *)

LEMMA LeastNatural ==
  ASSUME NEW S \in SUBSET Nat, S # {}
  PROVE  \E i \in S : \A j \in S : i <= j
<1>1. PICK i \in S : \A j \in S : ~ (<<j, i>> \in OpToRel(<, Nat))
  BY NatLessThanWellFounded, WFMin
<1>2. \A j \in S : ~ (j < i)
  BY <1>1 DEF OpToRel
<1> QED BY <1>2

Ends(q) == {i \in 1 .. Len(q) : q[i] = Delim}
FirstEnd(q) == CHOOSE j \in Ends(q) : \A k \in Ends(q) : j <= k

LEMMA FirstEndIs == ASSUME NEW q, Ends(q) # {} PROVE FirstEnd(q) \in 1 .. Len(q)
<1>1. Ends(q) \in SUBSET Nat
  BY DEF Ends
<1>2. \E j \in Ends(q) : \A k \in Ends(q) : j <= k
  BY <1>1, LeastNatural
<1>3. FirstEnd(q) \in Ends(q)
  BY <1>2 DEF FirstEnd
<1> QED BY <1>3 DEF Ends

More == [advance |-> 0, token |-> NoToken, err |-> "nil"]

LEMMA LinesCases ==
  ASSUME NEW q, NEW x, NEW atEOF, NEW F, F = Ends(q), NEW i, i = FirstEnd(q), NEW cut,
         cut = ScanLines(q, x, atEOF)
  PROVE  \/ atEOF /\ q = <<>> /\ cut = More
         \/ ~ (atEOF /\ q = <<>>) /\ F # {} /\ cut = Line(i, SubSeq(q, 1, i - 1), x)
         \/ atEOF /\ q # <<>> /\ F = {} /\ cut = Line(Len(q), q, x)
         \/ ~ atEOF /\ F = {} /\ cut = More
BY Zenon DEF ScanLines, Ends, FirstEnd, More

LEMMA LineCases ==
  ASSUME NEW n, NEW line, NEW x, NEW cut, cut = Line(n, line, x)
  PROVE  \/ line # <<>> /\ x = NoItem /\ cut.err = NilPointer
         \/ /\ ~ (line # <<>> /\ x = NoItem)
            /\ cut.advance = n /\ cut.token = Dropped(line, x) /\ cut.err = "nil"
<1>1. CASE line # <<>> /\ x = NoItem
  <2>1. cut = [advance |-> 0, token |-> NoToken, err |-> NilPointer]
    BY <1>1, Zenon DEF Line, NilPointer
  <2>2. cut.err = NilPointer
    BY <2>1
  <2> QED BY <1>1, <2>2
<1>2. CASE ~ (line # <<>> /\ x = NoItem)
  <2>1. cut = [advance |-> n, token |-> Dropped(line, x), err |-> "nil"]
    BY <1>2, Zenon DEF Line
  <2>2. cut.advance = n /\ cut.token = Dropped(line, x) /\ cut.err = "nil"
    BY <2>1
  <2> QED BY <1>2, <2>2
<1> QED BY <1>1, <1>2

LEMMA DroppedIs ==
  ASSUME NEW line \in Seq(Item), NEW x, NEW tok, tok = Dropped(line, x)
  PROVE  /\ tok \in Seq(Item)
         /\ tok = IF line # <<>> /\ line[Len(line)] = x THEN Promise!First(Len(line) - 1, line) ELSE line
<1>1. CASE line # <<>> /\ line[Len(line)] = x
  <2>1. tok = SubSeq(line, 1, Len(line) - 1)
    BY <1>1 DEF Dropped
  <2>2. SubSeq(line, 1, Len(line) - 1) \in Seq(Item)
    <3>1. Len(line) \in Nat /\ Len(line) > 0
      BY <1>1
    <3> QED BY <3>1
  <2> QED BY <1>1, <2>1, <2>2 DEF Promise!First
<1>2. CASE ~ (line # <<>> /\ line[Len(line)] = x)
  BY <1>2 DEF Dropped
<1> QED BY <1>1, <1>2

(* A line becomes a token, or breaks a scan with no excluded item.         *)
LEMMA LineStep ==
  ASSUME NEW s, Current(s), s.token = scanner.token, NEW q, q = Data(s), NEW e, e = s.err,
         NEW line \in Seq(Item), NEW n \in 1 .. Len(q), NEW cut, cut = Line(n, line, s.excluded),
         Use(s, cut)
  PROVE  Inv' /\ Settled(s) /\ Promise!CutLine(line, Promise!After(n, q), q, e)
<1> DEFINE x == scanner.excluded
           tok == Dropped(line, x)
<1>1. Ordered(s) /\ s.excluded = x
  BY DEF Current
<1>2. \/ line # <<>> /\ x = NoItem /\ cut.err = NilPointer
      \/ /\ ~ (line # <<>> /\ x = NoItem)
         /\ cut.advance = n /\ cut.token = tok /\ cut.err = "nil"
  BY <1>1, LineCases
<1>3. /\ tok \in Seq(Item)
      /\ tok = IF line # <<>> /\ line[Len(line)] = x THEN Promise!First(Len(line) - 1, line) ELSE line
  BY DroppedIs
<1> HIDE DEF tok
<1>4. CASE line # <<>> /\ x = NoItem /\ cut.err = NilPointer
  <2>1. Return(s, "Scan", "panic")
    <3> DEFINE k == cut.advance
               t == [Advanced(s, k) EXCEPT !.token = cut.token]
    <3>1. t = [Advanced(s, k) EXCEPT !.token = cut.token]
      OBVIOUS
    <3> HIDE DEF t, k
    <3> QED BY <1>4, <3>1, UseCases, AnswersDiffer DEF k
  <2>2. Like(s, s)
    BY <1>1 DEF Like
  <2>3. Inv' /\ Settled(s) /\ Promise!Returns(q, e, scanner.token, "panic")
    BY <2>1, <2>2, ReturnStep
  <2> QED BY <1>4, <2>3 DEF Promise!CutLine, x
<1>5. CASE /\ ~ (line # <<>> /\ x = NoItem)
           /\ cut.advance = n /\ cut.token = tok /\ cut.err = "nil"
  <2>1. tok # NoToken /\ tok \in {NoToken} \cup Seq(Item)
    BY <1>3, ScannerAssumption
  <2>2. n \in 0 .. Len(Data(s)) /\ n # 0
    <3>1. Len(q) \in Nat
      BY <1>1, DataIs
    <3> QED BY <3>1
  <2>3. Inv' /\ Settled(s) /\ Promise!Returns(Promise!After(n, q), e, tok, "true")
    BY <1>5, <2>1, <2>2, TokenStep
  <2> QED BY <1>3, <1>5, <2>3 DEF Promise!CutLine, x
<1> QED BY <1>2, <1>4, <1>5

LEMMA LinesStep ==
  ASSUME NEW s, Current(s), s.token = scanner.token, NEW q, q = Data(s), NEW e, e = s.err,
         NEW cut, cut = ScanLines(q, s.excluded, e # "nil"), Use(s, cut)
  PROVE  Inv' /\ Settled(s) /\ Promise!CutLines(q, e)
<1> DEFINE F == Ends(q)
           i == FirstEnd(q)
           x == s.excluded
<1>1. Ordered(s) /\ q \in Seq(Item) /\ Len(q) \in Nat
  BY DataIs DEF Current
<1>2. \/ e # "nil" /\ q = <<>> /\ cut = More
      \/ F # {} /\ cut = Line(i, SubSeq(q, 1, i - 1), x)
      \/ e # "nil" /\ q # <<>> /\ F = {} /\ cut = Line(Len(q), q, x)
      \/ e = "nil" /\ F = {} /\ cut = More
  <2> DEFINE atEOF == e # "nil"
  <2>1. cut = ScanLines(q, x, atEOF)
    OBVIOUS
  <2> HIDE DEF atEOF, F, i, x
  <2>2. \/ atEOF /\ q = <<>> /\ cut = More
        \/ ~ (atEOF /\ q = <<>>) /\ F # {} /\ cut = Line(i, SubSeq(q, 1, i - 1), x)
        \/ atEOF /\ q # <<>> /\ F = {} /\ cut = Line(Len(q), q, x)
        \/ ~ atEOF /\ F = {} /\ cut = More
    BY <2>1, LinesCases DEF F, i
  <2> QED BY <2>2, Zenon DEF atEOF
<1>3. ASSUME q = <<>> PROVE F = {}
  BY <1>1, <1>3 DEF Ends
<1>4. \/ F # {} /\ Promise!CutLine(Promise!First(i - 1, q), Promise!After(i, q), q, e)
      \/ F = {} /\ e = "nil" /\ Promise!NeedsMore(q, e, NoToken)
      \/ F = {} /\ e # "nil" /\ q = <<>> /\ Promise!NeedsMore(q, e, NoToken)
      \/ F = {} /\ e # "nil" /\ q # <<>> /\ Promise!CutLine(q, <<>>, q, e)
      => Promise!CutLines(q, e)
  BY Zenon DEF Promise!CutLines, Ends, FirstEnd
<1>5. F # {} => i \in 1 .. Len(q)
  BY FirstEndIs
<1> HIDE DEF F, i, x
<1>6. CASE F = {} /\ (e = "nil" \/ q = <<>>) /\ cut = More
  <2>1. cut.err = "nil" /\ cut.advance = 0 /\ cut.token = NoToken
    BY <1>6 DEF More
  <2>2. 0 \in 0 .. Len(Data(s)) /\ Promise!After(0, q) = q
    BY <1>1, SubSeqFull DEF Promise!After
  <2>3. Inv' /\ Settled(s) /\ Promise!NeedsMore(q, e, NoToken)
    BY <2>1, <2>2, TokenStep
  <2> QED BY <1>3, <1>4, <1>6, <2>3
<1>7. CASE F # {} /\ cut = Line(i, SubSeq(q, 1, i - 1), x)
  <2>1. SubSeq(q, 1, i - 1) \in Seq(Item)
    BY <1>1, <1>5, <1>7
  <2>2. /\ Inv' /\ Settled(s)
        /\ Promise!CutLine(SubSeq(q, 1, i - 1), Promise!After(i, q), q, e)
    BY <1>5, <1>7, <2>1, LineStep DEF x
  <2> QED BY <1>4, <1>7, <2>2 DEF Promise!First
<1>8. CASE e # "nil" /\ q # <<>> /\ F = {} /\ cut = Line(Len(q), q, x)
  <2>1. Len(q) \in 1 .. Len(q)
    BY <1>1, <1>8
  <2>2. Inv' /\ Settled(s) /\ Promise!CutLine(q, Promise!After(Len(q), q), q, e)
    BY <1>1, <1>8, <2>1, LineStep DEF x
  <2>3. Promise!After(Len(q), q) = <<>>
    <3> DEFINE r == SubSeq(q, Len(q) + 1, Len(q))
    <3>1. r \in Seq(Item) /\ Len(r) = 0
      BY <1>1
    <3> HIDE DEF r
    <3>2. r = <<>>
      BY <3>1
    <3> QED BY <3>2 DEF Promise!After, r
  <2>4. Promise!CutLine(q, <<>>, q, e)
    BY <2>2, <2>3
  <2> QED BY <1>4, <1>8, <2>2, <2>4, Zenon
<1> QED BY <1>2, <1>3, <1>6, <1>7, <1>8

-----------------------------------------------------------------------------
(* The head of the loop.                                                   *)

LEMMA TryCases ==
  ASSUME NEW s, Try(s)
  PROVE  \/ s.start = s.end /\ s.err = "nil" /\ Refill(s)
         \/ ~ (s.start = s.end /\ s.err = "nil") /\ \E cut \in Cuts(s) : Use(s, cut)
BY DEF Try

LEMMA CutsCases ==
  ASSUME NEW s, NEW cut \in Cuts(s), s.split \in {"ScanLines", "any"}
  PROVE  \/ s.split = "ScanLines" /\ cut = ScanLines(Data(s), s.excluded, s.err # "nil")
         \/ s.split = "any" /\ cut \in AnyCut(Data(s))
BY Zenon DEF Cuts

LEMMA TryStep ==
  ASSUME NEW s, Current(s), s.token = scanner.token, s.done = scanner.done, Try(s),
         NEW q, q = Data(s), NEW e, e = s.err
  PROVE  Inv' /\ Steady /\ scanner'.scanCalled = s.scanCalled /\ Promise!Cuts(q, e)
<1>1. /\ Ordered(s) /\ s.split = scanner.split /\ s.split \in {"ScanLines", "any"}
      /\ Len(q) = s.end - s.start /\ q \in Seq(Item) /\ s.start \in Nat /\ s.end \in Nat
  <2>1. Ordered(s) /\ s.split = scanner.split
    BY DEF Current
  <2>2. s.split \in {"ScanLines", "any"}
    BY <2>1, OrderedFields DEF ScannerType
  <2> QED BY <2>1, <2>2, DataIs, OrderedFields
<1>2. CASE s.start = s.end /\ s.err = "nil" /\ Refill(s)
  <2>1. Inv' /\ Settled(s) /\ Promise!NeedsMore(q, e, s.token)
    BY <1>2, RefillStep
  <2>2. q = <<>>
    BY <1>1, <1>2
  <2>3. scanner'.done = scanner.done
    BY <2>1 DEF Settled
  <2>4. Promise!Cuts(q, e)
    BY <1>2, <2>1, <2>2, <2>3, Zenon DEF Promise!Cuts
  <2> QED BY <2>1, <2>4 DEF Settled
<1>3. CASE ~ (s.start = s.end /\ s.err = "nil") /\ \E cut \in Cuts(s) : Use(s, cut)
  <2>1. q # <<>> \/ e # "nil"
    BY <1>1, <1>3
  <2>2. PICK cut \in Cuts(s) : Use(s, cut)
    BY <1>3
  <2>3. \/ s.split = "ScanLines" /\ cut = ScanLines(q, s.excluded, e # "nil")
        \/ s.split = "any" /\ cut \in AnyCut(q)
    BY <1>1, CutsCases
  <2>4. CASE s.split = "ScanLines" /\ cut = ScanLines(q, s.excluded, e # "nil")
    <3>1. Inv' /\ Settled(s) /\ Promise!CutLines(q, e)
      BY <2>2, <2>4, LinesStep
    <3>2. scanner'.done = scanner.done
      BY <3>1 DEF Settled
    <3>3. Promise!Cuts(q, e)
      BY <1>1, <2>1, <2>4, <3>1, <3>2, Zenon DEF Promise!Cuts
    <3> QED BY <3>1, <3>3 DEF Settled
  <2>5. CASE s.split = "any" /\ cut \in AnyCut(q)
    <3>1. /\ Inv' /\ Steady /\ scanner'.scanCalled = s.scanCalled
          /\ \/ Promise!CutAny(q, e) /\ scanner'.done = scanner.done
             \/ Promise!Ends(q, e)
      BY <2>2, <2>5, AnyStep
    <3>2. Promise!Cuts(q, e)
      BY <1>1, <2>1, <2>5, <3>1, Zenon DEF Promise!Cuts
    <3> QED BY <3>1, <3>2
  <2> QED BY <2>3, <2>4, <2>5
<1> QED BY <1>2, <1>3, TryCases

(* What Tokenizer leaves alone in a Scan.                                  *)
LEMMA SteadyIs == ASSUME Steady PROVE UNCHANGED Promise!config
BY DEF Steady, Room, Promise!config

LEMMA ScanStep == ASSUME Inv, Scan PROVE Inv' /\ Promise!Scan
<1>1. /\ Ordered(scanner) /\ scanner \in ScannerType /\ scanner.done \in BOOLEAN /\ call = NoCall
      /\ (scanner.scanCalled \/ ~ scanner.done)
  BY DEF Inv, Ordered, ScannerType, Scan
<1>2. (call.at = "read") = FALSE
  BY <1>1 DEF NoCall
<1>3. CASE scanner.done
  <2>1. Return(scanner, "Scan", "false")
    BY <1>3 DEF Scan
  <2>2. Current(scanner) /\ Like(scanner, scanner)
    BY <1>1, <1>3 DEF Current, Like
  <2>3. Inv' /\ Settled(scanner) /\ Promise!Returns(Data(scanner), scanner.err, scanner.token, "false")
    BY <2>1, <2>2, ReturnStep
  <2>4. UNCHANGED Promise!config
    BY <2>3, SteadyIs DEF Settled
  <2>5. Promise!Scan
    BY <1>2, <1>3, <2>3, <2>4 DEF Promise!Scan, Settled
  <2> QED BY <2>3, <2>5
<1>4. CASE ~ scanner.done
  <2> DEFINE s == [scanner EXCEPT !.scanCalled = TRUE]
  <2>1. Try(s)
    BY <1>4 DEF Scan
  <2>2. /\ Ordered(s) /\ s.split = scanner.split /\ s.excluded = scanner.excluded
        /\ Room(s) = Room(scanner) /\ s.scanCalled = TRUE /\ s.token = scanner.token
        /\ s.done = scanner.done /\ s.err = scanner.err /\ Data(s) = Data(scanner)
    BY <1>1 DEF Ordered, ScannerType, Room, Data
  <2> HIDE DEF s
  <2>3. Current(s)
    BY <2>2 DEF Current
  <2>4. Inv' /\ Steady /\ scanner'.scanCalled = s.scanCalled /\ Promise!Cuts(Data(scanner), scanner.err)
    BY <2>1, <2>2, <2>3, TryStep
  <2>5. (scanner.scanCalled)' = TRUE /\ UNCHANGED Promise!config
    BY <2>2, <2>4, SteadyIs
  <2>6. Promise!Scan
    BY <1>2, <1>4, <2>4, <2>5 DEF Promise!Scan
  <2> QED BY <2>4, <2>6
<1> QED BY <1>3, <1>4

-----------------------------------------------------------------------------
(* The reads.                                                              *)

LEMMA ChunkIs ==
  /\ <<>> \in Chunk
  /\ \A chunk \in Chunk : chunk \in Seq(Item)
<1>1. MaxRoom \in Nat
  BY MaxRoomIs
<1>2. <<>> \in [1 .. 0 -> Item]
  OBVIOUS
<1>3. <<>> \in Chunk
  <2>1. 0 \in 0 .. MaxRoom
    BY <1>1
  <2> QED BY <1>2, <2>1 DEF Chunk
<1>4. ASSUME NEW chunk \in Chunk PROVE chunk \in Seq(Item)
  <2>1. PICK n \in 0 .. MaxRoom : chunk \in [1 .. n -> Item]
    BY DEF Chunk
  <2>2. n \in Nat
    BY <1>1
  <2> QED BY <2>1, <2>2
<1> QED BY <1>3, <1>4

LEMMA ArriveIs ==
  ASSUME NEW chunk \in Chunk, NEW e \in SourceErr \cup {BadCounted, NoProgress},
         call.at = "read", UNCHANGED <<scanner.scanCalled, Promise!config>>,
         Len(Data(scanner)) + Len(chunk) <= Room(scanner), chunk # <<>> \/ e # "nil",
         Promise!Cuts(Data(scanner) \o chunk, e)
  PROVE  Promise!Arrive
BY Zenon DEF Promise!Arrive, Room, BadCounted, NoProgress

(* The scanner goes on with what a Read, or several, have given it.        *)
LEMMA ArriveStep ==
  ASSUME Inv, call.at = "read", NEW chunk \in Chunk,
         Len(chunk) <= Len(scanner.buf) - scanner.end,
         NEW e \in SourceErr \cup {BadCounted, NoProgress}, chunk # <<>> \/ e # "nil",
         NEW t, Like(t, scanner), Data(t) = Data(scanner) \o chunk, t.err = e,
         t.token = scanner.token, Try(t)
  PROVE  Inv' /\ Promise!Arrive
<1>1. Ordered(scanner) /\ scanner.scanCalled /\ chunk \in Seq(Item)
  BY ChunkIs DEF Inv, NoCall
<1>2. Current(t) /\ t.done = scanner.done /\ t.scanCalled = scanner.scanCalled
  BY <1>1 DEF Current, Like
<1>3. /\ Inv' /\ Steady /\ scanner'.scanCalled = t.scanCalled
      /\ Promise!Cuts(Data(scanner) \o chunk, e)
  BY <1>2, TryStep
<1>4. UNCHANGED <<scanner.scanCalled, Promise!config>>
  BY <1>2, <1>3, SteadyIs
<1>5. Len(Data(scanner)) + Len(chunk) <= Room(scanner)
  <2>1. /\ Len(Data(scanner)) = scanner.end - scanner.start /\ scanner.start \in Nat
        /\ scanner.end \in Nat /\ Len(scanner.buf) \in Nat /\ scanner.max \in Int
    BY <1>1, DataIs, OrderedFields
  <2>2. Len(chunk) \in Nat
    BY <1>1
  <2> QED BY <2>1, <2>2 DEF Room
<1>6. Promise!Arrive
  BY <1>3, <1>4, <1>5, ArriveIs
<1> QED BY <1>3, <1>6

LEMMA ReadTurnCases ==
  ASSUME NEW chunk, NEW err, ReadTurn(chunk, err), NEW s, s = Delivered(scanner, chunk)
  PROVE  /\ call.at = "read" /\ Len(chunk) <= Len(scanner.buf) - scanner.end
         /\ \/ err # "nil" /\ Try(SetErr(s, err))
            \/ err = "nil" /\ chunk # <<>> /\ Try([s EXCEPT !.empties = 0])
            \/ err = "nil" /\ chunk = <<>> /\ Try(SetErr(s, NoProgress))
            \/ /\ err = "nil" /\ chunk = <<>> /\ ~ (call.loop + 1 > MaxConsecutiveEmptyReads)
               /\ WaitRead(s, call.loop + 1)
BY Zenon DEF ReadTurn, Delivered, GivenUp, NoProgress

LEMMA ReadTurnStep ==
  ASSUME Inv, NEW chunk \in Chunk, NEW err \in SourceErr, ReadTurn(chunk, err)
  PROVE  Inv' /\ (Promise!Arrive \/ UNCHANGED Promise!vars)
<1> DEFINE s == Delivered(scanner, chunk)
           loop == call.loop + 1
<1>1. /\ call.at = "read" /\ Len(chunk) <= Len(scanner.buf) - scanner.end
      /\ \/ err # "nil" /\ Try(SetErr(s, err))
         \/ err = "nil" /\ chunk # <<>> /\ Try([s EXCEPT !.empties = 0])
         \/ err = "nil" /\ chunk = <<>> /\ Try(SetErr(s, NoProgress))
         \/ /\ err = "nil" /\ chunk = <<>> /\ ~ (call.loop + 1 > MaxConsecutiveEmptyReads)
            /\ WaitRead(s, loop)
  BY ReadTurnCases
<1>2. chunk \in Seq(Item)
  BY ChunkIs
<1>3. /\ Ordered(scanner) /\ call.loop \in Nat /\ scanner.end < Len(scanner.buf)
      /\ scanner.err = "nil" /\ result = NoResult /\ scanner.scanCalled
  <2>1. call # NoCall
    BY <1>1 DEF NoCall
  <2> QED BY <2>1 DEF Inv
<1>4. /\ Like(s, scanner) /\ Data(s) = Data(scanner) \o chunk /\ s.err = "nil"
      /\ s.token = scanner.token /\ s.end = scanner.end + Len(chunk)
      /\ Len(s.buf) = Len(scanner.buf)
  BY <1>1, <1>2, <1>3, DeliveredIs
<1> HIDE DEF s
<1>5. Ordered(s)
  BY <1>4 DEF Like
<1>6. CASE err # "nil" /\ Try(SetErr(s, err))
  <2> DEFINE t == SetErr(s, err)
  <2>1. Like(t, s) /\ Data(t) = Data(s) /\ t.err = err /\ t.token = s.token
    BY <1>4, <1>5, SetErrIs
  <2>2. Try(t)
    BY <1>6
  <2> HIDE DEF t
  <2>3. Like(t, scanner)
    BY <1>4, <2>1, LikeTwice
  <2>4. err \in SourceErr \cup {BadCounted, NoProgress}
    OBVIOUS
  <2> QED BY <1>1, <1>4, <1>6, <2>1, <2>2, <2>3, <2>4, ArriveStep
<1>7. CASE err = "nil" /\ chunk # <<>> /\ Try([s EXCEPT !.empties = 0])
  <2> DEFINE t == [s EXCEPT !.empties = 0]
  <2>1. Like(t, s) /\ Data(t) = Data(s) /\ t.err = s.err /\ t.token = s.token
    <3>1. 0 \in 0 .. TooManyEmpties
      BY ScannerAssumption DEF TooManyEmpties
    <3> QED BY <1>5, <3>1, EmptiesField
  <2>2. Try(t)
    BY <1>7
  <2> HIDE DEF t
  <2>3. Like(t, scanner)
    BY <1>4, <2>1, LikeTwice
  <2>4. err \in SourceErr \cup {BadCounted, NoProgress}
    OBVIOUS
  <2> QED BY <1>1, <1>4, <1>7, <2>1, <2>2, <2>3, <2>4, ArriveStep
<1>8. CASE err = "nil" /\ chunk = <<>> /\ Try(SetErr(s, NoProgress))
  <2> DEFINE t == SetErr(s, NoProgress)
  <2>1. Like(t, s) /\ Data(t) = Data(s) /\ t.err = NoProgress /\ t.token = s.token
    BY <1>4, <1>5, SetErrIs, KeptIs
  <2>2. Try(t)
    BY <1>8
  <2> HIDE DEF t
  <2>3. Like(t, scanner)
    BY <1>4, <2>1, LikeTwice
  <2>4. NoProgress \in SourceErr \cup {BadCounted, NoProgress} /\ NoProgress # "nil"
    BY KeptIs
  <2> QED BY <1>1, <1>4, <2>1, <2>2, <2>3, <2>4, ArriveStep
<1>9. CASE /\ err = "nil" /\ chunk = <<>> /\ ~ (call.loop + 1 > MaxConsecutiveEmptyReads)
           /\ WaitRead(s, loop)
  <2>1. loop \in Nat /\ loop <= MaxConsecutiveEmptyReads
    BY <1>3, <1>9, ScannerAssumption
  <2> HIDE DEF loop
  <2>2. scanner' = s /\ call' = [at |-> "read", loop |-> loop] /\ result' = NoResult
    BY <1>9 DEF WaitRead
  <2>3. call'.at = "read" /\ call'.loop = loop
    BY <2>2
  <2>4. s.end = scanner.end
    <3>1. scanner.end \in Nat /\ Len(chunk) = 0
      BY <1>3, <1>9, OrderedFields
    <3> QED BY <1>4, <3>1
  <2>5. s.scanCalled
    BY <1>3, <1>4 DEF Like
  <2>6. Inv'
    BY <1>3, <1>4, <1>5, <2>1, <2>2, <2>3, <2>4, <2>5 DEF Inv
  <2>7. Data(s) = Data(scanner)
    <3>1. Data(scanner) \in Seq(Item)
      BY <1>3, DataIs
    <3> QED BY <1>4, <1>9, <3>1
  <2>8. UNCHANGED Promise!config
    BY <1>4, <2>2 DEF Promise!config, Like, Room
  <2>9. /\ Data(scanner)' = Data(scanner) /\ scanner'.err = scanner.err
        /\ scanner'.token = scanner.token /\ scanner'.scanCalled = scanner.scanCalled
        /\ scanner'.done = scanner.done /\ result' = result
    BY <1>3, <1>4, <2>2, <2>7 DEF Like, Data
  <2>10. UNCHANGED (call.at = "read")
    BY <1>1, <2>3
  <2> QED BY <2>6, <2>8, <2>9, <2>10 DEF Promise!vars
<1> QED BY <1>1, <1>6, <1>7, <1>8, <1>9

LEMMA BadCountStep == ASSUME Inv, BadCount PROVE Inv' /\ Promise!Arrive
<1> DEFINE t == SetErr(scanner, BadCounted)
<1>1. call.at = "read" /\ Try(t)
  BY Zenon DEF BadCount, BadCounted
<1>2. /\ Ordered(scanner) /\ scanner.end < Len(scanner.buf) /\ scanner.err = "nil"
  <2>1. call # NoCall
    BY <1>1 DEF NoCall
  <2> QED BY <2>1 DEF Inv
<1>3. Like(t, scanner) /\ Data(t) = Data(scanner) /\ t.err = BadCounted /\ t.token = scanner.token
  BY <1>2, SetErrIs, KeptIs
<1> HIDE DEF t
<1>4. Data(scanner) = Data(scanner) \o <<>>
  <2>1. Data(scanner) \in Seq(Item)
    BY <1>2, DataIs
  <2> QED BY <2>1
<1>5. Len(<<>>) <= Len(scanner.buf) - scanner.end
  <2>1. Len(scanner.buf) \in Nat /\ scanner.end \in Nat
    BY <1>2, OrderedFields
  <2> QED BY <1>2, <2>1
<1>6. BadCounted \in SourceErr \cup {BadCounted, NoProgress} /\ BadCounted # "nil"
  BY KeptIs
<1> QED BY <1>1, <1>3, <1>4, <1>5, <1>6, ChunkIs, ArriveStep

-----------------------------------------------------------------------------
(* Buffer and Split.                                                       *)

LEMMA ConfigureStep ==
  ASSUME Inv, NEW op, NEW s, Configure(op, s),
         ~ scanner.scanCalled => /\ Ordered(s) /\ Data(s) = Data(scanner) /\ s.end = scanner.end
                                 /\ s.done = scanner.done
  PROVE  /\ Inv' /\ ~ (call.at = "read") /\ (call.at = "read")' = FALSE
         /\ \/ /\ scanner.scanCalled /\ scanner' = scanner
               /\ result' = [op |-> op, ret |-> "panic"] /\ UNCHANGED Promise!config
            \/ /\ ~ scanner.scanCalled /\ scanner' = s /\ result' = [op |-> op, ret |-> "none"]
<1>1. call = NoCall /\ call' = NoCall
  BY DEF Configure, Return
<1>2. ~ (NoCall.at = "read")
  BY DEF NoCall
<1>3. CASE scanner.scanCalled
  <2>1. scanner' = scanner /\ result' = [op |-> op, ret |-> "panic"]
    BY <1>3 DEF Configure, Return
  <2>2. Inv' /\ UNCHANGED Promise!config
    BY <1>1, <2>1 DEF Inv, Promise!config
  <2> QED BY <1>1, <1>2, <1>3, <2>1, <2>2
<1>4. CASE ~ scanner.scanCalled
  <2>1. scanner' = s /\ result' = [op |-> op, ret |-> "none"]
    BY <1>4 DEF Configure, Return
  <2>2. Inv'
    BY <1>1, <1>4, <2>1 DEF Inv
  <2> QED BY <1>1, <1>2, <1>4, <2>1, <2>2
<1> QED BY <1>3, <1>4

LEMMA BufferStep ==
  ASSUME Inv, NEW cap \in Cap, NEW limit \in Limit, Buffer(cap, limit)
  PROVE  Inv' /\ Promise!Configure("Buffer")
<1> DEFINE b == NewBuf(cap)
           s == [scanner EXCEPT !.buf = b, !.max = limit]
<1>1. /\ Ordered(scanner) /\ scanner \in ScannerType /\ scanner.scanCalled \in BOOLEAN
      /\ (scanner.scanCalled \/ scanner.end = 0)
  BY DEF Inv, Ordered, ScannerType
<1>2. b \in Seq(Item) /\ Len(b) = cap /\ cap \in Nat /\ limit \in Int
      /\ cap <= MaxRoom /\ limit <= MaxRoom
  <2>1. cap \in Nat /\ limit \in Int /\ Zero \in Item
    BY ScannerAssumption
  <2> QED BY <2>1, MaxRoomIs DEF NewBuf
<1> HIDE DEF b
<1>3. /\ s \in ScannerType /\ s.buf = b /\ s.max = limit /\ s.start = scanner.start
      /\ s.end = scanner.end /\ s.err = scanner.err /\ s.token = scanner.token
      /\ s.split = scanner.split /\ s.excluded = scanner.excluded
      /\ s.scanCalled = scanner.scanCalled /\ s.done = scanner.done
  BY <1>1, <1>2 DEF ScannerType
<1>4. Configure("Buffer", s)
  BY DEF Buffer, b
<1> HIDE DEF s
<1>5. ASSUME ~ scanner.scanCalled PROVE Ordered(s) /\ Data(s) = Data(scanner)
  <2>1. scanner.end = 0 /\ scanner.start = 0
    BY <1>1, <1>5, OrderedFields
  <2>2. Ordered(s)
    BY <1>2, <1>3, <2>1 DEF Ordered
  <2>3. s.end - s.start = scanner.end - scanner.start
    BY <1>3
  <2>4. \A i \in 1 .. scanner.end - scanner.start :
          s.buf[s.start + i] = scanner.buf[scanner.start + i]
    BY <2>1
  <2> QED BY <1>1, <2>2, <2>3, <2>4, Alike
<1>6. /\ Inv' /\ ~ (call.at = "read") /\ (call.at = "read")' = FALSE
      /\ \/ /\ scanner.scanCalled /\ scanner' = scanner
            /\ result' = [op |-> "Buffer", ret |-> "panic"] /\ UNCHANGED Promise!config
         \/ /\ ~ scanner.scanCalled /\ scanner' = s /\ result' = [op |-> "Buffer", ret |-> "none"]
  BY <1>3, <1>4, <1>5, ConfigureStep
<1>7. /\ Data(scanner)' = Data(scanner) /\ scanner'.err = scanner.err
      /\ scanner'.token = scanner.token /\ scanner'.scanCalled = scanner.scanCalled
      /\ scanner'.done = scanner.done /\ scanner'.excluded = scanner.excluded
      /\ UNCHANGED (call.at = "read")
  BY <1>3, <1>5, <1>6 DEF Data
<1>8. CASE /\ scanner.scanCalled /\ scanner' = scanner
           /\ result' = [op |-> "Buffer", ret |-> "panic"] /\ UNCHANGED Promise!config
  BY <1>6, <1>7, <1>8 DEF Promise!Configure
<1>9. CASE ~ scanner.scanCalled /\ scanner' = s /\ result' = [op |-> "Buffer", ret |-> "none"]
  <2>1. scanner'.split = scanner.split /\ Room(scanner') = IF cap > limit THEN cap ELSE limit
    BY <1>2, <1>3, <1>9 DEF Room
  <2> QED BY <1>6, <1>7, <1>9, <2>1 DEF Promise!Configure, Room
<1> QED BY <1>6, <1>8, <1>9

LEMMA SplitStep ==
  ASSUME Inv, NEW split \in {"ScanLines", "any"}, Split(split)
  PROVE  Inv' /\ Promise!Configure("Split")
<1> DEFINE s == [scanner EXCEPT !.split = split]
<1>1. Ordered(scanner) /\ scanner \in ScannerType /\ scanner.scanCalled \in BOOLEAN
  BY DEF Inv, Ordered, ScannerType
<1>2. /\ s \in ScannerType /\ s.buf = scanner.buf /\ s.max = scanner.max
      /\ s.start = scanner.start /\ s.end = scanner.end /\ s.err = scanner.err
      /\ s.token = scanner.token /\ s.split = split /\ s.excluded = scanner.excluded
      /\ s.scanCalled = scanner.scanCalled /\ s.done = scanner.done
  BY <1>1 DEF ScannerType
<1>3. Configure("Split", s)
  BY DEF Split
<1> HIDE DEF s
<1>4. Ordered(s) /\ Data(s) = Data(scanner) /\ Room(s) = Room(scanner)
  BY <1>1, <1>2 DEF Ordered, Data, Room
<1>5. /\ Inv' /\ ~ (call.at = "read") /\ (call.at = "read")' = FALSE
      /\ \/ /\ scanner.scanCalled /\ scanner' = scanner
            /\ result' = [op |-> "Split", ret |-> "panic"] /\ UNCHANGED Promise!config
         \/ /\ ~ scanner.scanCalled /\ scanner' = s /\ result' = [op |-> "Split", ret |-> "none"]
  BY <1>2, <1>3, <1>4, ConfigureStep
<1>6. /\ Data(scanner)' = Data(scanner) /\ scanner'.err = scanner.err
      /\ scanner'.token = scanner.token /\ scanner'.scanCalled = scanner.scanCalled
      /\ scanner'.done = scanner.done /\ scanner'.excluded = scanner.excluded
      /\ UNCHANGED (call.at = "read")
  BY <1>2, <1>4, <1>5 DEF Data
<1>7. CASE /\ scanner.scanCalled /\ scanner' = scanner
           /\ result' = [op |-> "Split", ret |-> "panic"] /\ UNCHANGED Promise!config
  BY <1>5, <1>6, <1>7 DEF Promise!Configure
<1>8. CASE ~ scanner.scanCalled /\ scanner' = s /\ result' = [op |-> "Split", ret |-> "none"]
  <2>1. scanner'.split = split /\ Room(scanner') = Room(scanner)
    BY <1>2, <1>4, <1>8
  <2> QED BY <1>5, <1>6, <1>8, <2>1 DEF Promise!Configure, Room
<1> QED BY <1>5, <1>7, <1>8

-----------------------------------------------------------------------------
(* The specification.                                                      *)

LEMMA InitStep == ASSUME Init PROVE Inv /\ Promise!Init
<1>1. PICK excluded \in Excluded :
        scanner = [split |-> "ScanLines", excluded |-> excluded, max |-> MaxScanTokenSize,
                   token |-> NoToken, buf |-> <<>>, start |-> 0, end |-> 0, err |-> "nil",
                   empties |-> 0, scanCalled |-> FALSE, done |-> FALSE]
  BY DEF Init
<1>2. call = NoCall /\ result = NoResult
  BY DEF Init
<1>3. /\ excluded \in Item \cup {NoItem} /\ MaxScanTokenSize \in Nat /\ MaxScanTokenSize > 0
      /\ MaxRoom \in Nat /\ MaxScanTokenSize <= MaxRoom /\ 0 \in 0 .. TooManyEmpties
  BY ScannerAssumption, MaxRoomIs DEF TooManyEmpties
<1>4. <<>> \in Seq(Item) /\ Len(<<>>) = 0
  OBVIOUS
<1>5. /\ scanner \in ScannerType /\ scanner.buf = <<>> /\ scanner.start = 0 /\ scanner.end = 0
      /\ scanner.max = MaxScanTokenSize /\ scanner.done = FALSE /\ scanner.scanCalled = FALSE
      /\ scanner.err = "nil" /\ scanner.token = NoToken /\ scanner.split = "ScanLines"
      /\ scanner.excluded = excluded
  BY <1>1, <1>3, <1>4 DEF ScannerType, SourceErr
<1>6. Ordered(scanner)
  BY <1>3, <1>4, <1>5 DEF Ordered
<1>7. Inv
  BY <1>2, <1>5, <1>6 DEF Inv
<1>8. Data(scanner) = <<>>
  <2>1. Data(scanner) \in Seq(Item) /\ Len(Data(scanner)) = 0
    BY <1>5, <1>6, DataIs
  <2> QED BY <2>1
<1>9. Room(scanner) = MaxScanTokenSize
  BY <1>3, <1>4, <1>5 DEF Room
<1>10. (call.at = "read") = FALSE /\ NoResult = Promise!NoResult
  BY <1>2 DEF NoCall, NoResult, Promise!NoResult
<1> QED BY <1>2, <1>5, <1>7, <1>8, <1>9, <1>10 DEF Promise!Init, Room

LEMMA NextStep ==
  ASSUME Inv, [Next]_vars
  PROVE  Inv' /\ [Promise!Next]_(Promise!vars)
<1>1. CASE Scan
  BY <1>1, ScanStep DEF Promise!Next
<1>2. CASE \E chunk \in Chunk, err \in SourceErr : ReadTurn(chunk, err)
  BY <1>2, ReadTurnStep DEF Promise!Next
<1>3. CASE BadCount
  BY <1>3, BadCountStep DEF Promise!Next
<1>4. CASE \E cap \in Cap, limit \in Limit : Buffer(cap, limit)
  BY <1>4, BufferStep DEF Promise!Next
<1>5. CASE \E split \in {"ScanLines", "any"} : Split(split)
  BY <1>5, SplitStep DEF Promise!Next
<1>6. CASE UNCHANGED vars
  BY <1>6 DEF vars, Inv, Promise!vars, Promise!config, Data
<1> QED BY <1>1, <1>2, <1>3, <1>4, <1>5, <1>6 DEF Next

(* The positions stay in range and in order, the buffer within the bounds  *)
(* it was given, and the reader is asked only with room for an item and as *)
(* long as there has been no error: Scan never indexes or slices its       *)
(* buffer out of range.                                                    *)
THEOREM TypeCorrect == Spec => []TypeOK
<1>1. Init => Inv
  BY InitStep
<1>2. Inv /\ [Next]_vars => Inv'
  BY NextStep
<1>3. Inv => TypeOK
  BY InvType
<1> QED BY <1>1, <1>2, <1>3, PTL DEF Spec

(* A scanner, whatever its reader delivers and its split function answers, *)
(* cuts its tokens from a queue of the items that were read: no item is    *)
(* lost, repeated or cut differently because of how the reads came or how  *)
(* the buffer was shifted and grew, a token is too long exactly if the     *)
(* largest buffer is full and holds none, and the first error but EOF is   *)
(* the one that is kept.                                                   *)
THEOREM RefinesTokenizer == Spec => IsTokenizer
<1>1. Init => Inv /\ Promise!Init
  BY InitStep
<1>2. Inv /\ [Next]_vars => Inv' /\ [Promise!Next]_(Promise!vars)
  BY NextStep
<1> QED BY <1>1, <1>2, PTL DEF Spec, IsTokenizer, Promise!Spec

=============================================================================
