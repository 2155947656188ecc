-------------------------- MODULE BufioReader_proofs --------------------------
(***************************************************************************)
(* Theorems about gbufio.Reader and ComparableReader, for every buffer     *)
(* size, every set of items, every caller and every other end.             *)
(***************************************************************************)
EXTENDS BufioReaderContract, SequenceTheorems, WellFoundedInduction, TLAPS

Op == {"Peek", "Discard", "ReadItem", "WriteTo", "ReadSlice", "ReadLine", "ReadItems"}
SliceOp == {"ReadSlice", "ReadLine", "ReadItems"}

ReaderType == [buf : [1 .. Size -> Item], r : 0 .. Size, w : 0 .. Size,
               err : SourceErr \cup {"no progress"}, last : BOOLEAN]

CallType == [op : Op, at : {"none", "fill", "first", "write", "direct"}, n : Int,
             delim : Item, from : Nat, empties : Nat, got : Seq(Item), count : Nat,
             prefix : BOOLEAN, direct : BOOLEAN]

Ordered(rd) == rd \in ReaderType /\ rd.r <= rd.w

(* What a method in progress has in its locals: only Discard and WriteTo   *)
(* count, only ReadItems and WriteTo gather.                               *)
Gathers(c) ==
  /\ c \in CallType /\ c.prefix = FALSE
  /\ c.op \notin {"Discard", "WriteTo"} => c.count = 0
  /\ c.op \notin {"ReadItems", "WriteTo"} => c.got = <<>>

(* What a method relies on at the head of its loop, and so in fill.  The   *)
(* items before from have been searched already.                           *)
Searched(rd, c) ==
  c.op \in SliceOp => /\ c.from <= Buffered(rd)
                      /\ \A i \in 1 .. c.from : Unread(rd)[i] # c.delim
Ready(rd, c) ==
  /\ Ordered(rd) /\ Gathers(c) /\ Searched(rd, c)
  /\ c.op = "Peek" => c.n >= 0
  /\ c.op = "Discard" => c.n > 0

Filling(rd, c) ==
  /\ Ready(rd, c) /\ c.at = "fill"
  /\ rd.r = 0 /\ rd.w < Size /\ c.empties < MaxConsecutiveEmptyReads
  /\ c.op \in {"Discard", "WriteTo"} \/ rd.err = "nil"
  /\ c.op = "Discard" => rd.w = 0

Writing(c) == Gathers(c) /\ c.op = "WriteTo" /\ c.at \in {"first", "write", "direct"}

(* The inductive invariant.  A call in progress has returned nothing.      *)
Inv ==
  /\ Ordered(reader)
  /\ \/ call = NoCall
     \/ (Filling(reader, call) \/ Writing(call)) /\ result = NoResult

LEMMA InvType == Inv => TypeOK
<1> SUFFICES ASSUME Inv PROVE TypeOK
  OBVIOUS
<1>1. /\ reader.buf \in [1 .. Size -> Item] /\ 0 <= reader.r /\ reader.r <= reader.w
      /\ reader.w <= Size /\ reader.err \in SourceErr \cup {"no progress"}
      /\ reader.last \in BOOLEAN /\ reader.r \in Int
  <2>1. reader \in ReaderType /\ reader.r <= reader.w
    BY DEF Inv, Ordered
  <2>2. Size \in Nat
    BY ReaderAssumption
  <2>3. /\ reader.buf \in [1 .. Size -> Item] /\ reader.r \in 0 .. Size /\ reader.w \in 0 .. Size
        /\ reader.err \in SourceErr \cup {"no progress"} /\ reader.last \in BOOLEAN
    BY <2>1 DEF ReaderType
  <2>4. \A k \in 0 .. Size : 0 <= k /\ k <= Size /\ k \in Int
    BY <2>2
  <2> QED BY <2>1, <2>3, <2>4
<1>2. NoCall.at = "none" /\ NoCall.op = "none"
  BY DEF NoCall
<1>3. CASE call = NoCall
  BY <1>1, <1>2, <1>3 DEF TypeOK
<1>4. CASE Filling(reader, call)
  BY <1>1, <1>2, <1>4 DEF TypeOK, Filling, Ready
<1>5. CASE Writing(call)
  BY <1>1, <1>2, <1>5 DEF TypeOK, Writing
<1> QED BY <1>3, <1>4, <1>5 DEF Inv

-----------------------------------------------------------------------------
(* The buffer.                                                             *)

LEMMA OrderedFields ==
  ASSUME NEW rd, Ordered(rd)
  PROVE  /\ rd \in ReaderType /\ rd.buf \in [1 .. Size -> Item] /\ rd.buf \in Seq(Item)
         /\ Len(rd.buf) = Size /\ Size \in Nat /\ Size > 0
         /\ rd.r \in Nat /\ rd.w \in Nat /\ rd.r <= rd.w /\ rd.w <= Size
         /\ Buffered(rd) = rd.w - rd.r /\ Buffered(rd) \in Nat
<1>1. rd \in ReaderType /\ rd.r <= rd.w
  BY DEF Ordered
<1>2. Size \in Nat /\ Size > 0
  BY ReaderAssumption
<1>3. rd.buf \in [1 .. Size -> Item] /\ rd.r \in 0 .. Size /\ rd.w \in 0 .. Size
  BY <1>1 DEF ReaderType
<1> DEFINE buf == rd.buf
<1>4. buf \in [1 .. Size -> Item]
  BY <1>3
<1> HIDE DEF buf
<1>5. buf \in Seq(Item) /\ Len(buf) = Size
  BY <1>2, <1>4
<1>6. rd.r \in Nat /\ rd.w \in Nat /\ rd.w <= Size
  BY <1>2, <1>3
<1>7. Buffered(rd) = rd.w - rd.r /\ Buffered(rd) \in Nat
  BY <1>1, <1>6 DEF Buffered
<1> QED BY <1>1, <1>2, <1>3, <1>5, <1>6, <1>7 DEF buf

LEMMA PartOf ==
  ASSUME NEW s \in Seq(Item), NEW from \in Nat, NEW to \in Nat, from <= to, to <= Len(s)
  PROVE  /\ SubSeq(s, from + 1, to) \in Seq(Item) /\ Len(SubSeq(s, from + 1, to)) = to - from
         /\ \A i \in 1 .. to - from : SubSeq(s, from + 1, to)[i] = s[from + i]
OBVIOUS

LEMMA UnreadIs ==
  ASSUME NEW rd, Ordered(rd)
  PROVE  /\ Unread(rd) \in Seq(Item) /\ Len(Unread(rd)) = Buffered(rd)
         /\ \A i \in 1 .. Buffered(rd) : Unread(rd)[i] = rd.buf[rd.r + i]
<1> DEFINE s == rd.buf
<1>1. /\ s \in Seq(Item) /\ Len(s) = Size /\ rd.r \in Nat /\ rd.w \in Nat /\ rd.r <= rd.w
      /\ rd.w <= Size /\ Size \in Nat /\ Buffered(rd) = rd.w - rd.r
  BY OrderedFields
<1> HIDE DEF s
<1>2. /\ SubSeq(s, rd.r + 1, rd.w) \in Seq(Item) /\ Len(SubSeq(s, rd.r + 1, rd.w)) = rd.w - rd.r
      /\ \A i \in 1 .. rd.w - rd.r : SubSeq(s, rd.r + 1, rd.w)[i] = s[rd.r + i]
  BY <1>1, PartOf
<1> QED BY <1>1, <1>2 DEF Unread, s

(* Two readers that hold the same.                                         *)
LEMMA Alike ==
  ASSUME NEW rd, Ordered(rd), NEW a \in ReaderType, a.r = 0,
         a.w = Buffered(rd), \A i \in 1 .. Buffered(rd) : a.buf[i] = rd.buf[rd.r + i]
  PROVE  Ordered(a) /\ Unread(a) = Unread(rd)
<1>1. Ordered(a) /\ Buffered(a) = Buffered(rd)
  BY OrderedFields DEF Ordered, Buffered
<1>2. /\ Unread(a) \in Seq(Item) /\ Len(Unread(a)) = Buffered(rd)
      /\ \A i \in 1 .. Buffered(rd) : Unread(a)[i] = a.buf[a.r + i]
  BY <1>1, UnreadIs
<1>3. /\ Unread(rd) \in Seq(Item) /\ Len(Unread(rd)) = Buffered(rd)
      /\ \A i \in 1 .. Buffered(rd) : Unread(rd)[i] = rd.buf[rd.r + i]
  BY UnreadIs
<1>4. \A i \in 1 .. Buffered(rd) : Unread(a)[i] = Unread(rd)[i]
  BY <1>2, <1>3
<1> QED BY <1>1, <1>2, <1>3, <1>4, SeqEqual

LEMMA SlidIs ==
  ASSUME NEW rd, Ordered(rd)
  PROVE  /\ Ordered(Slid(rd)) /\ Slid(rd).r = 0 /\ Slid(rd).w = Buffered(rd)
         /\ Unread(Slid(rd)) = Unread(rd) /\ Slid(rd).err = rd.err /\ Buffered(Slid(rd)) = Buffered(rd)
<1>1. /\ rd \in ReaderType /\ rd.buf \in [1 .. Size -> Item] /\ Size \in Nat
      /\ rd.r \in Nat /\ rd.w \in Nat /\ rd.r <= rd.w /\ rd.w <= Size
      /\ Buffered(rd) = rd.w - rd.r /\ Buffered(rd) \in 0 .. Size
  BY OrderedFields
<1>2. CASE rd.r = 0
  BY <1>1, <1>2 DEF Slid
<1>3. CASE rd.r # 0
  <2> DEFINE f == [i \in 1 .. Size |-> IF i <= Buffered(rd) THEN rd.buf[i + rd.r] ELSE rd.buf[i]]
             a == [rd EXCEPT !.buf = f, !.w = @ - rd.r, !.r = 0]
  <2>1. f \in [1 .. Size -> Item] /\ \A i \in 1 .. Buffered(rd) : f[i] = rd.buf[rd.r + i]
    BY <1>1
  <2> HIDE DEF f
  <2>2. /\ a \in ReaderType /\ a.r = 0 /\ a.w = Buffered(rd) /\ a.buf = f /\ a.err = rd.err
    <3> DEFINE k == rd.w - rd.r
    <3>1. k \in 0 .. Size /\ 0 \in 0 .. Size /\ k = Buffered(rd)
      BY <1>1
    <3> HIDE DEF k
    <3>2. a = [rd EXCEPT !.buf = f, !.w = k, !.r = 0]
      BY <1>1 DEF k, ReaderType
    <3> HIDE DEF a
    <3> QED BY <1>1, <2>1, <3>1, <3>2 DEF ReaderType
  <2>3. Slid(rd) = a
    BY <1>3 DEF Slid, f
  <2> HIDE DEF a
  <2>4. Ordered(a) /\ Unread(a) = Unread(rd)
    BY <2>1, <2>2, Alike
  <2>5. Buffered(a) = Buffered(rd)
    BY <1>1, <2>2 DEF Buffered
  <2> QED BY <2>2, <2>3, <2>4, <2>5
<1> QED BY <1>2, <1>3

LEMMA SkipIs ==
  ASSUME NEW rd, Ordered(rd), NEW n \in 0 .. Buffered(rd)
  PROVE  /\ Ordered(Skip(rd, n)) /\ Skip(rd, n).err = rd.err
         /\ Buffered(Skip(rd, n)) = Buffered(rd) - n
         /\ Unread(Skip(rd, n)) = SubSeq(Unread(rd), n + 1, Len(Unread(rd)))
<1> DEFINE a == Skip(rd, n)
           q == Unread(rd)
           rest == SubSeq(q, n + 1, Len(q))
<1>1. /\ rd \in ReaderType /\ rd.buf \in [1 .. Size -> Item] /\ Size \in Nat
      /\ rd.r \in Nat /\ rd.w \in Nat /\ rd.r <= rd.w /\ rd.w <= Size /\ n \in Nat
      /\ Buffered(rd) = rd.w - rd.r /\ Buffered(rd) \in Nat
  BY OrderedFields
<1>2. a \in ReaderType /\ a.r = rd.r + n /\ a.w = rd.w /\ a.buf = rd.buf /\ a.err = rd.err
  <2>1. rd.r + n \in 0 .. Size
    BY <1>1
  <2> QED BY <1>1, <2>1 DEF Skip, ReaderType
<1> HIDE DEF a
<1>3. Ordered(a) /\ Buffered(a) = Buffered(rd) - n
  BY <1>1, <1>2 DEF Ordered, Buffered
<1>4. /\ q \in Seq(Item) /\ Len(q) = Buffered(rd)
      /\ \A i \in 1 .. Buffered(rd) : q[i] = rd.buf[rd.r + i]
  BY UnreadIs
<1> HIDE DEF q
<1>5. /\ rest \in Seq(Item) /\ Len(rest) = Buffered(rd) - n
      /\ \A i \in 1 .. Buffered(rd) - n : rest[i] = q[n + i]
  BY <1>1, <1>4
<1> HIDE DEF rest
<1>6. /\ Unread(a) \in Seq(Item) /\ Len(Unread(a)) = Buffered(rd) - n
      /\ \A i \in 1 .. Buffered(rd) - n : Unread(a)[i] = rd.buf[rd.r + n + i]
  BY <1>2, <1>3, UnreadIs
<1>7. ASSUME NEW i \in 1 .. Buffered(rd) - n PROVE Unread(a)[i] = rest[i]
  <2>1. n + i \in 1 .. Buffered(rd) /\ rd.r + (n + i) = rd.r + n + i
    BY <1>1
  <2> QED BY <1>4, <1>5, <1>6, <2>1
<1>8. Unread(a) = rest
  BY <1>5, <1>6, <1>7, SeqEqual
<1> QED BY <1>2, <1>3, <1>8 DEF a, q, rest

LEMMA StoredIs ==
  ASSUME NEW rd, Ordered(rd), NEW chunk \in Seq(Item), Len(chunk) <= Size - rd.w
  PROVE  /\ Ordered(Stored(rd, chunk)) /\ Stored(rd, chunk).err = rd.err
         /\ Stored(rd, chunk).r = rd.r /\ Stored(rd, chunk).w = rd.w + Len(chunk)
         /\ Unread(Stored(rd, chunk)) = Unread(rd) \o chunk
<1> DEFINE f == [i \in 1 .. Size |->
                   IF i \in rd.w + 1 .. rd.w + Len(chunk) THEN chunk[i - rd.w] ELSE rd.buf[i]]
           a == Stored(rd, chunk)
           q == Unread(rd)
           all == q \o chunk
<1>1. /\ rd \in ReaderType /\ rd.buf \in [1 .. Size -> Item] /\ Size \in Nat
      /\ rd.r \in Nat /\ rd.w \in Nat /\ rd.r <= rd.w /\ rd.w <= Size
      /\ Buffered(rd) = rd.w - rd.r /\ Buffered(rd) \in Nat /\ Len(chunk) \in Nat
  BY OrderedFields
<1>2. f \in [1 .. Size -> Item]
  <2>1. ASSUME NEW i \in 1 .. Size, i \in rd.w + 1 .. rd.w + Len(chunk)
        PROVE  chunk[i - rd.w] \in Item
    BY <1>1, <2>1
  <2> QED BY <1>1, <2>1
<1>3. \A i \in 1 .. Size :
        f[i] = IF i \in rd.w + 1 .. rd.w + Len(chunk) THEN chunk[i - rd.w] ELSE rd.buf[i]
  OBVIOUS
<1>4. /\ a \in ReaderType /\ a.r = rd.r /\ a.w = rd.w + Len(chunk) /\ a.buf = f
      /\ a.err = rd.err
  <2>1. a = [rd EXCEPT !.buf = f, !.w = @ + Len(chunk)]
    BY DEF Stored
  <2>2. rd.w + Len(chunk) \in 0 .. Size
    BY <1>1
  <2> HIDE DEF a, f
  <2> QED BY <1>1, <1>2, <2>1, <2>2 DEF ReaderType
<1> HIDE DEF a, f
<1>5. Ordered(a) /\ Buffered(a) = Buffered(rd) + Len(chunk)
  BY <1>1, <1>4 DEF Ordered, Buffered
<1>6. /\ q \in Seq(Item) /\ Len(q) = Buffered(rd)
      /\ \A i \in 1 .. Buffered(rd) : q[i] = rd.buf[rd.r + i]
  BY UnreadIs
<1> HIDE DEF q
<1>7. /\ all \in Seq(Item) /\ Len(all) = Buffered(rd) + Len(chunk)
      /\ \A i \in 1 .. Buffered(rd) + Len(chunk) :
           all[i] = IF i <= Buffered(rd) THEN q[i] ELSE chunk[i - Buffered(rd)]
  <2> HIDE DEF all
  <2>1. /\ q \o chunk \in Seq(Item) /\ Len(q \o chunk) = Len(q) + Len(chunk)
        /\ \A i \in 1 .. Len(q) + Len(chunk) :
             (q \o chunk)[i] = IF i <= Len(q) THEN q[i] ELSE chunk[i - Len(q)]
    BY <1>6, ConcatProperties
  <2> QED BY <1>6, <2>1 DEF all
<1> HIDE DEF all
<1>8. /\ Unread(a) \in Seq(Item) /\ Len(Unread(a)) = Buffered(rd) + Len(chunk)
      /\ \A i \in 1 .. Buffered(rd) + Len(chunk) : Unread(a)[i] = f[rd.r + i]
  BY <1>4, <1>5, UnreadIs
<1>9. ASSUME NEW i \in 1 .. Buffered(rd) + Len(chunk) PROVE Unread(a)[i] = all[i]
  <2> DEFINE j == rd.r + i
  <2>1. /\ j \in 1 .. Size /\ (j - rd.w = i - Buffered(rd)) /\ Unread(a)[i] = f[j]
        /\ j \in rd.w + 1 .. rd.w + Len(chunk) <=> ~ (i <= Buffered(rd))
    <3>1. i \in Nat /\ 1 <= i /\ i <= Buffered(rd) + Len(chunk)
      BY <1>1
    <3>2. Unread(a)[i] = f[j]
      BY <1>8
    <3>3. j \in Nat /\ 1 <= j /\ j <= Size
      BY <1>1, <3>1
    <3>4. j - rd.w = i - Buffered(rd)
      BY <1>1, <3>1
    <3>5. j \in rd.w + 1 .. rd.w + Len(chunk) <=> ~ (i <= Buffered(rd))
      BY <1>1, <3>1
    <3> QED BY <1>1, <3>2, <3>3, <3>4, <3>5
  <2> HIDE DEF j
  <2>2. f[j] = IF ~ (i <= Buffered(rd)) THEN chunk[j - rd.w] ELSE rd.buf[j]
    BY <1>3, <2>1
  <2>3. CASE i <= Buffered(rd)
    BY <1>1, <1>6, <1>7, <2>1, <2>2, <2>3 DEF j
  <2>4. CASE ~ (i <= Buffered(rd))
    BY <1>7, <2>1, <2>2, <2>4
  <2> QED BY <2>3, <2>4
<1>10. Unread(a) = all
  BY <1>7, <1>8, <1>9, SeqEqual
<1> QED BY <1>4, <1>5, <1>10 DEF a, all, q

(* Changes of the other fields.                                            *)
LEMMA OtherFields ==
  ASSUME NEW rd, Ordered(rd), NEW err \in SourceErr \cup {"no progress"}, NEW last \in BOOLEAN
  PROVE  /\ Ordered([rd EXCEPT !.err = err]) /\ Unread([rd EXCEPT !.err = err]) = Unread(rd)
         /\ [rd EXCEPT !.err = err].err = err /\ Buffered([rd EXCEPT !.err = err]) = Buffered(rd)
         /\ Ordered([rd EXCEPT !.last = last]) /\ Unread([rd EXCEPT !.last = last]) = Unread(rd)
         /\ [rd EXCEPT !.last = last].err = rd.err
         /\ Buffered([rd EXCEPT !.last = last]) = Buffered(rd)
BY DEF Ordered, ReaderType, Unread, Buffered

-----------------------------------------------------------------------------
(* How a method ends, or goes on, as Lookahead sees it.                    *)

Abs(c) == [op |-> c.op, n |-> c.n, delim |-> c.delim, got |-> c.got, count |-> c.count]

LEMMA AbsExcept ==
  ASSUME NEW c, NEW n, NEW count
  PROVE  [Abs(c) EXCEPT !.n = n, !.count = count]
         = [op |-> c.op, n |-> n, delim |-> c.delim, got |-> c.got, count |-> count]
<1> DEFINE r == Abs(c)
           s == [op |-> c.op, n |-> n, delim |-> c.delim, got |-> c.got, count |-> c.count]
           t == [op |-> c.op, n |-> n, delim |-> c.delim, got |-> c.got, count |-> count]
<1>1. [r EXCEPT !.n = n] = s
  BY DEF Abs
<1>2. [s EXCEPT !.count = count] = t
  OBVIOUS
<1> HIDE DEF r, s, t
<1>3. [r EXCEPT !.n = n, !.count = count] = [[r EXCEPT !.n = n] EXCEPT !.count = count]
  OBVIOUS
<1>4. [r EXCEPT !.n = n, !.count = count] = t
  BY <1>1, <1>2, <1>3, Zenon
<1> QED BY <1>4 DEF r, t

LEMMA ReturnStep ==
  ASSUME NEW rd, Ordered(rd), NEW c, NEW items, NEW count, c.count = count, NEW err,
         Return(rd, c, items, count, err)
  PROVE  Inv' /\ Promise!Returns(Unread(rd), rd.err, Abs(c), items, c.prefix, err)
<1>1. reader' = rd /\ call' = NoCall
  BY DEF Return
<1>2. Inv'
  BY <1>1 DEF Inv
<1>3. Unread(reader)' = Unread(rd) /\ (reader.err)' = rd.err
  BY <1>1 DEF Unread
<1>4. [op |-> call'.op, n |-> call'.n, delim |-> call'.delim, got |-> call'.got,
       count |-> call'.count] = Promise!NoCall
  BY <1>1 DEF NoCall, Promise!NoCall
<1>5. result' = [op |-> Abs(c).op, n |-> Abs(c).n, delim |-> Abs(c).delim, items |-> items,
                 count |-> Abs(c).count, prefix |-> c.prefix, err |-> err]
  BY DEF Return, Abs
<1> QED BY <1>2, <1>3, <1>4, <1>5 DEF Promise!Returns

LEMMA WaitStep ==
  ASSUME NEW rd, Ordered(rd), NEW c \in CallType, NEW at, Wait(rd, c, at)
  PROVE  Promise!GoesOn(Unread(rd), rd.err, Abs(c))
<1>1. reader' = rd /\ call' = [c EXCEPT !.at = at] /\ result' = NoResult
  BY DEF Wait
<1>2. Unread(reader)' = Unread(rd) /\ (reader.err)' = rd.err
  BY <1>1 DEF Unread
<1>3. [op |-> call'.op, n |-> call'.n, delim |-> call'.delim, got |-> call'.got,
       count |-> call'.count] = Abs(c)
  BY <1>1 DEF Abs, CallType
<1>4. NoResult = Promise!NoResult
  BY DEF NoResult, Promise!NoResult
<1> QED BY <1>1, <1>2, <1>3, <1>4 DEF Promise!GoesOn

LEMMA WriteWaitStep ==
  ASSUME NEW rd, Ordered(rd), NEW c, Gathers(c), c.op = "WriteTo",
         NEW at \in {"first", "write", "direct"}, Wait(rd, c, at)
  PROVE  Inv' /\ Promise!GoesOn(Unread(rd), rd.err, Abs(c))
<1>1. reader' = rd /\ call' = [c EXCEPT !.at = at] /\ result' = NoResult
  BY DEF Wait
<1>2. c \in CallType
  BY DEF Gathers
<1> DEFINE d == [c EXCEPT !.at = at]
<1>3. /\ d \in CallType /\ d.op = c.op /\ d.at = at /\ d.count = c.count /\ d.got = c.got
      /\ d.prefix = c.prefix
  BY <1>2 DEF CallType
<1> HIDE DEF d
<1>4. Writing(d)
  BY <1>3 DEF Writing, Gathers
<1>5. Inv'
  BY <1>1, <1>4 DEF Inv, d
<1> QED BY <1>2, <1>5, WaitStep

LEMMA FillStep ==
  ASSUME NEW rd, NEW c, Ready(rd, c), Buffered(rd) < Size,
         c.op \in {"Discard", "WriteTo"} \/ rd.err = "nil",
         c.op = "Discard" => Buffered(rd) = 0, Fill(rd, c)
  PROVE  Inv' /\ Promise!GoesOn(Unread(rd), rd.err, Abs(c))
<1> DEFINE s == Slid(rd)
           d == [c EXCEPT !.empties = 0]
           f == [d EXCEPT !.at = "fill"]
<1>1. /\ Ordered(s) /\ s.r = 0 /\ s.w = Buffered(rd) /\ Unread(s) = Unread(rd)
      /\ s.err = rd.err /\ Buffered(s) = Buffered(rd) /\ c \in CallType
      /\ Buffered(rd) \in Nat
  BY SlidIs, OrderedFields DEF Ready, Gathers
<1>2. Wait(s, d, "fill")
  <2>1. ~ (s.w >= Size)
    BY <1>1, ReaderAssumption
  <2> QED BY <2>1 DEF Fill
<1> HIDE DEF s
<1>3. d \in CallType /\ Abs(d) = Abs(c)
  BY <1>1 DEF CallType, Abs
<1>4. /\ f \in CallType /\ f.at = "fill" /\ f.empties = 0 /\ f.op = c.op /\ f.n = c.n
      /\ f.delim = c.delim /\ f.from = c.from /\ f.count = c.count /\ f.got = c.got
      /\ f.prefix = c.prefix
  BY <1>1 DEF CallType
<1>5. reader' = s /\ call' = f /\ result' = NoResult
  BY <1>2 DEF Wait
<1> HIDE DEF d, f
<1>6. Filling(s, f)
  BY <1>1, <1>4, ReaderAssumption DEF Filling, Ready, Gathers, Searched
<1>7. Inv'
  BY <1>1, <1>5, <1>6 DEF Inv
<1> QED BY <1>1, <1>2, <1>3, <1>7, WaitStep

(* The error is reported and forgotten.                                    *)
LEMMA ErrReadIs ==
  ASSUME NEW rd, Ordered(rd)
  PROVE  /\ Ordered(ErrRead(rd)) /\ Unread(ErrRead(rd)) = Unread(rd)
         /\ ErrRead(rd).err = "nil" /\ Buffered(ErrRead(rd)) = Buffered(rd)
BY OtherFields DEF ErrRead, SourceErr

-----------------------------------------------------------------------------
(* The loops, from their heads.                                            *)

LEMMA PeekStep ==
  ASSUME NEW rd, NEW c, Ready(rd, c), c.op = "Peek", PeekLoop(rd, c)
  PROVE  Inv' /\ Promise!Peeked(Unread(rd), rd.err, Abs(c))
<1> DEFINE q == Unread(rd)
           short == Buffered(rd) < c.n
<1>1. /\ Ordered(rd) /\ q \in Seq(Item) /\ Len(q) = Buffered(rd) /\ Buffered(rd) \in Nat
      /\ Buffered(rd) <= Size /\ Size \in Nat /\ c.n \in Int /\ c.count = 0 /\ c.prefix = FALSE
  BY UnreadIs, OrderedFields DEF Ready, Gathers, CallType
<1>2. Abs(c).n = c.n
  BY DEF Abs
<1>3. CASE short /\ Buffered(rd) < Size /\ rd.err = "nil"
  <2>1. Fill(rd, c)
    BY <1>3 DEF PeekLoop
  <2>2. Inv' /\ Promise!GoesOn(q, rd.err, Abs(c))
    BY <1>3, <2>1, FillStep
  <2>3. Abs(c).n > Len(q) /\ Len(q) < Size
    BY <1>1, <1>2, <1>3
  <2> QED BY <1>3, <2>2, <2>3 DEF Promise!Peeked
<1>4. CASE ~ (short /\ Buffered(rd) < Size /\ rd.err = "nil") /\ c.n > Size
  <2>1. Return(rd, c, q, 0, "buffer full")
    BY <1>4 DEF PeekLoop
  <2>2. Inv' /\ Promise!Returns(q, rd.err, Abs(c), q, FALSE, "buffer full")
    BY <1>1, <2>1, ReturnStep
  <2>3. Abs(c).n > Size /\ (Len(q) = Size \/ rd.err # "nil")
    BY <1>1, <1>2, <1>4
  <2> QED BY <2>2, <2>3 DEF Promise!Peeked
<1>5. CASE ~ (short /\ Buffered(rd) < Size /\ rd.err = "nil") /\ ~ (c.n > Size) /\ short
  <2>1. Return(ErrRead(rd), c, q, 0, rd.err)
    BY <1>5 DEF PeekLoop
  <2>2. Inv' /\ Promise!Returns(q, "nil", Abs(c), q, FALSE, rd.err)
    BY <1>1, <2>1, ReturnStep, ErrReadIs
  <2>3. Abs(c).n > Len(q) /\ Abs(c).n <= Size /\ rd.err # "nil"
    BY <1>1, <1>2, <1>5
  <2> QED BY <2>2, <2>3 DEF Promise!Peeked
<1>6. CASE ~ (c.n > Size) /\ ~ short
  <2>1. Return(rd, c, SubSeq(q, 1, c.n), 0, "nil")
    BY <1>6 DEF PeekLoop
  <2>2. Inv' /\ Promise!Returns(q, rd.err, Abs(c), SubSeq(q, 1, c.n), FALSE, "nil")
    BY <1>1, <2>1, ReturnStep
  <2>3. Abs(c).n <= Len(q)
    BY <1>1, <1>2, <1>6
  <2>4. Promise!First(Abs(c).n, q) = SubSeq(q, 1, c.n)
    BY <1>2 DEF Promise!First
  <2> QED BY <2>2, <2>3, <2>4, Zenon DEF Promise!Peeked
<1> QED BY <1>3, <1>4, <1>5, <1>6

LEMMA DiscardStep ==
  ASSUME NEW rd, NEW c, Ready(rd, c), c.op = "Discard", DiscardSkip(rd, c)
  PROVE  Inv' /\ Promise!Discarded(Unread(rd), rd.err, Abs(c))
<1> DEFINE q == Unread(rd)
           skip == Smaller(Buffered(rd), c.n)
           d == [c EXCEPT !.n = @ - skip, !.count = @ + skip]
           s == Skip(rd, skip)
<1>1. /\ Ordered(rd) /\ q \in Seq(Item) /\ Len(q) = Buffered(rd) /\ Buffered(rd) \in Nat
      /\ Size \in Nat /\ Size > 0 /\ c.n \in Nat /\ c.n > 0 /\ c.count \in Nat
      /\ c \in CallType /\ c.prefix = FALSE /\ c.got = <<>>
  BY UnreadIs, OrderedFields DEF Ready, Gathers, CallType
<1>2. /\ skip = Promise!Shorter(c.n, q) /\ skip \in 0 .. Buffered(rd) /\ skip <= c.n
      /\ (skip = c.n \/ skip = Buffered(rd))
  BY <1>1 DEF Smaller, Promise!Shorter
<1> HIDE DEF skip
<1>3. /\ Ordered(s) /\ s.err = rd.err /\ Buffered(s) = Buffered(rd) - skip
      /\ Unread(s) = SubSeq(q, skip + 1, Len(q))
  BY <1>1, <1>2, SkipIs
<1>4. /\ d \in CallType /\ d.op = "Discard" /\ d.n = c.n - skip /\ d.count = c.count + skip
      /\ d.prefix = FALSE /\ d.got = <<>>
  <2> DEFINE n == c.n - skip
             count == c.count + skip
  <2>1. n \in Int /\ count \in Nat
    BY <1>1, <1>2
  <2>2. d = [c EXCEPT !.n = n, !.count = count]
    BY <1>1 DEF CallType
  <2> HIDE DEF d, n, count
  <2>3. /\ d \in CallType /\ d.op = "Discard" /\ d.n = n /\ d.count = count
        /\ d.prefix = FALSE /\ d.got = <<>>
    BY <1>1, <2>1, <2>2 DEF CallType
  <2>4. n = c.n - skip /\ count = c.count + skip
    BY DEF n, count
  <2> QED BY <2>3, <2>4
<1>5. Abs(d) = [Abs(c) EXCEPT !.n = @ - skip, !.count = @ + skip]
  <2>1. /\ d.op = c.op /\ d.delim = c.delim /\ d.got = c.got /\ d.n = c.n - skip
        /\ d.count = c.count + skip
    <3>1. d.delim = c.delim
      BY <1>1 DEF CallType
    <3> HIDE DEF d
    <3> QED BY <1>1, <1>4, <3>1
  <2> HIDE DEF d
  <2>2. Abs(d) = [op |-> c.op, n |-> c.n - skip, delim |-> c.delim, got |-> c.got,
                  count |-> c.count + skip]
    BY <2>1 DEF Abs
  <2>3. Abs(c).n = c.n /\ Abs(c).count = c.count
    BY DEF Abs
  <2>4. [Abs(c) EXCEPT !.n = c.n - skip, !.count = c.count + skip] = Abs(d)
    <3> DEFINE n == c.n - skip
               count == c.count + skip
    <3>1. Abs(d) = [op |-> c.op, n |-> n, delim |-> c.delim, got |-> c.got, count |-> count]
      BY <2>2
    <3> HIDE DEF n, count, d
    <3>2. [Abs(c) EXCEPT !.n = n, !.count = count] = Abs(d)
      BY <3>1, AbsExcept
    <3> QED BY <3>2 DEF n, count
  <2> QED BY <2>3, <2>4
<1>6. Abs(c).n = c.n /\ Abs(d).n = d.n
  BY DEF Abs
<1>7. DiscardSkip(rd, c) <=>
        IF d.n = 0 THEN Return(s, d, <<>>, d.count, "nil")
        ELSE IF rd.err # "nil" THEN Return(ErrRead(s), d, <<>>, d.count, rd.err)
        ELSE Fill(s, d)
  BY DEF DiscardSkip, skip
<1> HIDE DEF d, s
<1>8. Promise!Discarded(q, rd.err, Abs(c)) <=>
        \/ Abs(d).n = 0 /\ Promise!Returns(Promise!After(skip, q), rd.err, Abs(d), <<>>, FALSE, "nil")
        \/ Abs(d).n > 0 /\ rd.err # "nil" /\ Promise!Returns(<<>>, "nil", Abs(d), <<>>, FALSE, rd.err)
        \/ Abs(d).n > 0 /\ rd.err = "nil" /\ Promise!GoesOn(<<>>, rd.err, Abs(d))
  BY <1>2, <1>5, <1>6 DEF Promise!Discarded
<1>9. d.n # 0 => d.n > 0 /\ Buffered(s) = 0 /\ Unread(s) = <<>>
  <2>1. d.n # 0 => d.n > 0 /\ skip = Len(q)
    BY <1>1, <1>2, <1>4
  <2>2. SubSeq(q, Len(q) + 1, Len(q)) = <<>>
    BY <1>1, SubSeqEmpty
  <2> QED BY <1>1, <1>3, <2>1, <2>2
<1>10. CASE d.n = 0
  <2>1. Inv' /\ Promise!Returns(Unread(s), rd.err, Abs(d), <<>>, FALSE, "nil")
    BY <1>3, <1>4, <1>7, <1>10, ReturnStep
  <2> QED BY <1>3, <1>6, <1>8, <1>10, <2>1 DEF Promise!After
<1>11. CASE d.n # 0 /\ rd.err # "nil"
  <2>1. Return(ErrRead(s), d, <<>>, d.count, rd.err)
    BY <1>7, <1>11
  <2>2. Inv' /\ Promise!Returns(<<>>, "nil", Abs(d), <<>>, FALSE, rd.err)
    BY <1>3, <1>4, <1>9, <1>11, <2>1, ReturnStep, ErrReadIs
  <2> QED BY <1>6, <1>8, <1>9, <1>11, <2>2
<1>12. CASE d.n # 0 /\ rd.err = "nil"
  <2>1. Fill(s, d)
    BY <1>7, <1>12
  <2>2. Ready(s, d)
    BY <1>3, <1>4, <1>9, <1>12 DEF Ready, Gathers, Searched, SliceOp
  <2>3. Inv' /\ Promise!GoesOn(<<>>, rd.err, Abs(d))
    BY <1>1, <1>3, <1>4, <1>9, <1>12, <2>1, <2>2, FillStep
  <2> QED BY <1>6, <1>8, <1>9, <1>12, <2>3
<1> QED BY <1>10, <1>11, <1>12

LEMMA ItemStep ==
  ASSUME NEW rd, NEW c, Ready(rd, c), c.op = "ReadItem", ReadItemLoop(rd, c)
  PROVE  Inv' /\ Promise!ItemRead(Unread(rd), rd.err, Abs(c))
<1> DEFINE q == Unread(rd)
           s == Skip(rd, 1)
           f == [s EXCEPT !.last = TRUE]
<1>1. /\ Ordered(rd) /\ q \in Seq(Item) /\ Len(q) = Buffered(rd) /\ Buffered(rd) \in Nat
      /\ Size \in Nat /\ Size > 0 /\ c.count = 0 /\ c.prefix = FALSE
      /\ \A i \in 1 .. Buffered(rd) : q[i] = rd.buf[rd.r + i]
  BY UnreadIs, OrderedFields DEF Ready, Gathers
<1>2. CASE Buffered(rd) > 0
  <2>1. 1 \in 0 .. Buffered(rd) /\ 1 \in 1 .. Buffered(rd)
    BY <1>1, <1>2
  <2>2. Ordered(s) /\ s.err = rd.err /\ Unread(s) = SubSeq(q, 2, Len(q))
    <3>1. /\ Ordered(s) /\ s.err = rd.err
          /\ Unread(s) = SubSeq(q, 1 + 1, Len(q))
      BY <1>1, <2>1, SkipIs
    <3> QED BY <3>1
  <2>3. Return(f, c, <<rd.buf[rd.r + 1]>>, 0, "nil")
    BY <1>2 DEF ReadItemLoop
  <2> HIDE DEF s
  <2>4. Ordered(f) /\ f.err = rd.err /\ Unread(f) = SubSeq(q, 2, Len(q))
    BY <2>2, OtherFields
  <2> HIDE DEF f
  <2>5. rd.buf[rd.r + 1] = q[1]
    BY <1>1, <2>1
  <2> HIDE DEF q
  <2>6. q # <<>> /\ Tail(q) = SubSeq(q, 2, Len(q)) /\ Head(q) = q[1]
    BY <1>1, <1>2
  <2>7. Inv' /\ Promise!Returns(Tail(q), rd.err, Abs(c), <<Head(q)>>, FALSE, "nil")
    BY <1>1, <2>3, <2>4, <2>5, <2>6, ReturnStep
  <2>8. Promise!ItemRead(q, rd.err, Abs(c))
    BY <2>6, <2>7 DEF Promise!ItemRead
  <2> QED BY <2>7, <2>8 DEF q
<1>3. CASE ~ (Buffered(rd) > 0) /\ rd.err # "nil"
  <2>1. q = <<>>
    BY <1>1, <1>3
  <2>2. Return(ErrRead(rd), c, <<>>, 0, rd.err)
    BY <1>3 DEF ReadItemLoop
  <2>3. Inv' /\ Promise!Returns(q, "nil", Abs(c), <<>>, FALSE, rd.err)
    BY <1>1, <2>2, ReturnStep, ErrReadIs
  <2> QED BY <1>3, <2>1, <2>3 DEF Promise!ItemRead
<1>4. CASE ~ (Buffered(rd) > 0) /\ rd.err = "nil"
  <2>1. q = <<>> /\ Buffered(rd) < Size
    BY <1>1, <1>4
  <2>2. Fill(rd, c)
    BY <1>4 DEF ReadItemLoop
  <2>3. Inv' /\ Promise!GoesOn(q, rd.err, Abs(c))
    BY <1>4, <2>1, <2>2, FillStep
  <2> QED BY <1>4, <2>1, <2>3 DEF Promise!ItemRead
<1> QED BY <1>2, <1>3, <1>4

LEMMA PassStep ==
  ASSUME NEW rd, Ordered(rd), NEW c, Gathers(c), c.op = "WriteTo", WriteToLoop(rd, c)
  PROVE  Inv' /\ Promise!PassedOn(Unread(rd), rd.err, Abs(c))
<1> DEFINE q == Unread(rd)
<1>1. /\ q \in Seq(Item) /\ Len(q) = Buffered(rd) /\ Buffered(rd) \in Nat /\ c.prefix = FALSE
      /\ Abs(c).got = c.got
  BY UnreadIs, OrderedFields DEF Gathers, Abs
<1>2. CASE Buffered(rd) > 0
  <2>1. Wait(rd, c, "write")
    BY <1>2 DEF WriteToLoop
  <2>2. Inv' /\ Promise!GoesOn(q, rd.err, Abs(c))
    BY <2>1, WriteWaitStep
  <2>3. q # <<>>
    BY <1>1, <1>2
  <2> QED BY <2>2, <2>3 DEF Promise!PassedOn
<1>3. CASE ~ (Buffered(rd) > 0)
  <2> DEFINE err == IF rd.err = "EOF" THEN "nil" ELSE rd.err
  <2>1. Return(ErrRead(rd), c, c.got, c.count, err)
    BY <1>3 DEF WriteToLoop
  <2> HIDE DEF err
  <2>2. Inv' /\ Promise!Returns(q, "nil", Abs(c), c.got, FALSE, err)
    BY <1>1, <2>1, ReturnStep, ErrReadIs
  <2>3. q = <<>>
    BY <1>1, <1>3
  <2> QED BY <1>1, <2>2, <2>3 DEF Promise!PassedOn, err
<1> QED BY <1>2, <1>3

-----------------------------------------------------------------------------
(* ReadSlice's search.                                                     *)

LEMMA LeastNatural ==
  ASSUME NEW S \in SUBSET Nat, S # {}
  PROVE  \E i \in S : \A j \in S : i <= j
<1>1. PICK i \in S : \A j \in S : ~ (<<j, i>> \in OpToRel(<, Nat))
  BY NatLessThanWellFounded, WFMin
<1>2. \A j \in S : ~ (j < i)
  BY <1>1 DEF OpToRel
<1> QED BY <1>2

Found(q, delim) == {i \in 1 .. Len(q) : q[i] = delim}
Earliest(S) == CHOOSE i \in S : \A j \in S : i <= j

(* There is an earliest hit, and only one.                                 *)
LEMMA EarliestIs ==
  ASSUME NEW S \in SUBSET Nat, S # {}
  PROVE  /\ Earliest(S) \in S /\ \A j \in S : Earliest(S) <= j
         /\ \A k \in S : (\A j \in S : k <= j) => k = Earliest(S)
<1>1. \E i \in S : \A j \in S : i <= j
  BY LeastNatural
<1>2. Earliest(S) \in S /\ \A j \in S : Earliest(S) <= j
  BY <1>1 DEF Earliest
<1>3. ASSUME NEW k \in S, \A j \in S : k <= j PROVE k = Earliest(S)
  <2>1. k <= Earliest(S) /\ Earliest(S) <= k /\ k \in Nat /\ Earliest(S) \in Nat
    BY <1>2, <1>3
  <2> QED BY <2>1
<1> QED BY <1>2, <1>3

(* What is searched in the buffer, after what has been searched before, is *)
(* what there is to find among the unread items.                           *)
LEMMA HitsAre ==
  ASSUME NEW rd, NEW c, Ready(rd, c), c.op \in SliceOp
  PROVE  /\ Hits(rd, c) \in SUBSET Nat /\ Found(Unread(rd), c.delim) \in SUBSET Nat
         /\ \A k \in Found(Unread(rd), c.delim) : rd.r + k \in Hits(rd, c)
         /\ \A i \in Hits(rd, c) : i - rd.r \in Found(Unread(rd), c.delim)
<1> DEFINE q == Unread(rd)
<1>1. /\ rd.r \in Nat /\ rd.w \in Nat /\ rd.r <= rd.w /\ Buffered(rd) = rd.w - rd.r
      /\ q \in Seq(Item) /\ Len(q) = Buffered(rd)
      /\ \A i \in 1 .. Buffered(rd) : q[i] = rd.buf[rd.r + i]
      /\ c.from \in Nat /\ c.from <= Buffered(rd)
      /\ \A i \in 1 .. c.from : q[i] # c.delim
  BY UnreadIs, OrderedFields DEF Ready, Gathers, Searched, CallType
<1> HIDE DEF q
<1>2. Hits(rd, c) \in SUBSET Nat /\ Found(q, c.delim) \in SUBSET Nat
  BY <1>1 DEF Hits, Found
<1>3. ASSUME NEW k \in Found(q, c.delim) PROVE rd.r + k \in Hits(rd, c)
  <2>1. k \in 1 .. Buffered(rd) /\ q[k] = c.delim
    BY <1>1, <1>3 DEF Found
  <2>2. ~ (k \in 1 .. c.from)
    BY <1>1, <2>1
  <2>3. rd.r + k \in rd.r + c.from + 1 .. rd.w
    BY <1>1, <2>1, <2>2
  <2>4. rd.buf[rd.r + k] = c.delim
    BY <1>1, <2>1
  <2> QED BY <2>3, <2>4 DEF Hits
<1>4. ASSUME NEW i \in Hits(rd, c) PROVE i - rd.r \in Found(q, c.delim)
  <2> DEFINE k == i - rd.r
  <2>1. i \in rd.r + c.from + 1 .. rd.w /\ rd.buf[i] = c.delim
    BY <1>4 DEF Hits
  <2>2. k \in 1 .. Buffered(rd) /\ rd.r + k = i
    BY <1>1, <2>1
  <2> HIDE DEF k
  <2>3. q[k] = rd.buf[rd.r + k]
    BY <1>1, <2>2
  <2>4. k \in Found(q, c.delim)
    BY <1>1, <2>1, <2>2, <2>3 DEF Found
  <2> QED BY <2>4 DEF k
<1> QED BY <1>2, <1>3, <1>4 DEF q

(* Both searches find the same item first.                                 *)
LEMMA HitIs ==
  ASSUME NEW rd, NEW c, Ready(rd, c), c.op \in SliceOp, Hits(rd, c) # {}
  PROVE  /\ Found(Unread(rd), c.delim) # {}
         /\ Earliest(Found(Unread(rd), c.delim)) \in 1 .. Buffered(rd)
         /\ Unread(rd)[Earliest(Found(Unread(rd), c.delim))] = c.delim
         /\ Earliest(Hits(rd, c)) = rd.r + Earliest(Found(Unread(rd), c.delim))
<1> DEFINE F == Found(Unread(rd), c.delim)
           H == Hits(rd, c)
           k == Earliest(F)
           i == Earliest(H)
<1>1. /\ H \in SUBSET Nat /\ F \in SUBSET Nat /\ H # {}
      /\ \A j \in F : rd.r + j \in H
      /\ \A j \in H : j - rd.r \in F
      /\ rd.r \in Nat
  BY HitsAre, OrderedFields DEF Ready
<1>2. Len(Unread(rd)) = Buffered(rd)
  BY UnreadIs DEF Ready
<1>3. \A j \in F : j \in 1 .. Buffered(rd) /\ Unread(rd)[j] = c.delim
  BY <1>2 DEF Found
<1> HIDE DEF F, H
<1>4. F # {}
  BY <1>1
<1>5. k \in F /\ i \in H /\ (\A j \in F : k <= j) /\ (\A j \in H : i <= j)
  BY <1>1, <1>4, EarliestIs
<1> HIDE DEF k, i
<1>6. rd.r + k \in H /\ i - rd.r \in F /\ k \in Nat /\ i \in Nat
  BY <1>1, <1>5
<1>7. i <= rd.r + k /\ k <= i - rd.r
  BY <1>5, <1>6
<1>8. i = rd.r + k
  BY <1>1, <1>6, <1>7
<1> QED BY <1>3, <1>4, <1>5, <1>8 DEF F, H, k, i

-----------------------------------------------------------------------------
(* What follows ReadSlice's return.                                        *)

LEMMA RememberIs ==
  ASSUME NEW rd, Ordered(rd), NEW line
  PROVE  /\ Ordered(Remember(rd, line)) /\ Unread(Remember(rd, line)) = Unread(rd)
         /\ Remember(rd, line).err = rd.err /\ Buffered(Remember(rd, line)) = Buffered(rd)
<1> DEFINE last == rd.last \/ line # <<>>
<1>1. last \in BOOLEAN
  BY DEF Ordered, ReaderType
<1>2. Remember(rd, line) = [rd EXCEPT !.last = last]
  BY DEF Remember
<1> HIDE DEF last
<1> QED BY <1>1, <1>2, OtherFields

(* The line without its delimiter, for ReadLine.                           *)
Cut(c, line) ==
  IF c.op = "ReadLine" /\ line # <<>> /\ line[Len(line)] = c.delim
  THEN SubSeq(line, 1, Len(line) - 1) ELSE line

BufferFull == "buffer full"

Kept(c, line, err) == IF c.op = "ReadLine" /\ line # <<>> THEN "nil" ELSE err

LEMMA SliceEndStep ==
  ASSUME NEW rd, Ordered(rd), NEW c, Gathers(c), c.op \in SliceOp,
         NEW line \in Seq(Item), NEW err, err # BufferFull, SliceEnd(rd, c, line, err)
  PROVE  Inv' /\ Promise!Returns(Unread(rd), rd.err, Abs(c), c.got \o Cut(c, line), FALSE,
                                 Kept(c, line, err))
<1> DEFINE m == Remember(rd, line)
<1>1. Ordered(m) /\ Unread(m) = Unread(rd) /\ m.err = rd.err
  BY RememberIs
<1>2. /\ c.prefix = FALSE /\ c.count = 0 /\ (c.op # "ReadItems" => c.got = <<>>)
      /\ Cut(c, line) \in Seq(Item)
  <2>1. SubSeq(line, 1, Len(line) - 1) \in Seq(Item)
    <3>1. Len(line) - 1 \in Int /\ \A i \in 1 .. Len(line) - 1 : line[i] \in Item
      OBVIOUS
    <3> QED BY <3>1, SubSeqProperties
  <2> QED BY <2>1 DEF Gathers, SliceOp, Cut
<1>3. \/ c.op = "ReadSlice" /\ Return(m, c, line, 0, err)
      \/ c.op = "ReadLine" /\ LineEnd(m, c, line, err)
      \/ c.op = "ReadItems" /\ FragmentEnd(m, c, line, err)
  BY Zenon DEF SliceEnd
<1> HIDE DEF m
<1>4. Return(m, c, c.got \o Cut(c, line), 0, Kept(c, line, err))
  <2>1. CASE c.op = "ReadSlice"
    <3>1. Cut(c, line) = line /\ Kept(c, line, err) = err /\ c.got \o line = line
      BY <1>2, <2>1, ConcatEmptySeq DEF Cut, Kept
    <3> QED BY <1>3, <2>1, <3>1
  <2>2. CASE c.op = "ReadItems"
    <3>1. Cut(c, line) = line /\ Kept(c, line, err) = err
      BY <2>2 DEF Cut, Kept
    <3> QED BY <1>3, <2>2, <3>1 DEF FragmentEnd, BufferFull
  <2>3. CASE c.op = "ReadLine"
    <3>1. c.got \o Cut(c, line) = Cut(c, line)
      BY <1>2, <2>3, ConcatEmptySeq
    <3>2. LineEnd(m, c, line, err)
      BY <1>3, <2>3
    <3>3. CASE line = <<>>
      <4>1. Cut(c, line) = <<>> /\ Kept(c, line, err) = err
        BY <3>3 DEF Cut, Kept
      <4> QED BY <3>1, <3>2, <3>3, <4>1 DEF LineEnd, BufferFull
    <3>4. CASE line # <<>>
      <4>1. /\ Kept(c, line, err) = "nil"
            /\ Cut(c, line) = IF line[Len(line)] = c.delim THEN SubSeq(line, 1, Len(line) - 1)
                              ELSE line
        BY <2>3, <3>4 DEF Cut, Kept
      <4>2. Return(m, c, IF line[Len(line)] = c.delim THEN SubSeq(line, 1, Len(line) - 1)
                         ELSE line, 0, "nil")
        BY <3>2, <3>4, Zenon DEF LineEnd, BufferFull
      <4> QED BY <3>1, <4>1, <4>2
    <3> QED BY <3>3, <3>4
  <2> QED BY <2>1, <2>2, <2>3 DEF SliceOp
<1> QED BY <1>1, <1>2, <1>4, ReturnStep

(* Nothing found in a full buffer.                                         *)
LEMMA FullEndStep ==
  ASSUME NEW rd, Ordered(rd), Buffered(rd) = 0, rd.err = "nil", NEW c, Gathers(c),
         c.op \in SliceOp, NEW line \in Seq(Item), NEW err, err = BufferFull,
         SliceEnd(rd, c, line, err)
  PROVE  /\ Inv'
         /\ \/ /\ c.op = "ReadSlice"
               /\ Promise!Returns(Unread(rd), rd.err, Abs(c), line, FALSE, BufferFull)
            \/ /\ c.op = "ReadLine"
               /\ Promise!Returns(Unread(rd), rd.err, Abs(c), line, TRUE, "nil")
            \/ /\ c.op = "ReadItems"
               /\ Promise!GoesOn(Unread(rd), rd.err, [Abs(c) EXCEPT !.got = @ \o line])
<1> DEFINE m == Remember(rd, line)
<1>1. Ordered(m) /\ Unread(m) = Unread(rd) /\ m.err = rd.err /\ Buffered(m) = 0
  BY RememberIs
<1>2. c \in CallType /\ c.prefix = FALSE /\ c.count = 0 /\ c.got \in Seq(Item)
  BY DEF Gathers, SliceOp, CallType
<1>3. \/ c.op = "ReadSlice" /\ Return(m, c, line, 0, BufferFull)
      \/ c.op = "ReadLine" /\ LineEnd(m, c, line, BufferFull)
      \/ c.op = "ReadItems" /\ FragmentEnd(m, c, line, BufferFull)
  BY Zenon DEF SliceEnd
<1> HIDE DEF m
<1>4. CASE c.op = "ReadSlice"
  <2>1. Return(m, c, line, 0, BufferFull)
    BY <1>3, <1>4
  <2>2. Inv' /\ Promise!Returns(Unread(rd), rd.err, Abs(c), line, FALSE, BufferFull)
    BY <1>1, <1>2, <2>1, ReturnStep
  <2> QED BY <1>4, <2>2
<1>5. CASE c.op = "ReadLine"
  <2> DEFINE d == [c EXCEPT !.prefix = TRUE]
  <2>1. LineEnd(m, c, line, BufferFull)
    BY <1>3, <1>5
  <2>2. Return(m, d, line, 0, "nil")
    BY <2>1 DEF LineEnd, BufferFull
  <2>3. d.prefix = TRUE /\ d.count = 0 /\ Abs(d) = Abs(c)
    BY <1>2 DEF Abs, CallType
  <2> HIDE DEF d
  <2>4. Inv' /\ Promise!Returns(Unread(rd), rd.err, Abs(c), line, TRUE, "nil")
    BY <1>1, <2>2, <2>3, ReturnStep
  <2> QED BY <1>5, <2>4
<1>6. CASE c.op = "ReadItems"
  <2> DEFINE got == c.got \o line
             d == [c EXCEPT !.got = got, !.from = 0]
  <2>1. Fill(m, d)
    <3>1. FragmentEnd(m, c, line, BufferFull)
      BY <1>3, <1>6
    <3> QED BY <3>1 DEF FragmentEnd, BufferFull
  <2>2. got \in Seq(Item)
    BY <1>2, ConcatProperties
  <2>3. [Abs(c) EXCEPT !.got = @ \o line] = [Abs(c) EXCEPT !.got = got]
    BY DEF Abs
  <2> HIDE DEF got
  <2>4. /\ d \in CallType /\ d.op = c.op /\ d.n = c.n /\ d.delim = c.delim /\ d.got = got
        /\ d.count = c.count /\ d.prefix = FALSE /\ d.from = 0
    BY <1>2, <2>2 DEF CallType
  <2> HIDE DEF d
  <2>5. Ready(m, d)
    <3>1. Gathers(d) /\ c.op # "Peek" /\ c.op # "Discard"
      BY <1>2, <1>6, <2>2, <2>4 DEF Gathers
    <3>2. 1 .. d.from = {} /\ d.from <= Buffered(m)
      BY <1>1, <2>4
    <3> QED BY <1>1, <2>4, <3>1, <3>2 DEF Ready, Searched
  <2>6. Inv' /\ Promise!GoesOn(Unread(m), m.err, Abs(d))
    <3>1. Buffered(m) < Size
      BY <1>1, ReaderAssumption
    <3> QED BY <1>1, <1>6, <2>1, <2>4, <2>5, <3>1, FillStep
  <2>7. Abs(d) = [Abs(c) EXCEPT !.got = got]
    <3>1. Abs(d) = [op |-> c.op, n |-> c.n, delim |-> c.delim, got |-> got, count |-> c.count]
      BY <2>4 DEF Abs
    <3> QED BY <3>1 DEF Abs
  <2> QED BY <1>1, <1>6, <2>3, <2>6, <2>7
<1> QED BY <1>4, <1>5, <1>6 DEF SliceOp

(* The cases of Delimited and of SliceLoop, with the search named.         *)
LEMMA DelimitedCases ==
  ASSUME NEW q, NEW e, NEW c, NEW F, F = Found(q, c.delim), NEW k, k = Earliest(F),
         \/ /\ F # {}
            /\ Promise!Returns(Promise!After(k, q), e, c,
                 c.got \o Promise!First(IF c.op = "ReadLine" THEN k - 1 ELSE k, q), FALSE, "nil")
         \/ /\ F = {} /\ e # "nil"
            /\ Promise!Returns(<<>>, "nil", c, c.got \o q, FALSE,
                 IF c.op = "ReadLine" /\ q # <<>> THEN "nil" ELSE e)
         \/ /\ F = {} /\ e = "nil" /\ Len(q) = Size
            /\ \/ c.op = "ReadSlice" /\ Promise!Returns(<<>>, e, c, q, FALSE, BufferFull)
               \/ c.op = "ReadLine" /\ Promise!Returns(<<>>, e, c, q, TRUE, "nil")
               \/ c.op = "ReadItems" /\ Promise!GoesOn(<<>>, e, [c EXCEPT !.got = @ \o q])
         \/ F = {} /\ e = "nil" /\ Len(q) < Size /\ Promise!GoesOn(q, e, c)
  PROVE  Promise!Delimited(q, e, c)
<1>1. CASE /\ F # {}
           /\ Promise!Returns(Promise!After(k, q), e, c,
                c.got \o Promise!First(IF c.op = "ReadLine" THEN k - 1 ELSE k, q), FALSE, "nil")
  <2> DEFINE hits == {i \in 1 .. Len(q) : q[i] = c.delim}
             hit == CHOOSE i \in hits : \A j \in hits : i <= j
  <2>1. F = hits
    BY Zenon DEF Found
  <2>2. k = hit
    BY <2>1, Zenon DEF Earliest
  <2>3. /\ hits # {}
        /\ Promise!Returns(Promise!After(hit, q), e, c,
             c.got \o Promise!First(IF c.op = "ReadLine" THEN hit - 1 ELSE hit, q), FALSE, "nil")
    <3> HIDE DEF hits, hit
    <3> QED BY <1>1, <2>1, <2>2, Zenon
  <2> QED BY <2>3, Zenon DEF Promise!Delimited
<1>2. CASE /\ F = {} /\ e # "nil"
           /\ Promise!Returns(<<>>, "nil", c, c.got \o q, FALSE,
                IF c.op = "ReadLine" /\ q # <<>> THEN "nil" ELSE e)
  BY <1>2, Zenon DEF Promise!Delimited, Found
<1>3. CASE /\ F = {} /\ e = "nil" /\ Len(q) = Size
           /\ \/ c.op = "ReadSlice" /\ Promise!Returns(<<>>, e, c, q, FALSE, BufferFull)
              \/ c.op = "ReadLine" /\ Promise!Returns(<<>>, e, c, q, TRUE, "nil")
              \/ c.op = "ReadItems" /\ Promise!GoesOn(<<>>, e, [c EXCEPT !.got = @ \o q])
  BY <1>3, Zenon DEF Promise!Delimited, Found, BufferFull
<1>4. CASE F = {} /\ e = "nil" /\ Len(q) < Size /\ Promise!GoesOn(q, e, c)
  BY <1>4, Zenon DEF Promise!Delimited, Found
<1> QED BY <1>1, <1>2, <1>3, <1>4, Zenon

LEMMA SliceCases ==
  ASSUME NEW rd, NEW c, SliceLoop(rd, c, SliceEnd), NEW H, H = Hits(rd, c), NEW i, i = Earliest(H),
         NEW all, all = [rd EXCEPT !.r = rd.w]
  PROVE  \/ H # {} /\ SliceEnd([rd EXCEPT !.r = i], c, SubSeq(rd.buf, rd.r + 1, i), "nil")
         \/ H = {} /\ rd.err # "nil" /\ SliceEnd(ErrRead(all), c, Unread(rd), rd.err)
         \/ /\ H = {} /\ rd.err = "nil" /\ Buffered(rd) >= Size
            /\ SliceEnd(all, c, rd.buf, BufferFull)
         \/ /\ H = {} /\ rd.err = "nil" /\ ~ (Buffered(rd) >= Size)
            /\ Fill(rd, [c EXCEPT !.from = Buffered(rd)])
BY Zenon DEF SliceLoop, Earliest, BufferFull

LEMMA SkipTo ==
  ASSUME NEW rd, Ordered(rd), NEW k \in 0 .. Buffered(rd)
  PROVE  /\ [rd EXCEPT !.r = rd.r + k] = Skip(rd, k)
         /\ SubSeq(rd.buf, rd.r + 1, rd.r + k) = SubSeq(Unread(rd), 1, k)
         /\ SubSeq(rd.buf, rd.r + 1, rd.r + k) \in Seq(Item)
         /\ Len(SubSeq(rd.buf, rd.r + 1, rd.r + k)) = k
<1> DEFINE buf == rd.buf
           r == rd.r
           q == Unread(rd)
           line == SubSeq(buf, r + 1, r + k)
<1>1. /\ buf \in Seq(Item) /\ Len(buf) = Size /\ r \in Nat /\ k \in Nat
      /\ r + k <= Size /\ Size \in Nat /\ k <= Buffered(rd) /\ Buffered(rd) \in Nat
  BY OrderedFields
<1>2. /\ q \in Seq(Item) /\ Len(q) = Buffered(rd)
      /\ \A i \in 1 .. Buffered(rd) : q[i] = buf[r + i]
  BY UnreadIs
<1>3. [rd EXCEPT !.r = rd.r + k] = Skip(rd, k)
  BY DEF Skip
<1> HIDE DEF buf, r, q
<1>4. line \in Seq(Item) /\ Len(line) = k /\ \A i \in 1 .. k : line[i] = buf[r + i]
  <2> DEFINE w == r + k
  <2>1. w \in Nat /\ r <= w /\ w <= Size /\ w - r = k
    BY <1>1
  <2> HIDE DEF w
  <2>2. /\ SubSeq(buf, r + 1, w) \in Seq(Item) /\ Len(SubSeq(buf, r + 1, w)) = w - r
        /\ \A i \in 1 .. w - r : SubSeq(buf, r + 1, w)[i] = buf[r + i]
    BY <1>1, <2>1
  <2> QED BY <2>1, <2>2 DEF w
<1> HIDE DEF line
<1>5. /\ SubSeq(q, 1, k) \in Seq(Item) /\ Len(SubSeq(q, 1, k)) = k
      /\ \A i \in 1 .. k : SubSeq(q, 1, k)[i] = q[i]
  BY <1>1, <1>2
<1>6. \A i \in 1 .. k : line[i] = SubSeq(q, 1, k)[i]
  BY <1>1, <1>2, <1>4, <1>5
<1>7. line = SubSeq(q, 1, k)
  BY <1>4, <1>5, <1>6, SeqEqual
<1> QED BY <1>3, <1>4, <1>7 DEF line, buf, r, q

LEMMA SliceStep ==
  ASSUME NEW rd, NEW c, Ready(rd, c), c.op \in SliceOp, SliceLoop(rd, c, SliceEnd)
  PROVE  Inv' /\ Promise!Delimited(Unread(rd), rd.err, Abs(c))
<1> DEFINE q == Unread(rd)
           H == Hits(rd, c)
           F == Found(q, c.delim)
           i == Earliest(H)
           k == Earliest(F)
           all == [rd EXCEPT !.r = rd.w]
<1>1. /\ Ordered(rd) /\ Gathers(c) /\ q \in Seq(Item) /\ Len(q) = Buffered(rd)
      /\ Buffered(rd) \in Nat /\ Size \in Nat /\ Size > 0 /\ Buffered(rd) <= Size
      /\ rd.w = rd.r + Buffered(rd) /\ rd.r \in Nat
  BY UnreadIs, OrderedFields DEF Ready
<1>2. F = Found(q, Abs(c).delim) /\ Abs(c).op = c.op /\ Abs(c).got = c.got
  BY DEF Abs
<1>3. /\ H = {} => F = {}
      /\ H # {} => F # {} /\ k \in 1 .. Buffered(rd) /\ q[k] = c.delim /\ i = rd.r + k
  BY HitsAre, HitIs
<1>4. \/ H # {} /\ SliceEnd([rd EXCEPT !.r = i], c, SubSeq(rd.buf, rd.r + 1, i), "nil")
      \/ H = {} /\ rd.err # "nil" /\ SliceEnd(ErrRead(all), c, q, rd.err)
      \/ H = {} /\ rd.err = "nil" /\ Buffered(rd) >= Size /\ SliceEnd(all, c, rd.buf, BufferFull)
      \/ H = {} /\ rd.err = "nil" /\ ~ (Buffered(rd) >= Size)
         /\ Fill(rd, [c EXCEPT !.from = Buffered(rd)])
  BY SliceCases, Zenon
<1>5. /\ Ordered(all) /\ all.err = rd.err /\ Buffered(all) = 0 /\ Unread(all) = <<>>
  <2> DEFINE b == Buffered(rd)
             s == Skip(rd, b)
  <2>1. b \in 0 .. Buffered(rd) /\ b = Len(q)
    BY <1>1
  <2>2. all = s
    BY <1>1, <2>1, SkipTo
  <2>3. /\ Ordered(s) /\ s.err = rd.err /\ Buffered(s) = Buffered(rd) - b
        /\ Unread(s) = SubSeq(q, b + 1, Len(q))
    <3> HIDE DEF b
    <3> QED BY <1>1, <2>1, SkipIs
  <2>4. SubSeq(q, b + 1, Len(q)) = <<>>
    BY <1>1, <2>1, SubSeqEmpty
  <2> HIDE DEF all
  <2> QED BY <1>1, <2>2, <2>3, <2>4
<1> HIDE DEF H, F, i, k
<1>6. ASSUME H # {}, SliceEnd([rd EXCEPT !.r = i], c, SubSeq(rd.buf, rd.r + 1, i), "nil")
      PROVE  Inv' /\ Promise!Delimited(q, rd.err, Abs(c))
  <2> DEFINE s == Skip(rd, k)
             line == SubSeq(q, 1, k)
             upto == IF Abs(c).op = "ReadLine" THEN k - 1 ELSE k
  <2>1. k \in 1 .. Buffered(rd) /\ k \in 0 .. Buffered(rd) /\ i = rd.r + k /\ F # {} /\ q[k] = c.delim
    BY <1>1, <1>3, <1>6
  <2>2. /\ SliceEnd(s, c, line, "nil") /\ line \in Seq(Item) /\ Len(line) = k
    BY <1>1, <1>6, <2>1, SkipTo
  <2>3. Ordered(s) /\ s.err = rd.err /\ Unread(s) = SubSeq(q, k + 1, Len(q))
    BY <1>1, <2>1, SkipIs
  <2>4. /\ line # <<>> /\ line[Len(line)] = c.delim
        /\ SubSeq(line, 1, k - 1) = SubSeq(q, 1, k - 1)
    <3> HIDE DEF q
    <3>1. /\ \A j \in 1 .. k : line[j] = q[j]
          /\ k \in 1 .. k /\ k \in Nat /\ k > 0
      BY <1>1, <2>1
    <3>2. line[k] = c.delim
      BY <2>1, <3>1
    <3> HIDE DEF line
    <3>3. line # <<>>
      BY <2>2, <3>1
    <3>4. /\ SubSeq(line, 1, k - 1) \in Seq(Item) /\ Len(SubSeq(line, 1, k - 1)) = k - 1
          /\ \A j \in 1 .. k - 1 : SubSeq(line, 1, k - 1)[j] = line[j]
      BY <2>2, <3>1
    <3>5. /\ SubSeq(q, 1, k - 1) \in Seq(Item) /\ Len(SubSeq(q, 1, k - 1)) = k - 1
          /\ \A j \in 1 .. k - 1 : SubSeq(q, 1, k - 1)[j] = q[j]
      BY <1>1, <2>1, <3>1
    <3>6. \A j \in 1 .. k - 1 : SubSeq(line, 1, k - 1)[j] = SubSeq(q, 1, k - 1)[j]
      BY <3>1, <3>4, <3>5
    <3>7. SubSeq(line, 1, k - 1) = SubSeq(q, 1, k - 1)
      BY <3>4, <3>5, <3>6, SeqEqual
    <3> QED BY <2>2, <3>2, <3>3, <3>7
  <2>5. Cut(c, line) = Promise!First(upto, q) /\ Kept(c, line, "nil") = "nil"
    <3> HIDE DEF line
    <3>1. Cut(c, line) = IF c.op = "ReadLine" THEN SubSeq(q, 1, k - 1) ELSE line
      BY <2>2, <2>4 DEF Cut
    <3> QED BY <1>2, <3>1 DEF Promise!First, Kept, line
  <2>6. "nil" # BufferFull
    BY Zenon DEF BufferFull
  <2> HIDE DEF s, line, upto
  <2>7. Inv' /\ Promise!Returns(Unread(s), s.err, Abs(c), c.got \o Cut(c, line), FALSE,
                                Kept(c, line, "nil"))
    BY <1>1, <2>2, <2>3, <2>6, SliceEndStep
  <2>8. Promise!Returns(Promise!After(k, q), rd.err, Abs(c), Abs(c).got \o Promise!First(upto, q),
                        FALSE, "nil")
    BY <1>2, <2>3, <2>5, <2>7 DEF Promise!After
  <2>9. Promise!Delimited(q, rd.err, Abs(c))
    <3> HIDE DEF q
    <3> QED BY <1>2, <2>1, <2>8, DelimitedCases, Zenon DEF k, upto
  <2> QED BY <2>7, <2>9
<1>7. ASSUME H = {}, rd.err # "nil", SliceEnd(ErrRead(all), c, q, rd.err)
      PROVE  Inv' /\ Promise!Delimited(q, rd.err, Abs(c))
  <2> HIDE DEF all
  <2>1. Ordered(ErrRead(all)) /\ ErrRead(all).err = "nil" /\ Unread(ErrRead(all)) = <<>>
    BY <1>5, ErrReadIs
  <2>2. rd.err # BufferFull
    BY <1>1, Zenon DEF Ordered, ReaderType, SourceErr, BufferFull
  <2>3. Inv' /\ Promise!Returns(<<>>, "nil", Abs(c), c.got \o Cut(c, q), FALSE, Kept(c, q, rd.err))
    <3> DEFINE f == ErrRead(all)
    <3>1. Inv' /\ Promise!Returns(Unread(f), f.err, Abs(c), c.got \o Cut(c, q), FALSE,
                                  Kept(c, q, rd.err))
      <4> HIDE DEF f
      <4> QED BY <1>1, <1>7, <2>1, <2>2, SliceEndStep DEF f
    <3> QED BY <2>1, <3>1
  <2>4. F = {}
    BY <1>3, <1>7
  <2>5. Cut(c, q) = q
    <3> HIDE DEF q
    <3>1. q # <<>> => Len(q) \in 1 .. Len(q)
      BY <1>1
    <3>2. q # <<>> => q[Len(q)] # c.delim
      BY <2>4, <3>1 DEF F, Found
    <3> QED BY <3>2 DEF Cut
  <2>6. Promise!Returns(<<>>, "nil", Abs(c), Abs(c).got \o q, FALSE,
                        IF Abs(c).op = "ReadLine" /\ q # <<>> THEN "nil" ELSE rd.err)
    BY <1>2, <2>3, <2>5 DEF Kept
  <2>7. Promise!Delimited(q, rd.err, Abs(c))
    <3> HIDE DEF q
    <3> QED BY <1>2, <1>7, <2>4, <2>6, DelimitedCases, Zenon
  <2> QED BY <2>3, <2>7
<1>8. ASSUME H = {}, rd.err = "nil", Buffered(rd) >= Size, SliceEnd(all, c, rd.buf, BufferFull)
      PROVE  Inv' /\ Promise!Delimited(q, rd.err, Abs(c))
  <2>1. F = {} /\ Len(q) = Size
    BY <1>1, <1>3, <1>8
  <2>2. rd.buf = q
    <3> DEFINE buf == rd.buf
    <3>1. buf \in Seq(Item) /\ Len(buf) = Size /\ rd.r = 0
      BY <1>1, <1>8, OrderedFields
    <3>2. \A j \in 1 .. Buffered(rd) : q[j] = buf[rd.r + j]
      BY <1>1, UnreadIs
    <3> HIDE DEF buf, q
    <3>3. \A j \in 1 .. Size : q[j] = buf[j]
      BY <1>1, <2>1, <3>1, <3>2
    <3>4. buf = q
      BY <1>1, <2>1, <3>1, <3>3, SeqEqual
    <3> QED BY <3>4 DEF buf
  <2> HIDE DEF all
  <2>3. SliceEnd(all, c, q, BufferFull)
    BY <1>8, <2>2
  <2>4. all.err = "nil"
    BY <1>5, <1>8
  <2> HIDE DEF q
  <2>5. /\ Inv'
        /\ \/ c.op = "ReadSlice" /\ Promise!Returns(<<>>, rd.err, Abs(c), q, FALSE, BufferFull)
           \/ c.op = "ReadLine" /\ Promise!Returns(<<>>, rd.err, Abs(c), q, TRUE, "nil")
           \/ c.op = "ReadItems" /\ Promise!GoesOn(<<>>, rd.err, [Abs(c) EXCEPT !.got = @ \o q])
    BY <1>1, <1>5, <2>3, <2>4, FullEndStep
  <2>6. Promise!Delimited(q, rd.err, Abs(c))
    BY <1>2, <1>8, <2>1, <2>5, DelimitedCases, Zenon
  <2> QED BY <2>5, <2>6 DEF q
<1>9. ASSUME H = {}, rd.err = "nil", ~ (Buffered(rd) >= Size),
             Fill(rd, [c EXCEPT !.from = Buffered(rd)])
      PROVE  Inv' /\ Promise!Delimited(q, rd.err, Abs(c))
  <2> DEFINE d == [c EXCEPT !.from = Buffered(rd)]
  <2>1. F = {} /\ Len(q) < Size /\ Buffered(rd) < Size
    BY <1>1, <1>3, <1>9
  <2>2. c \in CallType
    BY <1>1 DEF Gathers
  <2>3. /\ d \in CallType /\ d.op = c.op /\ d.n = c.n /\ d.delim = c.delim /\ d.got = c.got
        /\ d.count = c.count /\ d.prefix = c.prefix /\ d.from = Buffered(rd)
    BY <1>1, <2>2 DEF CallType
  <2>4. Fill(rd, d)
    BY <1>9
  <2> HIDE DEF d
  <2>5. \A j \in 1 .. Buffered(rd) : q[j] # c.delim
    BY <1>1, <2>1 DEF F, Found
  <2>6. Ready(rd, d)
    <3>1. Gathers(d)
      BY <1>1, <2>3 DEF Gathers
    <3>2. Searched(rd, d)
      BY <1>1, <2>3, <2>5 DEF Searched
    <3> QED BY <1>1, <2>3, <3>1, <3>2 DEF Ready, SliceOp
  <2>7. d.op # "Discard"
    BY <2>3 DEF SliceOp
  <2>8. Abs(d) = Abs(c)
    BY <2>3 DEF Abs
  <2>9. Inv' /\ Promise!GoesOn(q, rd.err, Abs(c))
    BY <1>9, <2>1, <2>4, <2>6, <2>7, <2>8, FillStep
  <2>10. Promise!Delimited(q, rd.err, Abs(c))
    <3> HIDE DEF q
    <3> QED BY <1>2, <1>9, <2>1, <2>9, DelimitedCases, Zenon
  <2> QED BY <2>9, <2>10
<1> QED BY <1>4, <1>6, <1>7, <1>8, <1>9

-----------------------------------------------------------------------------
(* The turns of the other ends.                                            *)

LEMMA ChunkType ==
  /\ \A chunk \in Chunk : chunk \in Seq(Item) /\ Len(chunk) \in Nat
  /\ <<>> \in Chunk
BY ReaderAssumption

LEMMA ResumeStep ==
  ASSUME NEW rd, NEW c, Ready(rd, c), Resume(rd, c) \/ SliceResume(rd, c)
  PROVE  Inv' /\ Promise!Proceeds(Unread(rd), rd.err, Abs(c))
<1>1. Ordered(rd) /\ Gathers(c) /\ Abs(c).op = c.op
  BY DEF Ready, Abs
<1>2. CASE c.op = "Peek" /\ PeekLoop(rd, c)
  BY <1>1, <1>2, PeekStep DEF Promise!Proceeds
<1>3. CASE c.op = "Discard" /\ DiscardSkip(rd, c)
  BY <1>1, <1>3, DiscardStep DEF Promise!Proceeds
<1>4. CASE c.op = "ReadItem" /\ ReadItemLoop(rd, c)
  BY <1>1, <1>4, ItemStep DEF Promise!Proceeds
<1>5. CASE c.op = "WriteTo" /\ WriteToLoop(rd, c)
  BY <1>1, <1>5, PassStep DEF Promise!Proceeds
<1>6. CASE c.op \in SliceOp /\ SliceLoop(rd, c, SliceEnd)
  BY <1>1, <1>6, SliceStep DEF Promise!Proceeds, SliceOp
<1> QED BY <1>2, <1>3, <1>4, <1>5, <1>6, Zenon DEF Resume, SliceResume, SliceOp

(* What a call that waits at fill knows.                                   *)
LEMMA AtFill ==
  ASSUME Inv, call.at = "fill"
  PROVE  Filling(reader, call) /\ result = NoResult /\ Abs(call) # Promise!NoCall
<1>1. call # NoCall /\ ~ Writing(call)
  BY DEF NoCall, Writing
<1>2. Filling(reader, call) /\ result = NoResult
  BY <1>1 DEF Inv
<1>3. call.op # "none"
  BY <1>2 DEF Filling, Ready, Gathers, CallType, Op
<1> QED BY <1>2, <1>3 DEF Abs, Promise!NoCall

LEMMA AtWrite ==
  ASSUME Inv, call.at \in {"first", "write", "direct"}
  PROVE  /\ Ordered(reader) /\ Gathers(call) /\ call.op = "WriteTo" /\ result = NoResult
         /\ Abs(call) # Promise!NoCall /\ Abs(call).op = "WriteTo"
<1>1. call # NoCall /\ ~ Filling(reader, call)
  BY DEF NoCall, Filling
<1>2. Ordered(reader) /\ Writing(call) /\ result = NoResult
  BY <1>1 DEF Inv
<1> QED BY <1>2 DEF Abs, Promise!NoCall, Writing

LEMMA FillReadCases ==
  ASSUME NEW chunk, NEW err, FillTurn(chunk, err) \/ SliceFillTurn(chunk, err),
         NEW s, s = Stored(reader, chunk)
  PROVE  /\ call.at = "fill" /\ Len(chunk) <= Size - reader.w
         /\ \/ /\ err # "nil"
               /\ Resume([s EXCEPT !.err = err], call) \/ SliceResume([s EXCEPT !.err = err], call)
            \/ err = "nil" /\ chunk # <<>> /\ (Resume(s, call) \/ SliceResume(s, call))
            \/ err = "nil" /\ chunk = <<>> /\ (Resume(GivenUp(s), call) \/ SliceResume(GivenUp(s), call))
            \/ /\ err = "nil" /\ chunk = <<>> /\ call.empties + 1 # MaxConsecutiveEmptyReads
               /\ Wait(s, [call EXCEPT !.empties = @ + 1], "fill")
BY Zenon DEF FillTurn, SliceFillTurn, FillRead

NoProgress == "no progress"

LEMMA ArriveStep ==
  ASSUME Inv, call.at = "fill", NEW chunk \in Chunk, Len(chunk) <= Size - reader.w,
         NEW err \in SourceErr \cup {NoProgress}, chunk # <<>> \/ err # "nil", NEW owed,
         owed = IF err = "nil" THEN reader.err ELSE err,
         Promise!Proceeds(Unread(reader) \o chunk, owed, Abs(call))
  PROVE  Promise!Arrive
<1>1. Abs(call) # Promise!NoCall
  BY AtFill
<1>2. Len(chunk) <= Size - Len(Unread(reader))
  <2>1. Ordered(reader) /\ reader.r = 0
    BY AtFill DEF Filling, Ready
  <2>2. Len(Unread(reader)) = reader.w
    BY <2>1, UnreadIs, OrderedFields
  <2> QED BY <2>2
<1>3. err \in SourceErr \cup {"no progress"}
  BY Zenon DEF NoProgress
<1> QED BY <1>1, <1>2, <1>3, Zenon DEF Promise!Arrive, Abs

LEMMA FillTurnStep ==
  ASSUME Inv, NEW chunk \in Chunk, NEW err \in SourceErr,
         FillTurn(chunk, err) \/ SliceFillTurn(chunk, err)
  PROVE  Inv' /\ [Promise!Next]_(Promise!vars)
<1> DEFINE s == Stored(reader, chunk)
           all == Unread(reader) \o chunk
           f == [s EXCEPT !.err = err]
           g == GivenUp(s)
           retry == [call EXCEPT !.empties = @ + 1]
<1>1. /\ call.at = "fill" /\ Len(chunk) <= Size - reader.w
      /\ \/ err # "nil" /\ (Resume(f, call) \/ SliceResume(f, call))
         \/ err = "nil" /\ chunk # <<>> /\ (Resume(s, call) \/ SliceResume(s, call))
         \/ err = "nil" /\ chunk = <<>> /\ (Resume(g, call) \/ SliceResume(g, call))
         \/ /\ err = "nil" /\ chunk = <<>> /\ call.empties + 1 # MaxConsecutiveEmptyReads
            /\ Wait(s, retry, "fill")
  BY FillReadCases, Zenon
<1>2. Filling(reader, call) /\ result = NoResult
  BY <1>1, AtFill
<1>3. /\ Ready(reader, call) /\ Ordered(reader) /\ Gathers(call) /\ call \in CallType
      /\ chunk \in Seq(Item) /\ Len(chunk) \in Nat
  BY <1>2, ChunkType DEF Filling, Ready, Gathers
<1>4. /\ Unread(reader) \in Seq(Item) /\ Len(Unread(reader)) = Buffered(reader)
      /\ Buffered(reader) \in Nat
  BY <1>3, UnreadIs, OrderedFields
<1>5. /\ Ordered(s) /\ s.err = reader.err /\ s.r = reader.r /\ s.w = reader.w + Len(chunk)
      /\ Unread(s) = all
  BY <1>1, <1>3, StoredIs
<1> HIDE DEF s
<1>6. ASSUME NEW a, Ordered(a), Unread(a) = all PROVE Ready(a, call)
  <2>1. CASE call.op \in SliceOp
    <3>1. /\ call.from \in Nat /\ call.from <= Len(Unread(reader))
          /\ \A i \in 1 .. call.from : Unread(reader)[i] # call.delim
      BY <1>3, <1>4, <2>1 DEF Ready, Searched, CallType
    <3>2. /\ Len(all) = Len(Unread(reader)) + Len(chunk)
          /\ \A i \in 1 .. Len(Unread(reader)) + Len(chunk) :
               all[i] = IF i <= Len(Unread(reader)) THEN Unread(reader)[i]
                        ELSE chunk[i - Len(Unread(reader))]
      BY <1>3, <1>4, ConcatProperties
    <3>3. Len(all) = Buffered(a)
      BY <1>6, UnreadIs
    <3> DEFINE q == Unread(reader)
    <3> HIDE DEF all, q
    <3>4. call.from <= Buffered(a)
      BY <1>3, <1>4, <3>1, <3>2, <3>3
    <3>5. \A i \in 1 .. call.from : all[i] # call.delim
      <4>1. /\ call.from \in Nat /\ call.from <= Len(q)
            /\ \A i \in 1 .. call.from : q[i] # call.delim
            /\ \A i \in 1 .. Len(q) + Len(chunk) :
               all[i] = IF i <= Len(q) THEN q[i] ELSE chunk[i - Len(q)]
            /\ Len(q) \in Nat /\ Len(chunk) \in Nat
        BY <1>3, <1>4, <3>1, <3>2 DEF q
      <4> QED BY <4>1
    <3> QED BY <1>3, <1>6, <3>4, <3>5 DEF Ready, Searched
  <2>2. CASE call.op \notin SliceOp
    BY <1>3, <1>6, <2>2 DEF Ready, Searched
  <2> QED BY <2>1, <2>2
<1>7. CASE err # "nil" /\ (Resume(f, call) \/ SliceResume(f, call))
  <2>1. Ordered(f) /\ Unread(f) = all /\ f.err = err
    BY <1>5, OtherFields
  <2> HIDE DEF f, all
  <2>2. Inv' /\ Promise!Proceeds(all, err, Abs(call))
    BY <1>6, <1>7, <2>1, ResumeStep
  <2>3. Promise!Arrive
    BY <1>1, <1>7, <2>2, ArriveStep DEF all
  <2> QED BY <2>2, <2>3 DEF Promise!Next
<1>8. CASE err = "nil" /\ chunk # <<>> /\ (Resume(s, call) \/ SliceResume(s, call))
  <2> HIDE DEF all
  <2>1. Inv' /\ Promise!Proceeds(all, reader.err, Abs(call))
    BY <1>5, <1>6, <1>8, ResumeStep
  <2>2. Promise!Arrive
    BY <1>1, <1>8, <2>1, ArriveStep DEF all
  <2> QED BY <2>1, <2>2 DEF Promise!Next
<1>9. CASE err = "nil" /\ chunk = <<>> /\ (Resume(g, call) \/ SliceResume(g, call))
  <2> DEFINE why == NoProgress
  <2>1. why \in SourceErr \cup {"no progress"} /\ why \in SourceErr \cup {NoProgress} /\ why # "nil"
    BY Zenon DEF NoProgress
  <2>2. g = [s EXCEPT !.err = why]
    BY Zenon DEF GivenUp, NoProgress
  <2> HIDE DEF why, g
  <2>3. Ordered(g) /\ Unread(g) = all /\ g.err = why
    BY <1>5, <2>1, <2>2, OtherFields
  <2> HIDE DEF all
  <2>4. Inv' /\ Promise!Proceeds(all, why, Abs(call))
    BY <1>6, <1>9, <2>3, ResumeStep
  <2>5. Promise!Arrive
    BY <1>1, <2>1, <2>4, ArriveStep DEF all
  <2> QED BY <2>4, <2>5 DEF Promise!Next
<1>10. CASE /\ err = "nil" /\ chunk = <<>> /\ call.empties + 1 # MaxConsecutiveEmptyReads
            /\ Wait(s, retry, "fill")
  <2> DEFINE n == call.empties + 1
             d == [retry EXCEPT !.at = "fill"]
  <2>1. n \in Nat /\ n < MaxConsecutiveEmptyReads
    BY <1>2, <1>3, <1>10, ReaderAssumption DEF Filling, CallType
  <2>2. /\ d \in CallType /\ d.at = "fill" /\ d.empties = n /\ d.op = call.op /\ d.n = call.n
        /\ d.delim = call.delim /\ d.from = call.from /\ d.count = call.count
        /\ d.got = call.got /\ d.prefix = call.prefix
    <3>1. d = [[call EXCEPT !.empties = n] EXCEPT !.at = "fill"]
      BY DEF CallType
    <3> HIDE DEF n, d
    <3> QED BY <1>3, <2>1, <3>1 DEF CallType
  <2>3. reader' = s /\ call' = d /\ result' = NoResult
    BY <1>10 DEF Wait
  <2> HIDE DEF n, d
  <2>4. Unread(s) = Unread(reader) /\ s.w = reader.w
    <3>1. all = Unread(reader)
      BY <1>4, <1>10, ConcatEmptySeq
    <3>2. Len(chunk) = 0
      BY <1>10
    <3>3. reader.w \in Nat
      BY <1>3, OrderedFields
    <3> QED BY <1>5, <3>1, <3>2, <3>3
  <2>5. Ready(s, d)
    <3>1. Ready(s, call)
      BY <1>5, <1>6
    <3> QED BY <2>2, <3>1 DEF Ready, Gathers, Searched
  <2>6. Filling(s, d)
    BY <1>2, <1>5, <2>1, <2>2, <2>4, <2>5 DEF Filling
  <2>7. Inv'
    BY <1>5, <2>3, <2>6 DEF Inv
  <2>8. UNCHANGED Promise!vars
    BY <1>2, <1>5, <2>2, <2>3, <2>4 DEF Promise!vars, Unread
  <2> QED BY <2>7, <2>8
<1> QED BY <1>1, <1>7, <1>8, <1>9, <1>10

(* A negative count ends the call.                                         *)
LEMMA BreaksStep ==
  ASSUME Inv, NEW err, Return(reader, call, call.got, call.count, err),
         \/ call.at = "fill" /\ err = "negative read"
         \/ call.at \in {"first", "write"} /\ err = "negative write"
  PROVE  Inv' /\ [Promise!Next]_(Promise!vars)
<1>1. /\ Ordered(reader) /\ Gathers(call) /\ Abs(call) # Promise!NoCall
      /\ err = "negative write" => Abs(call).op = "WriteTo"
  BY AtFill, AtWrite, Zenon DEF Filling, Ready
<1>2. Abs(call).got = call.got /\ call.prefix = FALSE
  BY <1>1 DEF Abs, Gathers
<1>3. Inv' /\ Promise!Returns(Unread(reader), reader.err, Abs(call), Abs(call).got, FALSE, err)
  BY <1>1, <1>2, ReturnStep
<1>4. Promise!Broken
  BY <1>1, <1>3, Zenon DEF Promise!Broken, Abs
<1> QED BY <1>3, <1>4 DEF Promise!Next

LEMMA WriteBufTurnStep ==
  ASSUME Inv, NEW num \in 0 .. Size, NEW err \in SinkErr, WriteBufTurn(num, err)
  PROVE  Inv' /\ [Promise!Next]_(Promise!vars)
<1> DEFINE q == Unread(reader)
           passed == SubSeq(q, 1, num)
           rest == SubSeq(q, num + 1, Len(q))
           rd == Skip(reader, num)
           c == [call EXCEPT !.got = @ \o passed, !.count = @ + num]
           r == Abs(call)
           ac == [r EXCEPT !.got = @ \o passed, !.count = @ + num]
<1>1. /\ call.at \in {"first", "write"} /\ num <= Buffered(reader)
      /\ \/ err # "nil" /\ Return(rd, c, c.got, c.count, err)
         \/ /\ err = "nil" /\ call.at = "first"
            /\ IF c.direct THEN Wait(rd, c, "direct")
               ELSE IF Buffered(rd) < Size THEN Fill(rd, c)
               ELSE WriteToLoop(rd, c)
         \/ err = "nil" /\ call.at = "write" /\ Fill(rd, c)
  BY Zenon DEF WriteBufTurn
<1>2. /\ Ordered(reader) /\ Gathers(call) /\ call.op = "WriteTo" /\ result = NoResult
      /\ Abs(call).op = "WriteTo" /\ call \in CallType
  BY <1>1, AtWrite DEF Gathers
<1>3. /\ q \in Seq(Item) /\ Len(q) = Buffered(reader) /\ Buffered(reader) \in Nat /\ num \in Nat
      /\ num \in 0 .. Buffered(reader) /\ Size \in Nat /\ Buffered(reader) <= Size
  BY <1>1, <1>2, UnreadIs, OrderedFields
<1>4. /\ Ordered(rd) /\ rd.err = reader.err /\ Buffered(rd) = Buffered(reader) - num
      /\ Unread(rd) = rest
  BY <1>2, <1>3, SkipIs
<1> HIDE DEF rd
<1>5. /\ Gathers(c) /\ c.op = "WriteTo" /\ Abs(c) = ac /\ c.prefix = FALSE
      /\ c.got = call.got \o passed /\ c.count = call.count + num
  <2> DEFINE got == call.got \o passed
             count == call.count + num
  <2>1. got \in Seq(Item) /\ count \in Nat
    <3>1. passed \in Seq(Item) /\ call.got \in Seq(Item) /\ call.count \in Nat
      <4>1. call.got \in Seq(Item) /\ call.count \in Nat
        BY <1>2 DEF CallType
      <4>2. passed \in Seq(Item)
        <5> HIDE DEF q
        <5> QED BY <1>3
      <4> QED BY <4>1, <4>2
    <3> HIDE DEF passed
    <3> QED BY <1>3, <3>1, ConcatProperties
  <2>2. c = [call EXCEPT !.got = got, !.count = count]
    BY <1>2 DEF CallType
  <2> DEFINE s == [op |-> call.op, n |-> call.n, delim |-> call.delim, got |-> got,
                   count |-> call.count]
             t == [op |-> call.op, n |-> call.n, delim |-> call.delim, got |-> got,
                   count |-> count]
  <2>3. r.got = call.got /\ r.count = call.count
    BY DEF Abs
  <2>4. ac = [r EXCEPT !.got = got, !.count = count]
    <3> HIDE DEF r
    <3> QED BY <2>3
  <2> HIDE DEF got, count, c, ac
  <2>5. /\ c \in CallType /\ c.op = call.op /\ c.n = call.n /\ c.delim = call.delim
        /\ c.got = got /\ c.count = count /\ c.prefix = call.prefix
    BY <1>2, <2>1, <2>2 DEF CallType
  <2>6. [r EXCEPT !.got = got] = s
    BY DEF Abs
  <2>7. [s EXCEPT !.count = count] = t
    OBVIOUS
  <2>8. Abs(c) = t
    BY <2>5 DEF Abs
  <2>9. Abs(c) = ac
    <3> HIDE DEF r, s, t
    <3>1. [r EXCEPT !.got = got, !.count = count] = [[r EXCEPT !.got = got] EXCEPT !.count = count]
      OBVIOUS
    <3> QED BY <2>4, <2>6, <2>7, <2>8, <3>1, Zenon
  <2>10. Gathers(c) /\ c.op = "WriteTo" /\ c.prefix = FALSE
    BY <1>2, <2>5 DEF Gathers
  <2> QED BY <2>5, <2>9, <2>10 DEF got, count
<1> HIDE DEF c
<1>6. Len(rest) = Len(q) - num /\ (rest = <<>> \/ Len(rest) > 0)
  <2> HIDE DEF q
  <2>1. rest \in Seq(Item) /\ Len(rest) = Len(q) - num
    BY <1>3
  <2> HIDE DEF rest
  <2> QED BY <2>1
<1>7. ac.got = c.got
  BY <1>5 DEF Abs
<1>8. ASSUME NEW k \in 0 .. Len(q), k = num, NEW e \in SinkErr,
             \/ e # "nil" /\ Promise!Returns(rest, reader.err, ac, ac.got, FALSE, e)
             \/ e = "nil" /\ Len(rest) < Size /\ Promise!GoesOn(rest, reader.err, ac)
             \/ /\ e = "nil" /\ Len(rest) = Size
                /\ Promise!Returns(rest, reader.err, ac, ac.got, FALSE, "full panic")
      PROVE  Promise!Next
  <2>1. Promise!Emit
    BY <1>2, <1>8, Zenon DEF Promise!Emit, Promise!After, Promise!First, Abs
  <2> QED BY <2>1 DEF Promise!Next
<1>9. ASSUME Promise!GoesOn(rest, reader.err, ac), err = "nil" PROVE [Promise!Next]_(Promise!vars)
  <2>1. CASE Len(rest) < Size
    BY <1>3, <1>8, <1>9, <2>1
  <2>2. CASE ~ (Len(rest) < Size)
    <3>1. num = 0
      BY <1>3, <1>6, <2>2
    <3>2. rest = q /\ passed = <<>>
      <4> HIDE DEF q
      <4>1. rest = SubSeq(q, 1, Len(q)) /\ passed = SubSeq(q, 1, 0)
        BY <3>1
      <4>2. SubSeq(q, 1, Len(q)) = q
        BY <1>3, SubSeqFull
      <4>3. SubSeq(q, 1, 0) = <<>>
        BY SubSeqEmpty
      <4> QED BY <4>1, <4>2, <4>3
    <3>3. call.got \o passed = call.got /\ call.count + num = call.count
      BY <1>2, <3>1, <3>2, ConcatEmptySeq DEF CallType
    <3>4. ac = Abs(call)
      <4>1. Abs(c) = Abs(call)
        <5>1. c.got = call.got /\ c.count = call.count
          BY <1>5, <3>3
        <5>2. c.n = call.n /\ c.delim = call.delim /\ c.op = call.op
          BY <1>2 DEF CallType, c
        <5> QED BY <5>1, <5>2 DEF Abs
      <4> QED BY <1>5, <4>1
    <3>5. result' = Promise!NoResult /\ result = Promise!NoResult
      BY <1>2, <1>9 DEF Promise!GoesOn, NoResult, Promise!NoResult
    <3>6. UNCHANGED Promise!vars
      BY <1>9, <3>2, <3>4, <3>5, Zenon DEF Promise!GoesOn, Promise!vars, Abs
    <3> QED BY <3>6
  <2> QED BY <2>1, <2>2
<1> HIDE DEF ac, rest, passed
<1>10. CASE err # "nil" /\ Return(rd, c, c.got, c.count, err)
  <2>1. Inv' /\ Promise!Returns(rest, reader.err, ac, ac.got, FALSE, err)
    BY <1>4, <1>5, <1>7, <1>10, ReturnStep
  <2> QED BY <1>3, <1>8, <1>10, <2>1
<1>11. CASE err = "nil" /\ Wait(rd, c, "direct")
  <2>1. Inv' /\ Promise!GoesOn(rest, reader.err, ac)
    BY <1>4, <1>5, <1>11, WriteWaitStep
  <2> QED BY <1>9, <1>11, <2>1
<1>12. CASE err = "nil" /\ Buffered(rd) < Size /\ Fill(rd, c)
  <2>1. Ready(rd, c)
    BY <1>4, <1>5 DEF Ready, Searched, SliceOp
  <2>2. Inv' /\ Promise!GoesOn(rest, reader.err, ac)
    BY <1>4, <1>5, <1>12, <2>1, FillStep
  <2> QED BY <1>9, <1>12, <2>2
<1>13. CASE err = "nil" /\ ~ (Buffered(rd) < Size) /\ WriteToLoop(rd, c)
  <2>1. Buffered(rd) > 0
    BY <1>3, <1>4, <1>13, ReaderAssumption
  <2>2. Wait(rd, c, "write")
    BY <1>13, <2>1 DEF WriteToLoop
  <2>3. Inv' /\ Promise!GoesOn(rest, reader.err, ac)
    BY <1>4, <1>5, <2>2, WriteWaitStep
  <2> QED BY <1>9, <1>13, <2>3
<1>14. CASE err = "nil" /\ ~ (Buffered(rd) < Size) /\ Fill(rd, c)
  <2> DEFINE s == Slid(rd)
             why == "full panic"
  <2>1. /\ Ordered(s) /\ s.w = Buffered(rd) /\ Unread(s) = rest /\ s.err = reader.err
    BY <1>4, SlidIs
  <2>2. s.w >= Size /\ Len(rest) = Size
    BY <1>3, <1>4, <1>6, <1>14, <2>1
  <2>3. Return(s, c, c.got, c.count, why)
    BY <1>14, <2>2, Zenon DEF Fill
  <2> HIDE DEF s, why
  <2>4. Inv' /\ Promise!Returns(rest, reader.err, ac, ac.got, FALSE, why)
    BY <1>5, <1>7, <2>1, <2>3, ReturnStep
  <2>5. num \in 0 .. Len(q)
    BY <1>3
  <2> HIDE DEF q
  <2> QED BY <1>8, <1>14, <2>2, <2>4, <2>5, Zenon DEF why
<1> QED BY <1>1, <1>10, <1>11, <1>12, <1>13, <1>14

LEMMA DirectTurnStep ==
  ASSUME Inv, NEW chunk \in Chunk, NEW err \in SinkErr, DirectTurn(chunk, err)
  PROVE  Inv' /\ [Promise!Next]_(Promise!vars)
<1> DEFINE c == [call EXCEPT !.count = @ + Len(chunk)]
<1>1. /\ Ordered(reader) /\ Gathers(call) /\ call \in CallType /\ call.op = "WriteTo"
      /\ Abs(call).op = "WriteTo"
      /\ Return(reader, call, call.got \o chunk, call.count + Len(chunk), err)
  BY AtWrite DEF DirectTurn, Gathers
<1> DEFINE count == call.count + Len(chunk)
<1>2. c = [call EXCEPT !.count = count]
  BY <1>1 DEF CallType
<1>3. [Abs(call) EXCEPT !.count = @ + Len(chunk)] = [Abs(call) EXCEPT !.count = count]
  BY DEF Abs
<1>4. Return(reader, call, call.got \o chunk, count, err)
  BY <1>1
<1> HIDE DEF count, c
<1>5. /\ c.op = call.op /\ c.n = call.n /\ c.delim = call.delim /\ c.got = call.got
      /\ c.count = count /\ c.prefix = FALSE /\ call.prefix = FALSE
  BY <1>1, <1>2 DEF CallType, Gathers
<1>6. Abs(c) = [Abs(call) EXCEPT !.count = count]
  <2>1. Abs(c) = [op |-> call.op, n |-> call.n, delim |-> call.delim, got |-> call.got, count |-> count]
    BY <1>5 DEF Abs
  <2> QED BY <2>1 DEF Abs
<1>7. Return(reader, c, call.got \o chunk, count, err)
  BY <1>4, <1>5 DEF Return
<1>8. Inv' /\ Promise!Returns(Unread(reader), reader.err, Abs(c), call.got \o chunk, FALSE, err)
  BY <1>1, <1>5, <1>7, ReturnStep
<1>9. Promise!Returns(Unread(reader), reader.err, [Abs(call) EXCEPT !.count = @ + Len(chunk)],
                      Abs(call).got \o chunk, FALSE, err)
  BY <1>3, <1>6, <1>8 DEF Abs
<1>10. Promise!Direct
  BY <1>1, <1>9, Zenon DEF Promise!Direct, Abs
<1> QED BY <1>8, <1>10 DEF Promise!Next

LEMMA TurnStep == ASSUME Inv, Turn PROVE Inv' /\ [Promise!Next]_(Promise!vars)
<1>1. ASSUME FillNegative PROVE Inv' /\ [Promise!Next]_(Promise!vars)
  <2> DEFINE err == "negative read"
  <2>1. call.at = "fill" /\ Return(reader, call, call.got, call.count, err) /\ err = "negative read"
    BY <1>1, Zenon DEF FillNegative
  <2> HIDE DEF err
  <2> QED BY <2>1, BreaksStep, Zenon
<1>2. ASSUME WriteBufNegative PROVE Inv' /\ [Promise!Next]_(Promise!vars)
  <2> DEFINE err == "negative write"
  <2>1. /\ call.at \in {"first", "write"} /\ Return(reader, call, call.got, call.count, err)
        /\ err = "negative write"
    BY <1>2, Zenon DEF WriteBufNegative
  <2> HIDE DEF err
  <2> QED BY <2>1, BreaksStep, Zenon
<1> QED BY <1>1, <1>2, FillTurnStep, WriteBufTurnStep, DirectTurnStep DEF Turn

-----------------------------------------------------------------------------
(* The calls.                                                              *)

(* c is a call that has only just begun.                                   *)
Begun(c, op, n, delim) ==
  /\ Abs(c) = Promise!Called(op, n, delim)
  /\ c.op = op /\ c.n = n /\ c.delim = delim /\ c.got = <<>> /\ c.count = 0 /\ c.prefix = FALSE

LEMMA CalledIs ==
  ASSUME NEW op, NEW n, NEW delim
  PROVE  /\ Called(op, n, delim).op = op /\ Called(op, n, delim).n = n
         /\ Called(op, n, delim).delim = delim /\ Called(op, n, delim).from = 0
         /\ Called(op, n, delim).got = <<>> /\ Called(op, n, delim).count = 0
         /\ Abs(Called(op, n, delim)) = Promise!Called(op, n, delim)
<1> DEFINE c == Called(op, n, delim)
           a == [op |-> "none", n |-> 0, delim |-> Zero, got |-> <<>>, count |-> 0]
           a1 == [op |-> op, n |-> 0, delim |-> Zero, got |-> <<>>, count |-> 0]
           a2 == [op |-> op, n |-> n, delim |-> Zero, got |-> <<>>, count |-> 0]
           a3 == [op |-> op, n |-> n, delim |-> delim, got |-> <<>>, count |-> 0]
<1>1. /\ c.op = op /\ c.n = n /\ c.delim = delim /\ c.from = 0 /\ c.got = <<>>
      /\ c.count = 0
  BY DEF Called, NoCall
<1>2. Promise!Called(op, n, delim) = [[[a EXCEPT !.op = op] EXCEPT !.n = n] EXCEPT !.delim = delim]
  BY DEF Promise!Called, Promise!NoCall
<1>3. [a EXCEPT !.op = op] = a1 /\ [a1 EXCEPT !.n = n] = a2 /\ [a2 EXCEPT !.delim = delim] = a3
  OBVIOUS
<1> HIDE DEF a, a1, a2, a3
<1>4. Promise!Called(op, n, delim) = a3
  BY <1>2, <1>3, Zenon
<1> HIDE DEF c
<1>5. Abs(c) = a3
  BY <1>1 DEF Abs, a3
<1> QED BY <1>1, <1>4, <1>5 DEF c

LEMMA CalledBegun ==
  ASSUME NEW op, NEW n, NEW delim
  PROVE  Begun(Called(op, n, delim), op, n, delim)
<1> DEFINE c == Called(op, n, delim)
<1>1. c.prefix = FALSE
  BY DEF Called, NoCall
<1>2. /\ Abs(c) = Promise!Called(op, n, delim)
      /\ c.op = op /\ c.n = n /\ c.delim = delim /\ c.got = <<>> /\ c.count = 0
  BY CalledIs
<1> HIDE DEF c
<1>3. Begun(c, op, n, delim)
  BY <1>1, <1>2 DEF Begun
<1> QED BY <1>3 DEF c

LEMMA CalledReady ==
  ASSUME NEW op \in Op, NEW n \in Int, NEW delim \in Item, NEW rd, Ordered(rd),
         op = "Peek" => n >= 0, op = "Discard" => n > 0
  PROVE  Ready(rd, Called(op, n, delim)) /\ Gathers(Called(op, n, delim))
<1> DEFINE c == Called(op, n, delim)
<1>1. /\ c.op = op /\ c.n = n /\ c.delim = delim /\ c.from = 0 /\ c.got = <<>> /\ c.count = 0
      /\ c.prefix = FALSE
  BY DEF Called, NoCall
<1>2. c \in CallType
  <2> DEFINE any == [op : Op \cup {"none"}, at : {"none", "fill", "first", "write", "direct"},
                     n : Int, delim : Item, from : Nat, empties : Nat, got : Seq(Item),
                     count : Nat, prefix : BOOLEAN, direct : BOOLEAN]
             c1 == [NoCall EXCEPT !.op = op]
             c2 == [c1 EXCEPT !.n = n]
  <2>1. NoCall \in any
    BY ReaderAssumption DEF NoCall
  <2>2. c = [c2 EXCEPT !.delim = delim]
    BY DEF Called
  <2>3. c1 \in CallType
    BY <2>1 DEF CallType
  <2> HIDE DEF any, c1, c
  <2>4. c2 \in CallType
    BY <2>3 DEF CallType
  <2> HIDE DEF c2
  <2> QED BY <2>2, <2>4 DEF CallType
<1> HIDE DEF c
<1>3. Gathers(c)
  BY <1>1, <1>2 DEF Gathers
<1>4. Searched(rd, c)
  <2>1. 1 .. c.from = {} /\ c.from <= Buffered(rd)
    BY <1>1, OrderedFields
  <2> QED BY <2>1 DEF Searched
<1> QED BY <1>1, <1>3, <1>4 DEF Ready, c

LEMMA SimplyReady ==
  ASSUME NEW op \in Op \ {"Peek", "Discard"}, NEW delim \in Item, NEW rd, Ordered(rd)
  PROVE  Ready(rd, Called(op, 0, delim)) /\ Gathers(Called(op, 0, delim))
BY CalledReady

(* The lists of calls that Lookahead allows.                               *)
LEMMA BeginIsNext ==
  /\ \A n \in Count : Promise!Begin("Peek", n, Zero) => Promise!Next
  /\ \A n \in Count : Promise!Begin("Discard", n, Zero) => Promise!Next
  /\ \A n \in Count : Promise!Read(n) => Promise!Next
  /\ \A delim \in Item : Promise!Begin("ReadSlice", 0, delim) => Promise!Next
  /\ \A delim \in Item : Promise!Begin("ReadItems", 0, delim) => Promise!Next
  /\ Promise!Begin("ReadItem", 0, Zero) => Promise!Next
  /\ Promise!Begin("ReadLine", 0, LineDelim) => Promise!Next
  /\ Promise!Begin("WriteTo", 0, Zero) => Promise!Next
BY Zenon DEF Promise!Next

(* No call is in progress.                                                 *)
LEMMA NoCallAbs == call = NoCall => Abs(call) = Promise!NoCall
BY DEF Abs, NoCall, Promise!NoCall

LEMMA BeginProceeds ==
  ASSUME call = NoCall, NEW op, NEW n, NEW delim, ~ (n < 0), op # "WriteTo",
         ~ (op = "Discard" /\ n > 0 /\ Unread(reader) = <<>>),
         Promise!Proceeds(Unread(reader), reader.err, Promise!Called(op, n, delim))
  PROVE  Promise!Begin(op, n, delim)
<1>1. Abs(call) = Promise!NoCall
  BY NoCallAbs
<1> QED BY <1>1, Zenon DEF Promise!Begin, Abs

LEMMA BeginGoesOn ==
  ASSUME call = NoCall, NEW op, NEW n, NEW delim, ~ (n < 0),
         op = "WriteTo" \/ (op = "Discard" /\ n > 0 /\ Unread(reader) = <<>>),
         Promise!GoesOn(Unread(reader), reader.err, Promise!Called(op, n, delim))
  PROVE  Promise!Begin(op, n, delim)
<1>1. Abs(call) = Promise!NoCall
  BY NoCallAbs
<1> QED BY <1>1, Zenon DEF Promise!Begin, Abs

NegativeCount == "negative count"

LEMMA BeginNegative ==
  ASSUME Inv, call = NoCall, NEW op, NEW n, NEW delim, n < 0,
         Return(reader, Called(op, n, delim), <<>>, 0, NegativeCount)
  PROVE  Inv' /\ Promise!Begin(op, n, delim)
<1> DEFINE c == Called(op, n, delim)
<1>1. Abs(c) = Promise!Called(op, n, delim) /\ c.count = 0 /\ c.prefix = FALSE
  <2>1. Begun(c, op, n, delim)
    BY CalledBegun, Zenon
  <2> HIDE DEF c
  <2> QED BY <2>1 DEF Begun
<1> HIDE DEF c
<1>2. Return(reader, c, <<>>, 0, NegativeCount) /\ Ordered(reader)
  BY DEF c, Inv
<1>3. Inv' /\ Promise!Returns(Unread(reader), reader.err, Abs(c), <<>>, FALSE, NegativeCount)
  BY <1>1, <1>2, ReturnStep
<1>4. Abs(call) = Promise!NoCall
  BY NoCallAbs
<1>5. Promise!Begin(op, n, delim)
  BY <1>1, <1>3, <1>4, Zenon DEF Promise!Begin, NegativeCount, Abs
<1> QED BY <1>3, <1>5

LEMMA ForgetIs ==
  ASSUME NEW rd, Ordered(rd)
  PROVE  /\ Ordered(Forget(rd)) /\ Unread(Forget(rd)) = Unread(rd) /\ Forget(rd).err = rd.err
         /\ Buffered(Forget(rd)) = Buffered(rd)
BY OtherFields DEF Forget

LEMMA NothingUnread ==
  ASSUME NEW rd, Ordered(rd)
  PROVE  Unread(rd) = <<>> <=> Buffered(rd) = 0
BY UnreadIs, OrderedFields

LEMMA CountType == Count \subseteq Int /\ Zero \in Item /\ LineDelim \in Item /\ 0 \in Int
BY ReaderAssumption, DelimAssumption

LEMMA PeekCall == ASSUME Inv, NEW n \in Count, Peek(n) PROVE Inv' /\ Promise!Next
<1> DEFINE c == Called("Peek", n, Zero)
           rd == Forget(reader)
<1>1. n \in Int /\ Zero \in Item /\ "Peek" \in Op /\ Ordered(reader) /\ call = NoCall
  BY CountType DEF Op, Inv, Peek
<1>2. CASE n < 0
  <2>1. Return(reader, Called("Peek", n, Zero), <<>>, 0, NegativeCount)
    BY <1>2, Zenon DEF Peek, NegativeCount
  <2>2. Inv' /\ Promise!Begin("Peek", n, Zero)
    BY <1>1, <1>2, <2>1, BeginNegative
  <2> QED BY <2>2, BeginIsNext
<1>3. CASE ~ (n < 0)
  <2>1. PeekLoop(rd, c)
    BY <1>3, Zenon DEF Peek
  <2>2. /\ Ordered(rd) /\ Unread(rd) = Unread(reader) /\ rd.err = reader.err
    BY <1>1, ForgetIs
  <2> HIDE DEF rd
  <2>3. Ready(rd, c)
    <3>1. n >= 0
      BY <1>1, <1>3
    <3>2. "Peek" # "Discard"
      OBVIOUS
    <3> QED BY <1>1, <2>2, <3>1, <3>2, CalledReady, Zenon
  <2>4. Abs(c) = Promise!Called("Peek", n, Zero) /\ c.op = "Peek"
    <3>1. Begun(c, "Peek", n, Zero)
      BY CalledBegun, Zenon
    <3> HIDE DEF c
    <3> QED BY <3>1 DEF Begun
  <2> HIDE DEF c
  <2>5. Inv' /\ Promise!Peeked(Unread(reader), reader.err, Abs(c))
    BY <2>1, <2>2, <2>3, <2>4, PeekStep
  <2>6. Abs(c).op = "Peek"
    BY <2>4 DEF Abs
  <2>7. Promise!Proceeds(Unread(reader), reader.err, Abs(c))
    BY <2>5, <2>6 DEF Promise!Proceeds
  <2>8. Promise!Begin("Peek", n, Zero)
    BY <1>1, <1>3, <2>4, <2>7, BeginProceeds
  <2> QED BY <2>5, <2>8, BeginIsNext
<1> QED BY <1>2, <1>3

LEMMA DiscardCall == ASSUME Inv, NEW n \in Count, Discard(n) PROVE Inv' /\ Promise!Next
<1> DEFINE c == Called("Discard", n, Zero)
           rd == Forget(reader)
           q == Unread(reader)
<1>1. /\ n \in Int /\ Zero \in Item /\ "Discard" \in Op /\ Ordered(reader) /\ call = NoCall
      /\ Buffered(reader) \in Nat /\ Size \in Nat /\ Size > 0
  BY CountType, OrderedFields DEF Op, Inv, Discard
<1>2. IF n < 0 THEN Return(reader, c, <<>>, 0, NegativeCount)
      ELSE IF n = 0 THEN Return(reader, c, <<>>, 0, "nil")
      ELSE IF Buffered(reader) = 0 THEN Fill(rd, c)
      ELSE DiscardSkip(rd, c)
  BY Zenon DEF Discard, NegativeCount
<1>3. /\ Abs(c) = Promise!Called("Discard", n, Zero) /\ c.op = "Discard" /\ c.n = n /\ c.count = 0
      /\ c.prefix = FALSE /\ c.got = <<>> /\ c.delim = Zero
  <2>1. Begun(c, "Discard", n, Zero)
    BY CalledBegun, Zenon
  <2> HIDE DEF c
  <2> QED BY <2>1 DEF Begun
<1>4. /\ Ordered(rd) /\ Unread(rd) = q /\ rd.err = reader.err /\ Buffered(rd) = Buffered(reader)
  BY <1>1, ForgetIs
<1>5. q \in Seq(Item) /\ Len(q) = Buffered(reader)
  BY <1>1, UnreadIs
<1>6. CASE n < 0
  <2>1. Inv' /\ Promise!Begin("Discard", n, Zero)
    BY <1>1, <1>2, <1>6, BeginNegative
  <2> QED BY <2>1, BeginIsNext
<1>7. CASE n = 0
  <2>1. Return(reader, c, <<>>, 0, "nil")
    BY <1>2, <1>7
  <2> DEFINE skip == Promise!Shorter(Abs(c).n, q)
             d == [Abs(c) EXCEPT !.n = @ - skip, !.count = @ + skip]
  <2>2. Abs(c).n = 0 /\ Abs(c).count = 0 /\ Abs(c).op = "Discard"
    BY <1>3, <1>7 DEF Abs
  <2>3. skip = 0
    BY <1>1, <1>5, <2>2 DEF Promise!Shorter
  <2> HIDE DEF c
  <2>4. d = Abs(c)
    <3> HIDE DEF skip
    <3>1. [Abs(c) EXCEPT !.n = 0, !.count = 0] = Abs(c)
      <4>1. Abs(c) = [op |-> c.op, n |-> 0, delim |-> c.delim, got |-> c.got, count |-> 0]
        BY <2>2 DEF Abs
      <4> QED BY <4>1, AbsExcept
    <3>2. Abs(c).n - skip = 0 /\ Abs(c).count + skip = 0
      BY <2>2, <2>3
    <3> QED BY <3>1, <3>2
  <2>5. Promise!After(skip, q) = q
    BY <1>5, <2>3, SubSeqFull DEF Promise!After
  <2> HIDE DEF q
  <2>6. Inv' /\ Promise!Returns(q, reader.err, Abs(c), <<>>, FALSE, "nil")
    BY <1>1, <1>3, <2>1, ReturnStep DEF q
  <2> HIDE DEF skip, d
  <2>7. Promise!Discarded(q, reader.err, Abs(c))
    BY <2>2, <2>4, <2>5, <2>6, Zenon DEF Promise!Discarded, skip, d
  <2>8. Promise!Proceeds(Unread(reader), reader.err, Abs(c))
    BY <2>2, <2>7 DEF Promise!Proceeds, q
  <2>9. Promise!Begin("Discard", n, Zero)
    BY <1>1, <1>3, <1>7, <2>8, BeginProceeds
  <2> QED BY <2>6, <2>9, BeginIsNext
<1>8. CASE ~ (n < 0) /\ n # 0
  <2>1. n > 0
    BY <1>1, <1>8
  <2>2. Ready(rd, c) /\ Gathers(c)
    <3> HIDE DEF rd
    <3> QED BY <1>1, <1>4, <2>1, CalledReady, Zenon
  <2> HIDE DEF c, rd
  <2>3. CASE Buffered(reader) = 0
    <3>1. Fill(rd, c) /\ Buffered(rd) < Size /\ Buffered(rd) = 0
      BY <1>1, <1>2, <1>4, <1>8, <2>3
    <3>2. Inv' /\ Promise!GoesOn(q, reader.err, Abs(c))
      BY <1>3, <1>4, <2>2, <3>1, FillStep
    <3>3. q = <<>>
      BY <1>5, <2>3
    <3>4. Promise!Begin("Discard", n, Zero)
      BY <1>1, <1>3, <1>8, <2>1, <3>2, <3>3, BeginGoesOn
    <3> QED BY <3>2, <3>4, BeginIsNext
  <2>4. CASE Buffered(reader) # 0
    <3>1. DiscardSkip(rd, c)
      BY <1>2, <1>8, <2>4
    <3>2. Inv' /\ Promise!Discarded(q, reader.err, Abs(c))
      BY <1>3, <1>4, <2>2, <3>1, DiscardStep
    <3>3. q # <<>>
      BY <1>5, <2>4
    <3>4. Abs(c).op = "Discard"
      BY <1>3 DEF Abs
    <3>5. Promise!Proceeds(q, reader.err, Abs(c))
      BY <3>2, <3>4 DEF Promise!Proceeds
    <3>6. Promise!Begin("Discard", n, Zero)
      BY <1>1, <1>3, <1>8, <3>3, <3>5, BeginProceeds
    <3> QED BY <3>2, <3>6, BeginIsNext
  <2> QED BY <2>3, <2>4
<1> QED BY <1>6, <1>7, <1>8

LEMMA ReadItemCall == ASSUME Inv, ReadItem PROVE Inv' /\ Promise!Next
<1> DEFINE c == Called("ReadItem", 0, Zero)
<1>1. /\ Zero \in Item /\ "ReadItem" \in Op /\ Ordered(reader) /\ call = NoCall
      /\ ReadItemLoop(reader, c)
  BY CountType DEF Op, Inv, ReadItem
<1>2. Ready(reader, c) /\ c.op = "ReadItem" /\ Abs(c) = Promise!Called("ReadItem", 0, Zero)
  <2>1. Ready(reader, c)
    <3>1. "ReadItem" \in Op \ {"Peek", "Discard"}
      BY <1>1
    <3> QED BY <1>1, <3>1, SimplyReady, Zenon
  <2>2. Begun(c, "ReadItem", 0, Zero)
    BY CalledBegun, Zenon
  <2> HIDE DEF c
  <2> QED BY <2>1, <2>2 DEF Begun
<1> HIDE DEF c
<1>3. Inv' /\ Promise!ItemRead(Unread(reader), reader.err, Abs(c))
  BY <1>1, <1>2, ItemStep
<1>4. Abs(c).op = "ReadItem"
  BY <1>2 DEF Abs
<1>5. Promise!Proceeds(Unread(reader), reader.err, Abs(c))
  BY <1>3, <1>4 DEF Promise!Proceeds
<1>6. Promise!Begin("ReadItem", 0, Zero)
  BY <1>1, <1>2, <1>5, BeginProceeds
<1> QED BY <1>3, <1>6, BeginIsNext

LEMMA ReadUntilCall ==
  ASSUME Inv, NEW op \in SliceOp, NEW delim \in Item, ReadUntil(op, delim)
  PROVE  Inv' /\ Promise!Begin(op, 0, delim)
<1> DEFINE c == Called(op, 0, delim)
<1>1. op \in Op /\ Ordered(reader) /\ call = NoCall /\ op # "Peek" /\ op # "Discard" /\ op # "WriteTo"
  BY DEF Op, SliceOp, Inv, ReadUntil
<1>2. SliceLoop(reader, c, SliceEnd)
  BY Zenon DEF ReadUntil
<1>3. Ready(reader, c) /\ c.op = op /\ Abs(c) = Promise!Called(op, 0, delim)
  <2>1. Ready(reader, c)
    <3>1. op \in Op \ {"Peek", "Discard"}
      BY <1>1
    <3> QED BY <1>1, <3>1, SimplyReady, Zenon
  <2>2. Begun(c, op, 0, delim)
    BY CalledBegun, Zenon
  <2> HIDE DEF c
  <2> QED BY <2>1, <2>2 DEF Begun
<1> HIDE DEF c
<1>4. Inv' /\ Promise!Delimited(Unread(reader), reader.err, Abs(c))
  BY <1>2, <1>3, SliceStep
<1>5. Abs(c).op \in SliceOp
  BY <1>3 DEF Abs
<1>6. Promise!Proceeds(Unread(reader), reader.err, Abs(c))
  BY <1>4, <1>5 DEF Promise!Proceeds, SliceOp
<1>7. Promise!Begin(op, 0, delim)
  BY <1>1, <1>3, <1>6, BeginProceeds
<1> QED BY <1>4, <1>7

LEMMA WriteToCall ==
  ASSUME Inv, NEW direct \in BOOLEAN, WriteTo(direct) PROVE Inv' /\ Promise!Next
<1> DEFINE c == Called("WriteTo", 0, Zero)
           d == [c EXCEPT !.direct = direct]
           rd == Forget(reader)
<1>1. Zero \in Item /\ "WriteTo" \in Op /\ Ordered(reader) /\ call = NoCall
  BY CountType DEF Op, Inv, WriteTo
<1>2. Wait(rd, d, "first")
  BY DEF WriteTo
<1>3. Ordered(rd) /\ Unread(rd) = Unread(reader) /\ rd.err = reader.err
  BY <1>1, ForgetIs
<1>4. Gathers(c) /\ c.op = "WriteTo" /\ Abs(c) = Promise!Called("WriteTo", 0, Zero)
  <2>1. Gathers(c)
    <3>1. "WriteTo" \in Op \ {"Peek", "Discard"}
      BY <1>1
    <3> QED BY <1>1, <3>1, SimplyReady, Zenon
  <2>2. Begun(c, "WriteTo", 0, Zero)
    BY CalledBegun, Zenon
  <2> HIDE DEF c
  <2> QED BY <2>1, <2>2 DEF Begun
<1> HIDE DEF c, rd
<1>5. Gathers(d) /\ d.op = "WriteTo" /\ Abs(d) = Abs(c)
  <2>1. c \in CallType
    BY <1>4 DEF Gathers
  <2>2. /\ d \in CallType /\ d.op = c.op /\ d.n = c.n /\ d.delim = c.delim /\ d.got = c.got
        /\ d.count = c.count /\ d.prefix = c.prefix
    BY <2>1 DEF CallType
  <2> HIDE DEF d
  <2> QED BY <1>4, <2>2 DEF Gathers, Abs
<1> HIDE DEF d
<1>6. Inv' /\ Promise!GoesOn(Unread(reader), reader.err, Abs(c))
  BY <1>2, <1>3, <1>5, WriteWaitStep
<1>7. Promise!Begin("WriteTo", 0, Zero)
  BY <1>1, <1>4, <1>6, BeginGoesOn
<1> QED BY <1>6, <1>7, BeginIsNext

-----------------------------------------------------------------------------
(* Read, UnreadItem and Reset.                                             *)

LEMMA CopyStep ==
  ASSUME NEW rd, Ordered(rd), NEW c, NEW k \in Nat, Begun(c, "Read", k, Zero), CopyOut(rd, c),
         NEW q, q = Unread(rd), NEW m, m = Promise!Shorter(k, q)
  PROVE  Inv' /\ Promise!Returns(Promise!After(m, q), rd.err, Abs(c), Promise!First(m, q), FALSE, "nil")
<1> DEFINE s == Skip(rd, m)
           f == [s EXCEPT !.last = TRUE]
<1>1. c.n = k /\ c.count = 0 /\ c.prefix = FALSE
  BY DEF Begun
<1>2. q \in Seq(Item) /\ Len(q) = Buffered(rd) /\ Buffered(rd) \in Nat
  BY UnreadIs, OrderedFields
<1>3. m = Smaller(c.n, Buffered(rd)) /\ m \in 0 .. Buffered(rd)
  BY <1>1, <1>2 DEF Smaller, Promise!Shorter
<1>4. Return(f, c, SubSeq(q, 1, m), 0, "nil")
  BY <1>3 DEF CopyOut
<1>5. Ordered(s) /\ s.err = rd.err /\ Unread(s) = SubSeq(q, m + 1, Len(q))
  BY <1>3, SkipIs
<1> HIDE DEF s
<1>6. Ordered(f) /\ f.err = rd.err /\ Unread(f) = SubSeq(q, m + 1, Len(q))
  BY <1>5, OtherFields
<1> HIDE DEF f
<1>7. Inv' /\ Promise!Returns(SubSeq(q, m + 1, Len(q)), rd.err, Abs(c), SubSeq(q, 1, m), FALSE, "nil")
  BY <1>1, <1>4, <1>6, ReturnStep
<1> QED BY <1>7 DEF Promise!After, Promise!First

NegativeRead == "negative read"

(* Lookahead's ways to answer Read.                                        *)
LEMMA ReadNow ==
  ASSUME call = NoCall, NEW k \in Int, k >= 0, NEW c, Begun(c, "Read", k, Zero),
         NEW q, q = Unread(reader), NEW e, e = reader.err,
         \/ /\ q # <<>>
            /\ Promise!Returns(Promise!After(Promise!Shorter(k, q), q), e, Abs(c),
                               Promise!First(Promise!Shorter(k, q), q), FALSE, "nil")
         \/ q = <<>> /\ (k = 0 \/ e # "nil") /\ Promise!Returns(q, "nil", Abs(c), <<>>, FALSE, e)
  PROVE  Promise!Read(k)
<1>1. Abs(call) = Promise!NoCall /\ Abs(c) = Promise!Called("Read", k, Zero)
  BY NoCallAbs DEF Begun
<1> QED BY <1>1, Zenon DEF Promise!Read, Abs

LEMMA ReadMore ==
  ASSUME call = NoCall, NEW k \in Int, k >= 0, k > 0, NEW c, Begun(c, "Read", k, Zero),
         Unread(reader) = <<>>, reader.err = "nil", NEW chunk \in Chunk, NEW err \in SourceErr,
         \/ /\ Len(chunk) <= k /\ (k >= Size \/ chunk = <<>>)
            /\ Promise!Returns(<<>>, "nil", Abs(c), chunk, FALSE, err)
         \/ /\ k < Size /\ Len(chunk) \in 1 .. Size
            /\ Promise!Returns(Promise!After(Promise!Shorter(k, chunk), chunk), err, Abs(c),
                               Promise!First(Promise!Shorter(k, chunk), chunk), FALSE, "nil")
         \/ chunk = <<>> /\ Promise!Returns(<<>>, err, Abs(c), <<>>, FALSE, NegativeRead)
  PROVE  Promise!Read(k)
<1>1. Abs(call) = Promise!NoCall /\ Abs(c) = Promise!Called("Read", k, Zero)
  BY NoCallAbs DEF Begun
<1> QED BY <1>1, Zenon DEF Promise!Read, Abs, NegativeRead

LEMMA ReadCall == ASSUME Inv, NEW k \in Count, Read(k) PROVE Inv' /\ Promise!Next
<1> DEFINE c == Called("Read", k, Zero)
           q == Unread(reader)
<1>1. k \in Int /\ k >= 0 /\ Ordered(reader) /\ call = NoCall
  BY CountType DEF Inv, Read
<1>2. Begun(c, "Read", k, Zero)
  BY CalledBegun, Zenon
<1>3. \/ k = 0 /\ Buffered(reader) > 0 /\ Return(reader, c, <<>>, 0, "nil")
      \/ /\ Buffered(reader) = 0 /\ (k = 0 \/ reader.err # "nil")
         /\ Return(ErrRead(reader), c, <<>>, 0, reader.err)
      \/ k > 0 /\ Buffered(reader) > 0 /\ CopyOut(reader, c)
  BY Zenon DEF Read
<1>4. q \in Seq(Item) /\ Len(q) = Buffered(reader) /\ Buffered(reader) \in Nat
  BY <1>1, UnreadIs, OrderedFields
<1> HIDE DEF c
<1>5. c.count = 0 /\ c.prefix = FALSE
  BY <1>2 DEF Begun
<1>6. CASE k = 0 /\ Buffered(reader) > 0 /\ Return(reader, c, <<>>, 0, "nil")
  <2>1. Inv' /\ Promise!Returns(q, reader.err, Abs(c), <<>>, FALSE, "nil")
    BY <1>1, <1>5, <1>6, ReturnStep
  <2>2. q # <<>>
    BY <1>4, <1>6
  <2> HIDE DEF q
  <2>3. Promise!Shorter(k, q) = 0
    BY <1>4, <1>6 DEF Promise!Shorter
  <2>4. Promise!After(0, q) = q /\ Promise!First(0, q) = <<>>
    BY <1>4, SubSeqFull DEF Promise!After, Promise!First
  <2>5. Promise!Returns(Promise!After(Promise!Shorter(k, q), q), reader.err, Abs(c),
                        Promise!First(Promise!Shorter(k, q), q), FALSE, "nil")
    BY <2>1, <2>3, <2>4
  <2>6. Promise!Read(k)
    BY <1>1, <1>2, <2>2, <2>5, ReadNow DEF q
  <2> QED BY <2>1, <2>6, BeginIsNext
<1>7. CASE /\ Buffered(reader) = 0 /\ (k = 0 \/ reader.err # "nil")
           /\ Return(ErrRead(reader), c, <<>>, 0, reader.err)
  <2>1. /\ Ordered(ErrRead(reader)) /\ Unread(ErrRead(reader)) = q /\ ErrRead(reader).err = "nil"
    BY <1>1, ErrReadIs
  <2>2. Inv' /\ Promise!Returns(q, "nil", Abs(c), <<>>, FALSE, reader.err)
    BY <1>5, <1>7, <2>1, ReturnStep
  <2>3. q = <<>>
    BY <1>4, <1>7
  <2>4. Promise!Read(k)
    BY <1>1, <1>2, <1>7, <2>2, <2>3, ReadNow
  <2> QED BY <2>2, <2>4, BeginIsNext
<1>8. CASE k > 0 /\ Buffered(reader) > 0 /\ CopyOut(reader, c)
  <2>1. k \in Nat
    BY <1>1
  <2>2. Inv' /\ Promise!Returns(Promise!After(Promise!Shorter(k, q), q), reader.err, Abs(c),
                                Promise!First(Promise!Shorter(k, q), q), FALSE, "nil")
    BY <1>1, <1>2, <1>8, <2>1, CopyStep
  <2>3. q # <<>>
    BY <1>4, <1>8
  <2>4. Promise!Read(k)
    BY <1>1, <1>2, <2>2, <2>3, ReadNow
  <2> QED BY <2>2, <2>4, BeginIsNext
<1> QED BY <1>3, <1>6, <1>7, <1>8

(* An empty buffer that starts again at its beginning.                     *)
LEMMA EmptiedIs ==
  ASSUME NEW rd, Ordered(rd)
  PROVE  /\ Ordered([rd EXCEPT !.r = 0, !.w = 0]) /\ Unread([rd EXCEPT !.r = 0, !.w = 0]) = <<>>
         /\ [rd EXCEPT !.r = 0, !.w = 0].err = rd.err /\ [rd EXCEPT !.r = 0, !.w = 0].w = 0
<1> DEFINE z == [rd EXCEPT !.r = 0, !.w = 0]
<1>1. rd \in ReaderType /\ 0 \in 0 .. Size
  BY OrderedFields
<1>2. z \in ReaderType /\ z.r = 0 /\ z.w = 0 /\ z.err = rd.err
  BY <1>1 DEF ReaderType
<1> HIDE DEF z
<1>3. Ordered(z) /\ Buffered(z) = 0
  BY <1>2 DEF Ordered, Buffered
<1>4. Unread(z) = <<>>
  BY <1>3, NothingUnread
<1> QED BY <1>2, <1>3, <1>4 DEF z

LEMMA ReadThroughCall ==
  ASSUME Inv, NEW k \in Count, NEW chunk \in Chunk, NEW err \in SourceErr, ReadThrough(k, chunk, err)
  PROVE  Inv' /\ Promise!Next
<1> DEFINE c == Called("Read", k, Zero)
           z == [reader EXCEPT !.r = 0, !.w = 0]
           s == Stored(z, chunk)
           rd == [s EXCEPT !.err = err]
<1>1. /\ k \in Int /\ k > 0 /\ k >= 0 /\ Ordered(reader) /\ call = NoCall /\ reader.err = "nil"
      /\ Buffered(reader) = 0 /\ chunk \in Seq(Item) /\ Len(chunk) \in Nat
  BY CountType, ChunkType DEF Inv, ReadThrough
<1>2. Begun(c, "Read", k, Zero)
  BY CalledBegun, Zenon
<1>3. \/ k >= Size /\ Len(chunk) <= k /\ Return(Remember(reader, chunk), c, chunk, 0, err)
      \/ k < Size /\ chunk = <<>> /\ Return(ErrRead(rd), c, <<>>, 0, err)
      \/ k < Size /\ Len(chunk) \in 1 .. Size /\ CopyOut(rd, c)
  BY Zenon DEF ReadThrough, Remember
<1>4. Unread(reader) = <<>>
  BY <1>1, NothingUnread
<1> HIDE DEF c
<1>5. c.count = 0 /\ c.prefix = FALSE
  BY <1>2 DEF Begun
<1>6. CASE k >= Size /\ Len(chunk) <= k /\ Return(Remember(reader, chunk), c, chunk, 0, err)
  <2> DEFINE a == Remember(reader, chunk)
  <2>1. Ordered(a) /\ Unread(a) = <<>> /\ a.err = "nil"
    BY <1>1, <1>4, RememberIs
  <2> HIDE DEF a
  <2>2. Return(a, c, chunk, 0, err)
    BY <1>6 DEF a
  <2>3. Inv' /\ Promise!Returns(<<>>, "nil", Abs(c), chunk, FALSE, err)
    BY <1>5, <2>1, <2>2, ReturnStep
  <2>4. Promise!Read(k)
    BY <1>1, <1>2, <1>4, <1>6, <2>3, ReadMore
  <2> QED BY <2>3, <2>4, BeginIsNext
<1>7. ASSUME Len(chunk) <= Size
      PROVE  Ordered(rd) /\ Unread(rd) = chunk /\ rd.err = err
  <2>1. Ordered(z) /\ Unread(z) = <<>> /\ z.w = 0
    BY <1>1, EmptiedIs
  <2> HIDE DEF z
  <2>2. Len(chunk) <= Size - z.w
    BY <1>1, <1>7, <2>1, ReaderAssumption
  <2>3. Ordered(s) /\ Unread(s) = <<>> \o chunk
    BY <1>1, <2>1, <2>2, StoredIs
  <2>4. <<>> \o chunk = chunk
    BY <1>1
  <2> HIDE DEF s
  <2> QED BY <2>3, <2>4, OtherFields
<1> HIDE DEF rd
<1>8. CASE k < Size /\ chunk = <<>> /\ Return(ErrRead(rd), c, <<>>, 0, err)
  <2>1. Len(chunk) = 0 /\ Len(chunk) <= Size /\ Len(chunk) <= k
    BY <1>1, <1>8, ReaderAssumption
  <2> DEFINE a == ErrRead(rd)
  <2>2. Ordered(a) /\ Unread(a) = <<>> /\ a.err = "nil"
    BY <1>7, <1>8, <2>1, ErrReadIs
  <2> HIDE DEF a
  <2>3. Return(a, c, chunk, 0, err)
    BY <1>8 DEF a
  <2>4. Inv' /\ Promise!Returns(<<>>, "nil", Abs(c), chunk, FALSE, err)
    BY <1>5, <2>2, <2>3, ReturnStep
  <2>5. Promise!Read(k)
    BY <1>1, <1>2, <1>4, <1>8, <2>1, <2>4, ReadMore
  <2> QED BY <2>4, <2>5, BeginIsNext
<1>9. CASE k < Size /\ Len(chunk) \in 1 .. Size /\ CopyOut(rd, c)
  <2>1. Len(chunk) <= Size /\ k \in Nat
    BY <1>1, <1>9, ReaderAssumption
  <2>2. Ordered(rd) /\ Unread(rd) = chunk /\ rd.err = err
    BY <1>7, <2>1
  <2>3. Inv' /\ Promise!Returns(Promise!After(Promise!Shorter(k, chunk), chunk), err, Abs(c),
                                Promise!First(Promise!Shorter(k, chunk), chunk), FALSE, "nil")
    BY <1>2, <1>9, <2>1, <2>2, CopyStep
  <2>4. Promise!Read(k)
    BY <1>1, <1>2, <1>4, <1>9, <2>3, ReadMore
  <2> QED BY <2>3, <2>4, BeginIsNext
<1> QED BY <1>3, <1>6, <1>8, <1>9

LEMMA ReadNegativeCall ==
  ASSUME Inv, NEW k \in Count, NEW err \in SourceErr, ReadNegative(k, err)
  PROVE  Inv' /\ Promise!Next
<1> DEFINE c == Called("Read", k, Zero)
           z == [reader EXCEPT !.r = 0, !.w = 0]
           a == IF k >= Size THEN reader ELSE z
           rd == [a EXCEPT !.err = err]
<1>1. k > 0 /\ Ordered(reader) /\ call = NoCall /\ reader.err = "nil" /\ Buffered(reader) = 0
  BY Zenon DEF Inv, ReadNegative
<1>2. k \in Int /\ k >= 0
  BY <1>1, CountType
<1>3. Begun(c, "Read", k, Zero)
  BY CalledBegun, Zenon
<1>4. Return(rd, c, <<>>, 0, NegativeRead)
  BY Zenon DEF ReadNegative, NegativeRead
<1>5. Unread(reader) = <<>>
  BY <1>1, NothingUnread
<1> HIDE DEF c
<1>6. c.count = 0 /\ c.prefix = FALSE
  BY <1>3 DEF Begun
<1>7. Ordered(a) /\ Unread(a) = <<>>
  <2>1. Ordered(z) /\ Unread(z) = <<>>
    BY <1>1, EmptiedIs
  <2> HIDE DEF z
  <2> QED BY <1>1, <1>5, <2>1
<1> HIDE DEF a
<1>8. Ordered(rd) /\ Unread(rd) = <<>> /\ rd.err = err
  BY <1>7, OtherFields
<1> HIDE DEF rd
<1>9. Inv' /\ Promise!Returns(<<>>, err, Abs(c), <<>>, FALSE, NegativeRead)
  BY <1>4, <1>6, <1>8, ReturnStep
<1>10. <<>> \in Chunk
  BY ChunkType
<1>11. Promise!Read(k)
  <2> DEFINE chunk == <<>>
  <2>1. chunk \in Chunk /\ chunk = <<>>
    BY <1>10
  <2> HIDE DEF chunk
  <2> QED BY <1>1, <1>2, <1>3, <1>5, <1>9, <2>1, ReadMore
<1> QED BY <1>9, <1>11, BeginIsNext

(* Stepping back brings one more item, whatever was there.                 *)
LEMMA OneBack ==
  ASSUME NEW rd, Ordered(rd), NEW a, Ordered(a), a.buf = rd.buf, Buffered(a) = Buffered(rd) + 1,
         a.r + 1 = rd.r \/ Buffered(rd) = 0
  PROVE  Len(Unread(rd)) < Size /\ \E x \in Item : Unread(a) = <<x>> \o Unread(rd)
<1> DEFINE q == Unread(rd)
           t == Unread(a)
           x == t[1]
<1>1. /\ q \in Seq(Item) /\ Len(q) = Buffered(rd)
      /\ \A i \in 1 .. Buffered(rd) : q[i] = rd.buf[rd.r + i]
  BY UnreadIs
<1>2. /\ t \in Seq(Item) /\ Len(t) = Buffered(a)
      /\ \A i \in 1 .. Buffered(a) : t[i] = a.buf[a.r + i]
  BY UnreadIs
<1>3. /\ Buffered(rd) \in Nat /\ Buffered(a) \in Nat /\ rd.r \in Nat /\ a.r \in Nat /\ a.w \in Nat
      /\ a.w <= Size /\ Buffered(a) = a.w - a.r /\ Size \in Nat
  BY OrderedFields
<1>4. Len(q) < Size
  BY <1>1, <1>3
<1> HIDE DEF q, t
<1>5. x \in Item
  BY <1>2, <1>3
<1> HIDE DEF x
<1>6. /\ <<x>> \o q \in Seq(Item) /\ Len(<<x>> \o q) = Len(q) + 1
      /\ (<<x>> \o q)[1] = x /\ \A i \in 1 .. Len(q) : (<<x>> \o q)[i + 1] = q[i]
  <2>1. <<x>> \in Seq(Item) /\ Len(<<x>>) = 1 /\ <<x>>[1] = x
    BY <1>5
  <2> QED BY <1>1, <2>1
<1>7. \A i \in 1 .. Len(t) : t[i] = (<<x>> \o q)[i]
  <2> TAKE i \in 1 .. Len(t)
  <2>1. CASE i = 1
    BY <1>6, <2>1 DEF x
  <2>2. CASE i # 1
    <3> DEFINE j == i - 1
    <3>1. j \in 1 .. Len(q) /\ i = j + 1 /\ i \in 1 .. Buffered(a) /\ j \in 1 .. Buffered(rd)
      BY <1>1, <1>2, <1>3, <2>2
    <3>2. Buffered(rd) # 0 /\ i \in Int /\ j \in Int
      BY <1>3, <3>1
    <3> HIDE DEF j
    <3>3. a.r + i = rd.r + j
      <4>1. a.r + 1 = rd.r
        BY <3>2
      <4>2. a.r \in Int /\ rd.r \in Int /\ i = j + 1
        BY <1>3, <3>1
      <4> QED BY <3>2, <4>1, <4>2
    <3>4. t[i] = a.buf[a.r + i] /\ q[j] = rd.buf[rd.r + j]
      BY <1>1, <1>2, <3>1
    <3>5. (<<x>> \o q)[j + 1] = q[j]
      BY <1>6, <3>1
    <3> QED BY <3>1, <3>3, <3>4, <3>5
  <2> QED BY <2>1, <2>2
<1>8. Len(t) = Len(<<x>> \o q)
  BY <1>1, <1>2, <1>6
<1>9. t = <<x>> \o q
  BY <1>2, <1>6, <1>7, <1>8, SeqEqual
<1> QED BY <1>4, <1>5, <1>9 DEF q, t

InvalidUse == "invalid use"
NilPointer == "nil pointer"

LEMMA UnreadItemCall == ASSUME Inv, UnreadItem PROVE Inv' /\ Promise!Next
<1> DEFINE c == Called("UnreadItem", 0, Zero)
           a == IF reader.r > 0 THEN Skip(reader, -1) ELSE [reader EXCEPT !.w = 1]
<1>1. Ordered(reader) /\ call = NoCall /\ Abs(call) = Promise!NoCall
  BY NoCallAbs DEF Inv, UnreadItem
<1>2. Begun(c, "UnreadItem", 0, Zero)
  BY CalledBegun, Zenon
<1>3. IF reader.last \/ (reader.r = 0 /\ reader.w > 0) THEN Return(reader, c, <<>>, 0, InvalidUse)
      ELSE Return(a, c, <<>>, 0, NilPointer)
  BY Zenon DEF UnreadItem, InvalidUse, NilPointer
<1> HIDE DEF c
<1>4. c.count = 0 /\ c.prefix = FALSE /\ Abs(c) = Promise!Called("UnreadItem", 0, Zero)
  BY <1>2 DEF Begun
<1>5. CASE Return(reader, c, <<>>, 0, InvalidUse)
  <2>1. Inv' /\ Promise!Returns(Unread(reader), reader.err, Abs(c), <<>>, FALSE, InvalidUse)
    BY <1>1, <1>4, <1>5, ReturnStep
  <2>2. Promise!UnreadItem
    BY <1>1, <1>4, <2>1, Zenon DEF Promise!UnreadItem, InvalidUse, Abs
  <2> QED BY <2>1, <2>2, Zenon DEF Promise!Next
<1>6. CASE ~ (reader.r = 0 /\ reader.w > 0) /\ Return(a, c, <<>>, 0, NilPointer)
  <2>1. /\ reader \in ReaderType /\ reader.r \in Nat /\ reader.w \in Nat /\ reader.w <= Size
        /\ reader.r <= reader.w /\ Size \in Nat /\ Size > 0
    BY <1>1, OrderedFields
  <2>2. /\ a \in ReaderType /\ a.buf = reader.buf /\ a.err = reader.err /\ a.r <= a.w
        /\ a.w - a.r = reader.w - reader.r + 1 /\ (a.r + 1 = reader.r \/ reader.w - reader.r = 0)
    <3>1. CASE reader.r > 0
      <4> DEFINE r == reader.r + (-1)
      <4>1. r \in 0 .. Size /\ r <= reader.w /\ reader.w - r = reader.w - reader.r + 1 /\ r + 1 = reader.r
        BY <2>1, <3>1
      <4>2. a = [reader EXCEPT !.r = r]
        BY <3>1 DEF Skip
      <4> HIDE DEF r, a
      <4>3. /\ a \in ReaderType /\ a.buf = reader.buf /\ a.err = reader.err /\ a.r = r
            /\ a.w = reader.w
        BY <2>1, <4>1, <4>2 DEF ReaderType
      <4> QED BY <4>1, <4>3
    <3>2. CASE ~ (reader.r > 0)
      <4>1. reader.r = 0 /\ reader.w = 0 /\ 1 \in 0 .. Size
        BY <1>6, <2>1, <3>2
      <4>2. a = [reader EXCEPT !.w = 1]
        BY <3>2
      <4> HIDE DEF a
      <4>3. /\ a \in ReaderType /\ a.buf = reader.buf /\ a.err = reader.err /\ a.r = 0
            /\ a.w = 1
        BY <2>1, <4>1, <4>2 DEF ReaderType
      <4> QED BY <4>1, <4>3
    <3> QED BY <3>1, <3>2
  <2> HIDE DEF a
  <2>3. Ordered(a)
    BY <2>2 DEF Ordered
  <2>4. Buffered(a) = Buffered(reader) + 1 /\ (a.r + 1 = reader.r \/ Buffered(reader) = 0)
    BY <2>2 DEF Buffered
  <2>5. Len(Unread(reader)) < Size /\ \E x \in Item : Unread(a) = <<x>> \o Unread(reader)
    BY <1>1, <2>2, <2>3, <2>4, OneBack
  <2>6. Inv' /\ Promise!Returns(Unread(a), reader.err, Abs(c), <<>>, FALSE, NilPointer)
    BY <1>4, <1>6, <2>2, <2>3, ReturnStep
  <2>7. Promise!UnreadItem
    BY <1>1, <1>4, <2>5, <2>6, Zenon DEF Promise!UnreadItem, NilPointer, Abs
  <2> QED BY <2>6, <2>7, Zenon DEF Promise!Next
<1> QED BY <1>3, <1>5, <1>6

ResetItself == "Reset itself"

LEMMA ResetCall == ASSUME Inv, Reset PROVE Inv' /\ Promise!Next
<1> DEFINE c == Called("Reset", 0, Zero)
           d == Called(ResetItself, 0, Zero)
           a == [NewReader EXCEPT !.buf = reader.buf]
<1>1. Ordered(reader) /\ call = NoCall /\ Abs(call) = Promise!NoCall
  BY NoCallAbs DEF Inv, Reset
<1>2. Begun(c, "Reset", 0, Zero) /\ Begun(d, ResetItself, 0, Zero)
  BY CalledBegun, Zenon
<1>3. Return(a, c, <<>>, 0, "nil") \/ Return(reader, d, <<>>, 0, "nil")
  BY Zenon DEF Reset, ResetItself
<1> HIDE DEF c, d
<1>4. /\ c.count = 0 /\ c.prefix = FALSE /\ Abs(c) = Promise!Called("Reset", 0, Zero)
      /\ d.count = 0 /\ d.prefix = FALSE /\ Abs(d) = Promise!Called(ResetItself, 0, Zero)
  BY <1>2 DEF Begun
<1>5. CASE Return(a, c, <<>>, 0, "nil")
  <2>1. reader.buf \in [1 .. Size -> Item] /\ 0 \in 0 .. Size
    BY <1>1, OrderedFields
  <2>2. a \in ReaderType /\ a.r = 0 /\ a.w = 0 /\ a.err = "nil"
    BY <2>1 DEF NewReader, ReaderType, SourceErr
  <2> HIDE DEF a
  <2>3. Ordered(a) /\ Buffered(a) = 0
    BY <2>2 DEF Ordered, Buffered
  <2>4. Unread(a) = <<>>
    BY <2>3, NothingUnread
  <2>5. Inv' /\ Promise!Returns(<<>>, "nil", Abs(c), <<>>, FALSE, "nil")
    BY <1>4, <1>5, <2>2, <2>3, <2>4, ReturnStep
  <2>6. Promise!Reset
    BY <1>1, <1>4, <2>5, Zenon DEF Promise!Reset, Abs
  <2> QED BY <2>5, <2>6, Zenon DEF Promise!Next
<1>6. CASE Return(reader, d, <<>>, 0, "nil")
  <2>1. Inv' /\ Promise!Returns(Unread(reader), reader.err, Abs(d), <<>>, FALSE, "nil")
    BY <1>1, <1>4, <1>6, ReturnStep
  <2>2. Promise!Reset
    BY <1>1, <1>4, <2>1, Zenon DEF Promise!Reset, ResetItself, Abs
  <2> QED BY <2>1, <2>2, Zenon DEF Promise!Next
<1> QED BY <1>3, <1>5, <1>6

-----------------------------------------------------------------------------
(* The whole.                                                              *)

LEMMA DelimitingStep == ASSUME Inv, Delimiting PROVE Inv' /\ [Promise!Next]_(Promise!vars)
<1>1. ASSUME NEW delim \in Item, ReadSlice(delim) \/ ReadItems(delim)
      PROVE  Inv' /\ Promise!Next
  <2>1. CASE ReadSlice(delim)
    <3>1. ReadUntil("ReadSlice", delim) /\ "ReadSlice" \in SliceOp
      BY <2>1 DEF ReadSlice, SliceOp
    <3>2. Inv' /\ Promise!Begin("ReadSlice", 0, delim)
      BY <3>1, ReadUntilCall
    <3> QED BY <3>2, BeginIsNext
  <2>2. CASE ReadItems(delim)
    <3>1. ReadUntil("ReadItems", delim) /\ "ReadItems" \in SliceOp
      BY <2>2 DEF ReadItems, SliceOp
    <3>2. Inv' /\ Promise!Begin("ReadItems", 0, delim)
      BY <3>1, ReadUntilCall
    <3> QED BY <3>2, BeginIsNext
  <2> QED BY <1>1, <2>1, <2>2
<1>2. ASSUME ReadLine PROVE Inv' /\ Promise!Next
  <2>1. ReadUntil("ReadLine", LineDelim) /\ "ReadLine" \in SliceOp /\ LineDelim \in Item
    BY <1>2, CountType DEF ReadLine, SliceOp
  <2>2. Inv' /\ Promise!Begin("ReadLine", 0, LineDelim)
    BY <2>1, ReadUntilCall
  <2> QED BY <2>2, BeginIsNext
<1> QED BY <1>1, <1>2, FillTurnStep DEF Delimiting

LEMMA CallingStep == ASSUME Inv, Calling PROVE Inv' /\ Promise!Next
BY PeekCall, DiscardCall, ReadCall, ReadNegativeCall, ReadThroughCall, ReadItemCall, UnreadItemCall,
   ResetCall, WriteToCall DEF Calling

LEMMA InitStep == Init => Inv /\ Promise!Init
<1> SUFFICES ASSUME Init PROVE Inv /\ Promise!Init
  OBVIOUS
<1> DEFINE a == NewReader
<1>1. reader = a /\ call = NoCall /\ result = NoResult
  BY DEF Init
<1>2. 0 \in 0 .. Size
  BY ReaderAssumption
<1>3. a \in ReaderType /\ a.r = 0 /\ a.w = 0 /\ a.err = "nil"
  BY <1>2, ReaderAssumption DEF NewReader, ReaderType, SourceErr
<1> HIDE DEF a
<1>4. Ordered(a) /\ Buffered(a) = 0
  BY <1>3 DEF Ordered, Buffered
<1>5. Unread(a) = <<>>
  BY <1>4, NothingUnread
<1>6. Abs(call) = Promise!NoCall /\ NoResult = Promise!NoResult
  BY <1>1, NoCallAbs DEF NoResult, Promise!NoResult
<1> QED BY <1>1, <1>3, <1>4, <1>5, <1>6 DEF Inv, Promise!Init, Abs

LEMMA NextStep == Inv /\ [ComparableNext]_vars => Inv' /\ [Promise!Next]_(Promise!vars)
<1> SUFFICES ASSUME Inv, [ComparableNext]_vars PROVE Inv' /\ [Promise!Next]_(Promise!vars)
  OBVIOUS
<1>1. CASE ComparableNext
  BY <1>1, CallingStep, TurnStep, DelimitingStep DEF ComparableNext, Next
<1>2. CASE UNCHANGED vars
  BY <1>2 DEF vars, Inv, Promise!vars, Unread, NoCall, NoResult
<1> QED BY <1>1, <1>2

(* The read and write positions stay in range and in order, and fill reads *)
(* on only with room for an item and while no error is owed, whatever the  *)
(* buffer's size, whoever calls and whatever the two other ends answer.    *)
THEOREM TypeCorrect == ComparableSpec => []TypeOK
<1>1. Init => Inv
  BY InitStep
<1>2. Inv /\ [ComparableNext]_vars => Inv'
  BY NextStep
<1>3. Inv => TypeOK
  BY InvType
<1> QED BY <1>1, <1>2, <1>3, PTL DEF ComparableSpec

(* A Reader and the ComparableReader around it are a queue of what the     *)
(* underlying reader delivered: but where a call panics, or WriteTo's      *)
(* writer is short without an error, no method loses, repeats or reorders  *)
(* an item; a line ends at the first delimiter however the reads were cut; *)
(* and an error is reported at most once (Discard, WriteTo and ReadLine    *)
(* may lose one), behind all that came before it.                          *)
THEOREM RefinesLookahead == ComparableSpec => IsLookahead
<1>1. Init => Inv /\ Promise!Init
  BY InitStep
<1>2. Inv /\ [ComparableNext]_vars => Inv' /\ [Promise!Next]_(Promise!vars)
  BY NextStep
<1> QED BY <1>1, <1>2, PTL DEF ComparableSpec, IsLookahead, Promise!Spec

=============================================================================
