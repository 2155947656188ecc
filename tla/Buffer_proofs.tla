---------------------------- MODULE Buffer_proofs -----------------------------
(***************************************************************************)
(* Theorems about Buffer, for every set of items, every limit of memory,   *)
(* every rounding of append and every caller and other end the constants   *)
(* describe; then the refinement: a Buffer whose callers keep to the       *)
(* contract is an ItemQueue.                                               *)
(***************************************************************************)
EXTENDS BufferContract, SequenceTheorems, WellFoundedInduction, TLAPS

BufferType == [cells : Seq(Item), len : Nat, off : Nat, isReading : BOOLEAN, made : BOOLEAN]

StreamType == [op : {"none", "ReadFrom", "WriteTo"}, left : Nat, room : Nat, moved : Seq(Item)]

(* Read, written and spare items are in that order.                        *)
Ordered(b) ==
  /\ b \in BufferType
  /\ b.off <= b.len /\ b.len <= Cap(b)
  /\ ~ b.made => Cap(b) = 0
  /\ Cap(b) <= MaxAlloc + Slack

Spare(b) == Cap(b) - b.len

(* A reader has been handed all that is spare, and that is enough.         *)
Handed == stream.room > 0 => stream.room >= MinRead /\ stream.room = Spare(buffer)

Inv ==
  /\ Ordered(buffer)
  /\ promise \in Nat /\ promise <= Spare(buffer)
  /\ stream \in StreamType
  /\ Handed

-----------------------------------------------------------------------------
(* What the operators keep.                                                *)

LEMMA OrderedFields ==
  ASSUME NEW b, Ordered(b)
  PROVE  /\ b.cells \in Seq(Item) /\ b.len \in Nat /\ b.off \in Nat /\ Cap(b) \in Nat
         /\ BufLen(b) \in Nat /\ Spare(b) \in Nat
         /\ b.off <= b.len /\ b.len <= Cap(b)
BY DEF Ordered, BufferType, BufLen, Spare, Cap

LEMMA AskedType ==
  ASSUME NEW b, Ordered(b), NEW n \in Nat PROVE Asked(b, n) \in Int
<1>1. b.len + n \in Int /\ 2 * (Cap(b) - b.off) \in Int
  BY OrderedFields
<1> QED BY <1>1, Zenon DEF Asked

LEMMA PartOf ==
  ASSUME NEW s \in Seq(Item), NEW from \in Nat, NEW to \in Nat, from <= to, to <= Len(s)
  PROVE  /\ SubSeq(s, from + 1, to) \in Seq(Item) /\ Len(SubSeq(s, from + 1, to)) = to - from
         /\ \A i \in 1 .. to - from : SubSeq(s, from + 1, to)[i] = s[from + i]
OBVIOUS

LEMMA UnreadType ==
  ASSUME NEW b, Ordered(b)
  PROVE  /\ Unread(b) \in Seq(Item) /\ Len(Unread(b)) = BufLen(b)
         /\ \A i \in 1 .. BufLen(b) : Unread(b)[i] = b.cells[b.off + i]
<1>1. b.cells \in Seq(Item) /\ b.off \in Nat /\ b.len \in Nat /\ b.off <= b.len /\ b.len <= Len(b.cells)
  BY OrderedFields DEF Cap
<1> DEFINE c == b.cells
           s == SubSeq(c, b.off + 1, b.len)
<1>2. c \in Seq(Item) /\ b.len <= Len(c)
  BY <1>1
<1> HIDE DEF c
<1>3. /\ s \in Seq(Item) /\ Len(s) = b.len - b.off
      /\ \A i \in 1 .. b.len - b.off : s[i] = c[b.off + i]
  BY <1>1, <1>2, PartOf
<1>4. Unread(b) = s /\ BufLen(b) = b.len - b.off
  BY DEF Unread, BufLen, c
<1> HIDE DEF s
<1> QED BY <1>3, <1>4 DEF c

LEMMA SameUnread ==
  ASSUME NEW b, Ordered(b), NEW g, Ordered(g), BufLen(g) = BufLen(b),
         \A i \in 1 .. BufLen(b) : g.cells[g.off + i] = b.cells[b.off + i]
  PROVE  Unread(g) = Unread(b)
<1>1. /\ Unread(b) \in Seq(Item) /\ Unread(g) \in Seq(Item) /\ Len(Unread(g)) = Len(Unread(b))
      /\ \A i \in 1 .. Len(Unread(g)) : Unread(g)[i] = Unread(b)[i]
  BY UnreadType
<1> QED BY <1>1, SeqEqual

LEMMA NoneUnread ==
  ASSUME NEW b, Ordered(b)
  PROVE  (BufLen(b) = 0 <=> Unread(b) = <<>>) /\ (Empty(b) <=> Unread(b) = <<>>)
<1>1. Unread(b) \in Seq(Item) /\ Len(Unread(b)) = BufLen(b)
  BY UnreadType
<1>2. b.len \in Nat /\ b.off \in Nat /\ b.off <= b.len
  BY OrderedFields
<1> QED BY <1>1, <1>2 DEF Empty, BufLen

LEMMA BufResetKeeps ==
  ASSUME NEW b, Ordered(b)
  PROVE  /\ Ordered(BufReset(b)) /\ Spare(BufReset(b)) >= Spare(b)
         /\ ~ BufReset(b).isReading /\ Unread(BufReset(b)) = <<>>
<1>1. b \in BufferType /\ b.len \in Nat /\ Cap(b) \in Nat
  BY OrderedFields DEF Ordered
<1>2. BufReset(b) \in BufferType /\ Cap(BufReset(b)) = Cap(b)
  BY <1>1 DEF BufReset, BufferType, Cap
<1>3. BufReset(b).len = 0 /\ BufReset(b).off = 0 /\ BufReset(b).made = b.made
      /\ ~ BufReset(b).isReading
  BY <1>1 DEF BufReset, BufferType
<1>4. Ordered(BufReset(b)) /\ Spare(BufReset(b)) >= Spare(b)
  BY <1>1, <1>2, <1>3 DEF Ordered, Spare
<1>5. BufLen(BufReset(b)) = 0
  BY <1>3 DEF BufLen
<1> QED BY <1>3, <1>4, <1>5, NoneUnread

LEMMA NotReadingKeeps ==
  ASSUME NEW b, Ordered(b)
  PROVE  /\ Ordered(NotReading(b)) /\ Spare(NotReading(b)) = Spare(b)
         /\ ~ NotReading(b).isReading /\ Unread(NotReading(b)) = Unread(b)
<1>1. b \in BufferType
  BY DEF Ordered
<1>2. NotReading(b) \in BufferType /\ Cap(NotReading(b)) = Cap(b)
  BY <1>1 DEF NotReading, BufferType, Cap
<1>3. NotReading(b).len = b.len /\ NotReading(b).off = b.off /\ NotReading(b).made = b.made
      /\ ~ NotReading(b).isReading /\ NotReading(b).cells = b.cells
  BY <1>1 DEF NotReading, BufferType
<1> QED BY <1>2, <1>3 DEF Ordered, Spare, Unread

LEMMA ReclaimedKeeps ==
  ASSUME NEW b, Ordered(b)
  PROVE  /\ Ordered(Reclaimed(b)) /\ Spare(Reclaimed(b)) >= Spare(b)
         /\ Unread(Reclaimed(b)) = Unread(b)
<1>1. Spare(b) \in Nat
  BY OrderedFields
<1>2. CASE BufLen(b) = 0 /\ b.off # 0
  BY <1>2, BufResetKeeps, NoneUnread DEF Reclaimed
<1>3. CASE ~ (BufLen(b) = 0 /\ b.off # 0)
  BY <1>1, <1>3 DEF Reclaimed
<1> QED BY <1>2, <1>3

LEMMA ZerosType == \A n \in Nat : Zeros(n) \in Seq(Item) /\ Len(Zeros(n)) = n
BY BufferAssumption DEF Zeros

(* The unread items at the front of the array, whatever follows them.      *)
LEMMA MovedDown ==
  ASSUME NEW b, Ordered(b), NEW g, Ordered(g), NEW rest \in Seq(Item),
         g.cells = Unread(b) \o rest, g.off = 0, g.len = BufLen(b)
  PROVE  Unread(g) = Unread(b)
<1>1. /\ Unread(b) \in Seq(Item) /\ Len(Unread(b)) = BufLen(b) /\ BufLen(b) \in Nat
      /\ \A i \in 1 .. BufLen(b) : Unread(b)[i] = b.cells[b.off + i]
  BY UnreadType, OrderedFields
<1>2. BufLen(g) = BufLen(b)
  BY <1>1 DEF BufLen
<1>3. ASSUME NEW i \in 1 .. BufLen(b) PROVE g.cells[g.off + i] = b.cells[b.off + i]
  <2>1. g.cells[g.off + i] = (Unread(b) \o rest)[i]
    BY <1>1
  <2>2. (Unread(b) \o rest)[i] = Unread(b)[i]
    BY <1>1, ConcatProperties
  <2> QED BY <1>1, <2>1, <2>2
<1> QED BY <1>2, <1>3, SameUnread

(* How room is made: the unread items move down from above the front of an *)
(* array to the front, or all of b.buf stays where it is.                  *)
Moved(b, h) == b.off > 0 /\ h.off = 0
InPlace(b, h) == h.len = b.len /\ \A i \in 1 .. b.len : h.cells[i] = b.cells[i]

LEMMA ReclaimedRoom ==
  ASSUME NEW b, Ordered(b)
  PROVE  Moved(b, Reclaimed(b)) \/ Reclaimed(b) = b
BY DEF Ordered, BufferType, Reclaimed, BufReset, Moved

LEMMA RoomOnwards ==
  ASSUME NEW b, NEW r, Moved(b, r) \/ r = b, NEW h, h.off = r.off \/ h.off = 0,
         Moved(r, h) \/ InPlace(r, h)
  PROVE  Moved(b, h) \/ InPlace(b, h)
BY DEF Moved

LEMMA FrontRoom ==
  ASSUME NEW b, Ordered(b), NEW rest \in Seq(Item), NEW h, h.cells = Unread(b) \o rest,
         h.off = 0, h.len = BufLen(b)
  PROVE  Moved(b, h) \/ InPlace(b, h)
<1>1. CASE b.off > 0
  BY <1>1 DEF Moved
<1>2. CASE ~ (b.off > 0)
  <2>1. b.off = 0 /\ b.len \in Nat /\ BufLen(b) = b.len
    BY <1>2, OrderedFields DEF BufLen
  <2>2. /\ Unread(b) \in Seq(Item) /\ Len(Unread(b)) = b.len
        /\ \A i \in 1 .. b.len : Unread(b)[i] = b.cells[b.off + i]
    BY <2>1, UnreadType
  <2>3. ASSUME NEW i \in 1 .. b.len PROVE h.cells[i] = b.cells[i]
    <3>1. (Unread(b) \o rest)[i] = Unread(b)[i]
      BY <2>1, <2>2, ConcatProperties
    <3>2. b.off + i = i
      BY <2>1
    <3> QED BY <2>2, <3>1, <3>2
  <2> QED BY <2>1, <2>3 DEF InPlace
<1> QED BY <1>1, <1>2

LEMMA SlidKeeps ==
  ASSUME NEW b, Ordered(b)
  PROVE  /\ Ordered(Slid(b)) /\ Cap(Slid(b)) = Cap(b) /\ Slid(b).len = BufLen(b)
         /\ Unread(Slid(b)) = Unread(b) /\ Slid(b).isReading = b.isReading
         /\ Slid(b).off = 0 /\ (Moved(b, Slid(b)) \/ InPlace(b, Slid(b)))
<1> DEFINE rest == SubSeq(b.cells, BufLen(b) + 1, Cap(b))
<1>1. /\ b \in BufferType /\ b.cells \in Seq(Item) /\ Cap(b) \in Nat /\ BufLen(b) \in Nat
      /\ BufLen(b) <= Cap(b) /\ Cap(b) = Len(b.cells)
  BY OrderedFields DEF Ordered, BufLen, Cap
<1>2. rest \in Seq(Item) /\ Len(rest) = Cap(b) - BufLen(b)
  BY <1>1
<1> HIDE DEF rest
<1>3. Unread(b) \o rest \in Seq(Item) /\ Len(Unread(b) \o rest) = Cap(b)
  <2>1. Unread(b) \in Seq(Item) /\ Len(Unread(b)) = BufLen(b)
    BY UnreadType
  <2>2. Unread(b) \o rest \in Seq(Item) /\ Len(Unread(b) \o rest) = Len(Unread(b)) + Len(rest)
    BY <1>2, <2>1, ConcatProperties
  <2> QED BY <1>1, <1>2, <2>1, <2>2
<1>4. /\ Slid(b) \in BufferType /\ Slid(b).cells = Unread(b) \o rest
      /\ Slid(b).len = BufLen(b) /\ Slid(b).off = 0 /\ Slid(b).made = b.made
      /\ Slid(b).isReading = b.isReading
  BY <1>1, <1>3 DEF Slid, BufferType, rest
<1>5. Ordered(Slid(b)) /\ Cap(Slid(b)) = Cap(b)
  BY <1>1, <1>3, <1>4 DEF Ordered, Cap
<1>6. Unread(Slid(b)) = Unread(b)
  BY <1>2, <1>4, <1>5, MovedDown
<1>7. Moved(b, Slid(b)) \/ InPlace(b, Slid(b))
  BY <1>2, <1>4, FrontRoom
<1> QED BY <1>4, <1>5, <1>6, <1>7

LEMMA ReallocatedKeeps ==
  ASSUME NEW b, Ordered(b), NEW n \in Nat, Asked(b, n) <= MaxAlloc, NEW g \in Reallocated(b, n)
  PROVE  /\ Ordered(g) /\ n <= Spare(g)
         /\ Unread(g) = Unread(b) /\ g.isReading = b.isReading
         /\ g.off = 0 /\ (Moved(b, g) \/ InPlace(b, g))
<1>1. PICK cap \in Asked(b, n) .. Asked(b, n) + Slack :
        g = [b EXCEPT !.cells = Unread(b) \o Zeros(cap - BufLen(b)), !.off = 0,
                      !.len = BufLen(b), !.made = TRUE]
  BY DEF Reallocated
<1>2. /\ b \in BufferType /\ b.len \in Nat /\ b.off \in Nat /\ BufLen(b) \in Nat /\ Cap(b) \in Nat
      /\ BufLen(b) <= b.len
  BY OrderedFields DEF Ordered, BufLen
<1>3. Asked(b, n) \in Int /\ Asked(b, n) >= b.len + n
  BY <1>2 DEF Asked
<1>4. cap \in Nat /\ cap - BufLen(b) \in Nat /\ BufLen(b) + n <= cap /\ cap <= MaxAlloc + Slack
  BY <1>2, <1>3, BufferAssumption
<1> DEFINE cells == Unread(b) \o Zeros(cap - BufLen(b))
<1>5. cells \in Seq(Item) /\ Len(cells) = cap
  <2> DEFINE zeros == Zeros(cap - BufLen(b))
  <2>1. zeros \in Seq(Item) /\ Len(zeros) = cap - BufLen(b)
    BY <1>4, ZerosType
  <2> HIDE DEF zeros
  <2>2. Unread(b) \o zeros \in Seq(Item) /\ Len(Unread(b) \o zeros) = BufLen(b) + (cap - BufLen(b))
    BY <2>1, UnreadType
  <2> QED BY <1>2, <1>4, <2>2 DEF zeros
<1> HIDE DEF cells
<1>6. /\ g \in BufferType /\ g.cells = cells /\ g.len = BufLen(b) /\ g.off = 0 /\ g.made = TRUE
      /\ g.isReading = b.isReading
  BY <1>1, <1>2, <1>5 DEF BufferType, cells
<1>7. Ordered(g) /\ n <= Spare(g)
  BY <1>2, <1>4, <1>5, <1>6 DEF Ordered, Spare, Cap
<1>8. Zeros(cap - BufLen(b)) \in Seq(Item)
  BY <1>4, ZerosType
<1>9. Unread(g) = Unread(b)
  BY <1>6, <1>7, <1>8, MovedDown DEF cells
<1>10. Moved(b, g) \/ InPlace(b, g)
  BY <1>6, <1>8, FrontRoom DEF cells
<1> QED BY <1>6, <1>7, <1>9, <1>10

(* h is b once grow has found room for n items, and before b.buf is made   *)
(* longer; another array is taken only if there is not enough spare.       *)
FoundRoom(b, n, h) ==
  /\ Ordered(h) /\ n <= Spare(h)
  /\ Unread(h) = Unread(b)
  /\ Moved(b, h) \/ InPlace(b, h)
  /\ h = Reclaimed(b) \/ (n > Spare(b) /\ (h.isReading <=> Reclaimed(b).isReading))

LEMMA RoomKept ==
  ASSUME NEW b, Ordered(b), NEW n \in Nat, NEW h, FoundRoom(b, n, h)
  PROVE  Spare(h) \in Nat /\ (Spare(h) >= Spare(b) \/ n > Spare(b))
BY OrderedFields, ReclaimedKeeps DEF FoundRoom

LEMMA GrownIs ==
  ASSUME NEW b, Ordered(b), NEW n \in Nat, NEW g \in Grown(b, n)
  PROVE  \E h : g = Extended(h, n) /\ FoundRoom(b, n, h)
<1> DEFINE r == Reclaimed(b)
<1>1. /\ Ordered(r) /\ Spare(r) >= Spare(b) /\ Unread(r) = Unread(b)
      /\ Moved(b, r) \/ r = b
  BY ReclaimedKeeps, ReclaimedRoom
<1> HIDE DEF r
<1>2. /\ r \in BufferType /\ Cap(r) \in Nat /\ r.len \in Nat /\ BufLen(r) \in Nat
      /\ Spare(r) = Cap(r) - r.len /\ Spare(r) \in Nat /\ Spare(b) \in Nat
  BY <1>1, OrderedFields DEF Ordered, Spare
<1>3. CASE n <= Cap(r) - r.len
  <2>1. Moved(b, r) \/ InPlace(b, r)
    BY <1>1 DEF InPlace
  <2> QED BY <1>1, <1>2, <1>3, <2>1 DEF Grown, r, FoundRoom
<1>4. CASE ~ (n <= Cap(r) - r.len)
  <2>0. n > Spare(b)
    BY <1>1, <1>2, <1>4
  <2> SUFFICES \E h : /\ g = Extended(h, n) /\ Ordered(h) /\ n <= Spare(h)
                      /\ Unread(h) = Unread(r) /\ h.isReading = r.isReading
                      /\ h.off = 0 /\ (Moved(r, h) \/ InPlace(r, h))
    BY <1>1, <2>0, RoomOnwards DEF FoundRoom, r
  <2>1. CASE ~ r.made /\ n <= SmallBufferSize
    <3> DEFINE h == [r EXCEPT !.cells = Zeros(SmallBufferSize), !.made = TRUE]
    <3>1. SmallBufferSize \in Nat /\ SmallBufferSize <= MaxAlloc + Slack
      BY BufferAssumption
    <3>2. Zeros(SmallBufferSize) \in Seq(Item) /\ Len(Zeros(SmallBufferSize)) = SmallBufferSize
      BY <3>1, ZerosType
    <3>3. r.len = 0 /\ r.off = 0
      BY <1>1, <2>1, OrderedFields DEF Ordered
    <3>4. /\ h \in BufferType /\ h.cells = Zeros(SmallBufferSize) /\ h.len = 0 /\ h.off = 0
          /\ h.made = TRUE /\ h.isReading = r.isReading
      BY <1>2, <3>2, <3>3 DEF BufferType
    <3> HIDE DEF h
    <3>5. Ordered(h) /\ n <= Spare(h)
      BY <2>1, <3>1, <3>2, <3>4 DEF Ordered, Spare, Cap
    <3>6. Unread(h) = Unread(r)
      BY <1>1, <3>3, <3>4, <3>5, NoneUnread DEF BufLen
    <3>7. g = Extended(h, n)
      BY <1>4, <2>1 DEF Grown, r, h
    <3>8. InPlace(r, h)
      BY <3>3, <3>4 DEF InPlace
    <3> QED BY <3>4, <3>5, <3>6, <3>7, <3>8
  <2>2. CASE ~ (~ r.made /\ n <= SmallBufferSize) /\ n <= Cap(r) \div 2 - BufLen(r)
    <3>1. g = Extended(Slid(r), n)
      BY <1>4, <2>2 DEF Grown, r
    <3>2. Ordered(Slid(r)) /\ Cap(Slid(r)) = Cap(r) /\ Slid(r).len = BufLen(r)
      BY <1>1, SlidKeeps
    <3>3. n <= Spare(Slid(r))
      BY <1>2, <2>2, <3>2 DEF Spare
    <3> QED BY <1>1, <3>1, <3>2, <3>3, SlidKeeps
  <2>3. CASE ~ (~ r.made /\ n <= SmallBufferSize) /\ ~ (n <= Cap(r) \div 2 - BufLen(r))
    <3>1. Asked(r, n) <= MaxAlloc /\ \E h \in Reallocated(r, n) : g = Extended(h, n)
      <4>1. ~ (Asked(r, n) > MaxAlloc) /\ g \in {Extended(h, n) : h \in Reallocated(r, n)}
        BY <1>4, <2>3 DEF Grown, r
      <4>2. Asked(r, n) \in Int
        BY <1>1, AskedType
      <4>3. Asked(r, n) <= MaxAlloc
        BY <4>1, <4>2, BufferAssumption
      <4> QED BY <4>1, <4>3, Zenon
    <3> QED BY <1>1, <3>1, ReallocatedKeeps
  <2> QED BY <2>1, <2>2, <2>3
<1> QED BY <1>3, <1>4

(* grow's result, with b.buf cut back to what it was.                      *)
LEMMA GrownBack ==
  ASSUME NEW b, Ordered(b), NEW n \in Nat, NEW g \in Grown(b, n)
  PROVE  LET h == [g EXCEPT !.len = @ - n]
         IN  FoundRoom(b, n, h) /\ Spare(h) = Cap(g) - (g.len - n)
<1>1. PICK h : g = Extended(h, n) /\ FoundRoom(b, n, h)
  BY GrownIs
<1>2. h \in BufferType /\ h.len \in Nat
  BY <1>1 DEF FoundRoom, Ordered, BufferType
<1>3. g \in BufferType /\ g.len = h.len + n /\ g.cells = h.cells /\ g.off = h.off
      /\ g.isReading = h.isReading /\ g.made = h.made
  BY <1>1, <1>2 DEF Extended, BufferType
<1>4. g.len - n = h.len
  BY <1>2, <1>3
<1>5. [g EXCEPT !.len = @ - n] = h
  BY <1>2, <1>3, <1>4 DEF BufferType
<1>6. Spare(h) = Cap(g) - (g.len - n)
  BY <1>3, <1>4 DEF Spare, Cap
<1> QED BY <1>1, <1>5, <1>6

LEMMA PutKeeps ==
  ASSUME NEW b, Ordered(b), NEW at \in Nat, NEW p \in Seq(Item)
  PROVE  Ordered(Put(b, at, p)) /\ Spare(Put(b, at, p)) = Spare(b)
<1> DEFINE cells == [i \in 1 .. Cap(b) |->
                       IF at < i /\ i <= at + Len(p) THEN p[i - at] ELSE b.cells[i]]
<1>1. b \in BufferType /\ b.cells \in Seq(Item) /\ Cap(b) \in Nat /\ Len(b.cells) = Cap(b)
  BY OrderedFields DEF Ordered, Cap
<1>2. ASSUME NEW i \in 1 .. Cap(b)
      PROVE  (IF at < i /\ i <= at + Len(p) THEN p[i - at] ELSE b.cells[i]) \in Item
  BY <1>1
<1>3. cells \in Seq(Item) /\ Len(cells) = Cap(b)
  BY <1>1, <1>2
<1> HIDE DEF cells
<1>4. /\ Put(b, at, p) \in BufferType /\ Put(b, at, p).cells = cells /\ Put(b, at, p).len = b.len
      /\ Put(b, at, p).off = b.off /\ Put(b, at, p).made = b.made
  BY <1>1, <1>3 DEF Put, BufferType, cells
<1> QED BY <1>3, <1>4 DEF Ordered, Spare, Cap

LEMMA ExtendedKeeps ==
  ASSUME NEW b, Ordered(b), NEW n \in Nat, n <= Spare(b)
  PROVE  Ordered(Extended(b, n)) /\ Spare(Extended(b, n)) = Spare(b) - n
<1>1. b \in BufferType /\ b.len \in Nat /\ b.off \in Nat /\ Cap(b) \in Nat /\ b.off <= b.len
  BY OrderedFields DEF Ordered
<1>2. /\ Extended(b, n) \in BufferType /\ Extended(b, n).cells = b.cells
      /\ Extended(b, n).len = b.len + n /\ Extended(b, n).off = b.off
      /\ Extended(b, n).made = b.made
  BY <1>1 DEF Extended, BufferType
<1> QED BY <1>1, <1>2 DEF Ordered, Spare, Cap

LEMMA LengthenedIs ==
  ASSUME NEW b, Ordered(b), NEW n \in Nat, NEW g \in Lengthened(b, n)
  PROVE  \E h : /\ g = Extended(h, n) /\ Ordered(h) /\ n <= Spare(h)
                /\ Spare(h) >= Spare(b) \/ n > Spare(b)
                /\ Unread(h) = Unread(b)
                /\ h.isReading => b.isReading
                /\ Moved(b, h) \/ InPlace(b, h)
<1>1. b.len \in Nat /\ Cap(b) \in Nat /\ Spare(b) = Cap(b) - b.len /\ Spare(b) \in Nat
  BY OrderedFields DEF Spare
<1>2. CASE n <= Cap(b) - b.len
  BY <1>1, <1>2 DEF Lengthened, InPlace
<1>3. CASE ~ (n <= Cap(b) - b.len)
  <2>1. PICK h : g = Extended(h, n) /\ FoundRoom(b, n, h)
    BY <1>3, GrownIs DEF Lengthened
  <2>2. Spare(h) >= Spare(b) \/ n > Spare(b)
    BY <2>1, RoomKept
  <2>3. h.isReading => b.isReading
    BY <2>1, BufResetKeeps DEF FoundRoom, Reclaimed
  <2> QED BY <2>1, <2>2, <2>3 DEF FoundRoom
<1> QED BY <1>2, <1>3

LEMMA LengthenedKeeps ==
  ASSUME NEW b, Ordered(b), NEW n \in Nat, NEW g \in Lengthened(b, n)
  PROVE  /\ Ordered(g) /\ Spare(g) \in Nat /\ n <= g.len
         /\ Spare(g) >= Spare(b) - n
<1>1. PICK h : /\ g = Extended(h, n) /\ Ordered(h) /\ n <= Spare(h)
               /\ Spare(h) >= Spare(b) \/ n > Spare(b)
  BY LengthenedIs
<1>2. Ordered(g) /\ Spare(g) = Spare(h) - n
  BY <1>1, ExtendedKeeps
<1>3. Spare(h) \in Nat /\ Spare(b) \in Nat /\ g.len = h.len + n /\ h.len \in Nat
  BY <1>1, OrderedFields DEF Extended, Ordered, BufferType
<1> QED BY <1>1, <1>2, <1>3

-----------------------------------------------------------------------------
(* What the actions keep.                                                  *)

LEMMA NoStreamType == NoStream \in StreamType /\ NoStream.room = 0 /\ NoStream.op = "none"
BY DEF NoStream, StreamType

(* A call that finishes at once and breaks no promise.                     *)
LEMMA LeaveInv ==
  ASSUME Inv, NEW b, NEW call, NEW n, NEW items, NEW err, Leave(b, call, n, items, err),
         Ordered(b), promise' \in Nat, promise' <= Spare(b)
  PROVE  Inv'
<1>1. buffer' = b /\ stream' = NoStream
  BY DEF Leave
<1> QED BY <1>1, NoStreamType DEF Inv, Handed, Ordered, Spare, Cap

LEMMA DoInv ==
  ASSUME Inv, NEW b, NEW call, NEW n, NEW items, NEW err, Do(b, call, n, items, err),
         Ordered(b), Spare(b) >= Spare(buffer)
  PROVE  Inv'
<1>1. promise' = promise /\ promise \in Nat /\ promise <= Spare(buffer) /\ Spare(buffer) \in Nat
      /\ Spare(b) \in Nat
  BY OrderedFields DEF Do, Inv
<1> QED BY <1>1, LeaveInv DEF Do

LEMMA AppendInv ==
  ASSUME Inv, NEW call, NEW p \in Seq(Item), NEW n, AppendItems(call, p, n) PROVE Inv'
<1> DEFINE b == NotReading(buffer)
<1>1. Ordered(b) /\ Spare(b) = Spare(buffer) /\ Spare(b) \in Nat /\ promise \in Nat
      /\ promise <= Spare(b) /\ Len(p) \in Nat
  BY NotReadingKeeps, OrderedFields DEF Inv
<1> HIDE DEF b
<1>2. ASSUME NEW g \in Lengthened(b, Len(p)),
             Leave(Put(g, g.len - Len(p), p), call, n, <<>>, "nil"), Written(Len(p))
      PROVE  Inv'
  <2>1. Ordered(g) /\ Spare(g) \in Nat /\ Len(p) <= g.len /\ Spare(g) >= Spare(b) - Len(p)
    BY <1>1, LengthenedKeeps
  <2>2. g.len - Len(p) \in Nat
    BY <1>1, <2>1, OrderedFields
  <2>3. Ordered(Put(g, g.len - Len(p), p)) /\ Spare(Put(g, g.len - Len(p), p)) = Spare(g)
    BY <2>1, <2>2, PutKeeps
  <2>4. promise' \in Nat /\ promise' <= Spare(g)
    BY <1>1, <1>2, <2>1 DEF Written
  <2> QED BY <1>2, <2>3, <2>4, LeaveInv
<1>3. CASE Do(Reclaimed(b), call, 0, <<>>, "too large")
  <2>1. Ordered(Reclaimed(b)) /\ Spare(Reclaimed(b)) >= Spare(buffer)
    BY <1>1, ReclaimedKeeps
  <2> QED BY <1>3, <2>1, DoInv
<1> QED BY <1>2, <1>3 DEF AppendItems, b

LEMMA WritingInv == ASSUME Inv, Writing PROVE Inv'
<1>1. ASSUME NEW p \in Input, Write(p) PROVE Inv'
  <2>1. p \in Seq(Item)
    BY BufferAssumption
  <2> QED BY <1>1, <2>1, AppendInv DEF Write
<1>2. ASSUME NEW x \in Item, WriteItem(x) PROVE Inv'
  <2>1. <<x>> \in Seq(Item)
    OBVIOUS
  <2> QED BY <1>2, <2>1, AppendInv DEF WriteItem
<1> QED BY <1>1, <1>2 DEF Writing

(* Only off and isReading move, and off not past len.                      *)
LEMMA MovedKeeps ==
  ASSUME NEW b, Ordered(b), NEW g \in BufferType, g.cells = b.cells, g.len = b.len,
         g.made = b.made, g.off <= g.len
  PROVE  Ordered(g) /\ Spare(g) = Spare(b)
BY DEF Ordered, Spare, Cap

LEMMA MoveInv ==
  ASSUME Inv, NEW off \in Nat, off <= buffer.len, NEW g,
         \E reading \in BOOLEAN : g = [buffer EXCEPT !.off = off, !.isReading = reading],
         NEW call, NEW n, NEW items, NEW err, Do(g, call, n, items, err)
  PROVE  Inv'
<1>1. Ordered(buffer) /\ buffer \in BufferType /\ Spare(buffer) \in Nat
  BY OrderedFields DEF Inv, Ordered
<1>2. /\ g \in BufferType /\ g.cells = buffer.cells /\ g.len = buffer.len /\ g.off = off
      /\ g.made = buffer.made
  BY <1>1 DEF BufferType
<1>3. Ordered(g) /\ Spare(g) = Spare(buffer)
  BY <1>1, <1>2, MovedKeeps
<1> QED BY <1>1, <1>3, DoInv

LEMMA LeastNatural ==
  ASSUME NEW S \in SUBSET Nat, S # {}
  PROVE  \E i \in S : \A j \in S : i <= j
<1>1. PICK i \in S : \A j \in S : ~ (<<j, i>> \in OpToRel(<, Nat))
  BY NatLessThanWellFounded, WFMin
<1>2. \A j \in S : ~ (j < i)
  BY <1>1 DEF OpToRel
<1> QED BY <1>2

LEMMA ReadingInv == ASSUME Inv, Reading PROVE Inv'
<1>1. /\ Ordered(buffer) /\ buffer \in BufferType /\ buffer.len \in Nat /\ buffer.off \in Nat
      /\ BufLen(buffer) \in Nat /\ buffer.off <= buffer.len /\ BufLen(buffer) = buffer.len - buffer.off
      /\ Spare(buffer) \in Nat
  BY OrderedFields DEF Inv, Ordered, BufLen
<1>2. Ordered(BufReset(buffer)) /\ Spare(BufReset(buffer)) >= Spare(buffer)
  BY <1>1, BufResetKeeps
<1>t. ASSUME NEW k \in Count, k >= 0, NEW call, NEW items, NEW err,
             Do([buffer EXCEPT !.off = @ + Smaller(k, BufLen(buffer)),
                               !.isReading = Smaller(k, BufLen(buffer)) > 0],
                call, Smaller(k, BufLen(buffer)), items, err)
      PROVE  Inv'
  <2> DEFINE n == Smaller(k, BufLen(buffer))
             g == [buffer EXCEPT !.off = @ + n, !.isReading = n > 0]
             off == buffer.off + n
  <2>1. n \in Nat /\ n <= BufLen(buffer)
    BY <1>1, <1>t, BufferAssumption DEF Smaller
  <2>2. off \in Nat /\ off <= buffer.len
    <3> HIDE DEF n
    <3> QED BY <1>1, <2>1
  <2>3. (n > 0) \in BOOLEAN /\ g = [buffer EXCEPT !.off = off, !.isReading = (n > 0)]
    <3> HIDE DEF n
    <3> QED BY <1>1 DEF BufferType
  <2>4. \E reading \in BOOLEAN : g = [buffer EXCEPT !.off = off, !.isReading = reading]
    <3> HIDE DEF g, off
    <3> QED BY <2>3
  <2>5. Do(g, call, n, items, err)
    BY <1>t
  <2> HIDE DEF n, g, off
  <2> QED BY <2>2, <2>4, <2>5, MoveInv
<1>3. ASSUME NEW k \in Count, Read(k) PROVE Inv'
  <2>1. CASE Empty(buffer)
    BY <1>2, <1>3, <2>1, DoInv DEF Read
  <2>2. CASE ~ Empty(buffer)
    BY <1>3, <1>t, <2>2 DEF Read
  <2> QED BY <2>1, <2>2
<1>4. ASSUME NEW k \in Count, NextItems(k) PROVE Inv'
  <2>1. CASE k < 0
    <3>1. Ordered(NotReading(buffer)) /\ Spare(NotReading(buffer)) >= Spare(buffer)
      BY <1>1, NotReadingKeeps
    <3> QED BY <1>4, <2>1, <3>1, DoInv DEF NextItems
  <2>2. CASE ~ (k < 0)
    <3>1. k >= 0
      BY <2>2, BufferAssumption
    <3> QED BY <1>4, <1>t, <2>2, <3>1 DEF NextItems
  <2> QED BY <2>1, <2>2
<1>5. CASE ReadItem
  <2>1. CASE Empty(buffer)
    BY <1>2, <1>5, <2>1, DoInv DEF ReadItem
  <2>2. CASE ~ Empty(buffer)
    <3> DEFINE g == [buffer EXCEPT !.off = @ + 1, !.isReading = TRUE]
               off == buffer.off + 1
    <3>1. off \in Nat /\ off <= buffer.len
      BY <1>1, <2>2 DEF Empty
    <3>2. g = [buffer EXCEPT !.off = off, !.isReading = TRUE]
      BY <1>1 DEF BufferType
    <3>3. PICK call, n, items : Do(g, call, n, items, "nil")
      BY <1>5, <2>2 DEF ReadItem
    <3> HIDE DEF g, off
    <3> QED BY <3>1, <3>2, <3>3, MoveInv
  <2> QED BY <2>1, <2>2
<1>6. CASE UnreadItem
  <2>1. CASE ~ buffer.isReading
    <3>1. Spare(buffer) >= Spare(buffer)
      BY <1>1
    <3> QED BY <1>1, <1>6, <2>1, <3>1, DoInv DEF UnreadItem
  <2>2. CASE buffer.isReading
    <3> DEFINE off == IF buffer.off > 0 THEN buffer.off - 1 ELSE buffer.off
               g == [buffer EXCEPT !.isReading = FALSE, !.off = IF @ > 0 THEN @ - 1 ELSE @]
    <3>1. off \in Nat /\ off <= buffer.len
      BY <1>1
    <3>2. g = [buffer EXCEPT !.off = off, !.isReading = FALSE]
      BY <1>1 DEF BufferType
    <3>3. Do(g, Called("UnreadItem", <<>>), 0, <<>>, "nil")
      BY <1>6, <2>2 DEF UnreadItem
    <3> HIDE DEF g, off
    <3> QED BY <3>1, <3>2, <3>3, MoveInv
  <2> QED BY <2>1, <2>2
<1>7. CASE Value
  <2>1. Spare(buffer) >= Spare(buffer)
    BY <1>1
  <2> QED BY <1>1, <1>7, <2>1, DoInv DEF Value
<1> QED BY <1>3, <1>4, <1>5, <1>6, <1>7 DEF Reading

LEMMA ReadItemsInv == ASSUME Inv, NEW delim \in Delim, ReadItems(delim) PROVE Inv'
<1> DEFINE hits == {i \in buffer.off + 1 .. buffer.len : buffer.cells[i] \in delim}
           least == CHOOSE i \in hits : \A j \in hits : i <= j
           end == IF hits = {} THEN buffer.len ELSE least
           g == [buffer EXCEPT !.off = end, !.isReading = TRUE]
<1>1. buffer.len \in Nat /\ buffer.off \in Nat
  BY OrderedFields DEF Inv
<1>2. end \in Nat /\ end <= buffer.len
  <2>1. hits \in SUBSET Nat /\ \A i \in hits : i <= buffer.len
    BY <1>1
  <2>2. hits # {} => least \in hits
    <3> HIDE DEF hits
    <3>1. hits # {} => \E i \in hits : \A j \in hits : i <= j
      BY <2>1, LeastNatural
    <3> QED BY <3>1
  <2>3. hits # {} => least \in Nat /\ least <= buffer.len
    <3> HIDE DEF hits, least
    <3> QED BY <2>1, <2>2
  <2> HIDE DEF hits, least
  <2> QED BY <1>1, <2>3
<1>3. Do(g, [Called("ReadItems", <<>>) EXCEPT !.delim = delim], end - buffer.off,
         SubSeq(buffer.cells, buffer.off + 1, end), IF hits = {} THEN "EOF" ELSE "nil")
  BY DEF ReadItems
<1>4. \E reading \in BOOLEAN : g = [buffer EXCEPT !.off = end, !.isReading = reading]
  <2> HIDE DEF end
  <2> QED OBVIOUS
<1> HIDE DEF g, end, hits
<1> QED BY <1>2, <1>3, <1>4, MoveInv

LEMMA DiscardingInv == ASSUME Inv, Discarding PROVE Inv'
<1>1. /\ Ordered(buffer) /\ buffer \in BufferType /\ buffer.len \in Nat /\ buffer.off \in Nat
      /\ buffer.off <= buffer.len /\ Spare(buffer) \in Nat /\ buffer.len <= Cap(buffer)
      /\ Cap(buffer) \in Nat
  BY OrderedFields DEF Inv, Ordered
<1>2. Ordered(BufReset(buffer)) /\ Spare(BufReset(buffer)) >= Spare(buffer)
  BY <1>1, BufResetKeeps
<1>3. Ordered(NotReading(buffer)) /\ Spare(NotReading(buffer)) >= Spare(buffer)
  BY <1>1, NotReadingKeeps
<1>4. CASE Reset
  BY <1>2, <1>4, DoInv DEF Reset
<1>5. ASSUME NEW n \in Count, Truncate(n) PROVE Inv'
  <2>1. CASE n = 0
    BY <1>2, <1>5, <2>1, DoInv DEF Truncate
  <2>2. CASE n # 0 /\ (n < 0 \/ n > BufLen(buffer))
    BY <1>3, <1>5, <2>2, DoInv DEF Truncate
  <2>3. CASE n # 0 /\ ~ (n < 0 \/ n > BufLen(buffer))
    <3> DEFINE g == [NotReading(buffer) EXCEPT !.len = buffer.off + n]
    <3>1. n \in Nat /\ buffer.off + n \in Nat /\ buffer.off + n <= buffer.len
      BY <1>1, <2>3, BufferAssumption DEF BufLen
    <3>2. /\ g \in BufferType /\ g.cells = buffer.cells /\ g.len = buffer.off + n
          /\ g.off = buffer.off /\ g.made = buffer.made
      BY <1>1, <3>1 DEF NotReading, BufferType
    <3>3. Do(g, Called("Truncate", <<n>>), 0, <<>>, "nil")
      BY <1>5, <2>3 DEF Truncate
    <3> HIDE DEF g
    <3>4. Ordered(g) /\ Spare(g) >= Spare(buffer)
      BY <1>1, <3>1, <3>2 DEF Ordered, Spare, Cap
    <3> QED BY <3>3, <3>4, DoInv
  <2> QED BY <2>1, <2>2, <2>3
<1> QED BY <1>4, <1>5 DEF Discarding

(* Grow keeps the older promise too: a count for which there is not enough *)
(* spare is larger than it.                                                *)
LEMMA GrowInv == ASSUME Inv, NEW n \in Room, Grow(n) PROVE Inv'
<1>1. Ordered(buffer) /\ Spare(buffer) \in Nat /\ promise \in Nat /\ promise <= Spare(buffer)
  BY OrderedFields DEF Inv
<1>2. CASE n < 0 /\ Do(buffer, Called("Grow", <<n>>), 0, <<>>, "negative count")
  <2>1. Spare(buffer) >= Spare(buffer)
    BY <1>1
  <2> QED BY <1>1, <1>2, <2>1, DoInv
<1>3. CASE n >= 0 /\ Do(Reclaimed(buffer), Called("Grow", <<n>>), 0, <<>>, "too large")
  BY <1>1, <1>3, ReclaimedKeeps, DoInv
<1>4. ASSUME n >= 0, NEW g \in Grown(buffer, n),
             Leave([g EXCEPT !.len = @ - n], Called("Grow", <<n>>), 0, <<>>, "nil"),
             promise' = IF n > promise THEN n ELSE promise
      PROVE  Inv'
  <2> DEFINE h == [g EXCEPT !.len = @ - n]
  <2>1. n \in Nat
    BY <1>4, BufferAssumption
  <2>2. /\ Ordered(h) /\ n <= Spare(h)
        /\ Spare(h) >= Spare(buffer) \/ n > Spare(buffer)
    <3>1. FoundRoom(buffer, n, h)
      BY <1>1, <2>1, GrownBack
    <3> HIDE DEF h
    <3> QED BY <1>1, <2>1, <3>1, RoomKept DEF FoundRoom
  <2>3. Leave(h, Called("Grow", <<n>>), 0, <<>>, "nil")
    BY <1>4
  <2> HIDE DEF h
  <2>4. Spare(h) \in Nat
    BY <2>2, OrderedFields
  <2>5. promise' \in Nat /\ promise' <= Spare(h)
    BY <1>1, <1>4, <2>1, <2>2, <2>4
  <2> QED BY <2>2, <2>3, <2>5, LeaveInv
<1> QED BY <1>2, <1>3, <1>4 DEF Grow

LEMMA PeekingInv ==
  ASSUME Inv,
         \/ \E k \in Count : Peek(k)
         \/ \E i, k \in Count : PeekFrom(i, k)
         \/ \E i, j, k \in Count : PeekRange(i, j, k)
  PROVE  Inv'
<1>1. Ordered(buffer) /\ Spare(buffer) \in Nat
  BY OrderedFields DEF Inv
<1>2. Ordered(BufReset(buffer)) /\ Spare(BufReset(buffer)) >= Spare(buffer)
  BY <1>1, BufResetKeeps
<1>3. ASSUME NEW call, NEW n, NEW items, NEW err,
             Do(buffer, call, n, items, err) \/ Do(BufReset(buffer), call, n, items, err)
      PROVE  Inv'
  BY <1>1, <1>2, <1>3, DoInv
<1> QED BY <1>3 DEF Peek, PeekFrom, PeekRange, PeekEmpty

-----------------------------------------------------------------------------
(* Streaming.                                                              *)

LEMMA BeginInv == ASSUME Inv, NEW op \in {"ReadFrom", "WriteTo"}, NEW length \in Nat,
                         Begin(op, length)
                  PROVE  Inv'
<1>1. stream' \in StreamType /\ stream'.room = 0
  BY NoStreamType DEF Begin, StreamType, NoStream
<1>2. buffer' = NotReading(buffer) /\ promise' = promise
  BY DEF Begin
<1>3. Ordered(NotReading(buffer)) /\ Spare(NotReading(buffer)) = Spare(buffer)
  BY NotReadingKeeps DEF Inv
<1> QED BY <1>1, <1>2, <1>3 DEF Inv, Handed, Ordered, Spare, Cap

(* A streaming call returns.                                               *)
LEMMA FinishInv ==
  ASSUME Inv, NEW b, buffer' = b, Ordered(b), promise' \in Nat, promise' <= Spare(b),
         stream' = NoStream
  PROVE  Inv'
BY NoStreamType DEF Inv, Handed, Ordered, Spare, Cap

LEMMA ReadFromGrowsInv == ASSUME Inv, ReadFromGrows PROVE Inv'
<1>1. /\ Ordered(buffer) /\ Spare(buffer) \in Nat /\ promise \in Nat /\ promise <= Spare(buffer)
      /\ promise' = promise /\ MinRead \in Nat
  BY OrderedFields, BufferAssumption DEF Inv, ReadFromGrows
<1>2. ASSUME NEW g \in Grown(buffer, MinRead),
             buffer' = [g EXCEPT !.len = @ - MinRead],
             stream' = [stream EXCEPT !.room = Cap(g) - (g.len - MinRead)]
      PROVE  Inv'
  <2> DEFINE h == [g EXCEPT !.len = @ - MinRead]
  <2>1. /\ Ordered(h) /\ MinRead <= Spare(h)
        /\ Spare(h) >= Spare(buffer) \/ MinRead > Spare(buffer)
        /\ Spare(h) = Cap(g) - (g.len - MinRead)
    <3>1. FoundRoom(buffer, MinRead, h) /\ Spare(h) = Cap(g) - (g.len - MinRead)
      BY <1>1, GrownBack
    <3> HIDE DEF h
    <3> QED BY <1>1, <3>1, RoomKept DEF FoundRoom
  <2> HIDE DEF h
  <2>2. Spare(h) \in Nat
    BY <2>1, OrderedFields
  <2>3. buffer' = h /\ stream' = [stream EXCEPT !.room = Spare(h)]
    BY <1>2, <2>1 DEF h
  <2>4. stream' \in StreamType /\ stream'.room = Spare(h)
    <3>1. stream \in StreamType
      BY DEF Inv
    <3> QED BY <2>2, <2>3, <3>1 DEF StreamType
  <2>5. promise' \in Nat /\ promise' <= Spare(h)
    BY <1>1, <2>1, <2>2
  <2> QED BY <2>1, <2>3, <2>4, <2>5 DEF Inv, Handed, Ordered, Spare, Cap
<1>3. CASE buffer' = Reclaimed(buffer) /\ ReadFromReturns(stream.moved, "too large")
  <2>1. Ordered(Reclaimed(buffer)) /\ Spare(Reclaimed(buffer)) >= Spare(buffer)
    BY <1>1, ReclaimedKeeps
  <2>2. stream' = NoStream /\ Spare(Reclaimed(buffer)) \in Nat
    BY <1>3, <2>1, OrderedFields DEF ReadFromReturns, Finish
  <2>3. promise' <= Spare(Reclaimed(buffer))
    BY <1>1, <2>1, <2>2
  <2> QED BY <1>1, <1>3, <2>1, <2>2, <2>3, FinishInv
<1> QED BY <1>2, <1>3 DEF ReadFromGrows

LEMMA ChunkType == \A chunk \in Chunk : chunk \in Seq(Item)
BY BufferAssumption DEF Chunk

LEMMA ReadFromTurnInv ==
  ASSUME Inv, NEW chunk \in Chunk, NEW err, ReadFromTurn(chunk, err) PROVE Inv'
<1> DEFINE b == Put(Extended(buffer, Len(chunk)), buffer.len, chunk)
<1>1. /\ Ordered(buffer) /\ Spare(buffer) \in Nat /\ promise \in Nat /\ promise <= Spare(buffer)
      /\ chunk \in Seq(Item) /\ Len(chunk) \in Nat /\ buffer.len \in Nat
      /\ stream \in StreamType /\ stream.op = "ReadFrom"
  BY ChunkType, OrderedFields DEF Inv, ReadFromTurn
<1>2. Len(chunk) <= Spare(buffer) /\ Len(chunk) <= stream.left
  BY <1>1 DEF Inv, Handed, ReadFromTurn
<1>3. Ordered(b) /\ Spare(b) = Spare(buffer) - Len(chunk)
  BY <1>1, <1>2, ExtendedKeeps, PutKeeps
<1>4. buffer' = b
  BY DEF ReadFromTurn
<1> HIDE DEF b
<1>5. promise' \in Nat /\ promise' <= Spare(b)
  BY <1>1, <1>2, <1>3 DEF ReadFromTurn, Written
<1>6. CASE stream' = [stream EXCEPT !.left = @ - Len(chunk), !.room = 0,
                                    !.moved = stream.moved \o chunk]
  <2>1. stream.left - Len(chunk) \in Nat /\ stream.moved \o chunk \in Seq(Item)
    BY <1>1, <1>2 DEF StreamType
  <2>2. stream' \in StreamType /\ stream'.room = 0
    BY <1>1, <1>6, <2>1 DEF StreamType
  <2> QED BY <1>3, <1>4, <1>5, <2>2 DEF Inv, Handed, Ordered, Spare, Cap
<1>7. CASE stream' = NoStream
  BY <1>3, <1>4, <1>5, <1>7, FinishInv
<1> QED BY <1>6, <1>7 DEF ReadFromTurn, ReadFromReturns, Finish

LEMMA WriteToTurnInv ==
  ASSUME Inv, NEW num \in 0 .. MaxAlloc + Slack, NEW err, WriteToTurn(num, err) PROVE Inv'
<1>1. /\ Ordered(buffer) /\ buffer \in BufferType /\ buffer.len \in Nat /\ buffer.off \in Nat
      /\ Spare(buffer) \in Nat /\ promise \in Nat /\ promise <= Spare(buffer)
      /\ promise' = promise /\ stream' = NoStream
  BY OrderedFields DEF Inv, Ordered, WriteToTurn, Finish
<1>2. CASE buffer' = buffer
  BY <1>1, <1>2, FinishInv
<1>3. CASE num <= BufLen(buffer) /\ buffer' = [buffer EXCEPT !.off = @ + num]
  <2> DEFINE g == [buffer EXCEPT !.off = @ + num]
  <2>1. num \in Nat /\ buffer.off + num \in Nat /\ buffer.off + num <= buffer.len
    BY <1>1, <1>3, BufferAssumption DEF BufLen
  <2>2. /\ g \in BufferType /\ g.cells = buffer.cells /\ g.len = buffer.len
        /\ g.off = buffer.off + num /\ g.made = buffer.made
    BY <1>1, <2>1 DEF BufferType
  <2>3. buffer' = g
    BY <1>3
  <2> HIDE DEF g
  <2>4. Ordered(g) /\ Spare(g) = Spare(buffer)
    BY <1>1, <2>1, <2>2, MovedKeeps
  <2> QED BY <1>1, <2>3, <2>4, FinishInv
<1>4. CASE buffer' = BufReset(buffer)
  <2>1. Ordered(BufReset(buffer)) /\ Spare(BufReset(buffer)) >= Spare(buffer)
    BY <1>1, BufResetKeeps
  <2>2. Spare(BufReset(buffer)) \in Nat
    BY <2>1, OrderedFields
  <2>3. promise' \in Nat /\ promise' <= Spare(BufReset(buffer))
    BY <1>1, <2>1, <2>2
  <2> QED BY <1>1, <1>4, <2>1, <2>3, FinishInv
<1>5. num < BufLen(buffer) => num <= BufLen(buffer)
  BY <1>1, BufferAssumption DEF BufLen
<1> QED
  <2>1. \/ buffer' = buffer \/ buffer' = BufReset(buffer)
        \/ num <= BufLen(buffer) /\ buffer' = [buffer EXCEPT !.off = @ + num]
    BY <1>5, Zenon DEF WriteToTurn
  <2> QED BY <1>2, <1>3, <1>4, <2>1

LEMMA StreamingInv == ASSUME Inv, Streaming PROVE Inv'
<1>1. ASSUME NEW length \in Length, ReadFrom(length) PROVE Inv'
  BY <1>1, BufferAssumption, BeginInv DEF ReadFrom
<1>2. CASE ReadFromNegative
  BY <1>2, FinishInv DEF ReadFromNegative, ReadFromReturns, Finish, Inv
<1>3. CASE WriteTo
  <2>1. CASE Begin("WriteTo", 0)
    BY <2>1, BeginInv
  <2>2. CASE Do(BufReset(buffer), Called("WriteTo", <<>>), 0, <<>>, "nil")
    <3>1. Ordered(BufReset(buffer)) /\ Spare(BufReset(buffer)) >= Spare(buffer)
      BY BufResetKeeps DEF Inv
    <3> QED BY <2>2, <3>1, DoInv
  <2> QED BY <1>3, <2>1, <2>2 DEF WriteTo
<1> QED BY <1>1, <1>2, <1>3, ReadFromGrowsInv, ReadFromTurnInv, WriteToTurnInv DEF Streaming

LEMMA NextInv == ASSUME Inv, [Next]_vars PROVE Inv'
<1>1. CASE UNCHANGED vars
  BY <1>1 DEF vars, Inv, Handed, Ordered, Spare, Cap
<1>2. CASE \E n \in Room : Grow(n)
  BY <1>2, GrowInv
<1>3. CASE \E delim \in Delim : ReadItems(delim)
  BY <1>3, ReadItemsInv
<1> QED BY <1>1, <1>2, <1>3, WritingInv, ReadingInv, DiscardingInv, StreamingInv, PeekingInv DEF Next

LEMMA InitInv == ASSUME Init PROVE Inv
<1>1. stream = NoStream /\ promise = 0
  BY DEF Init
<1>2. Ordered(buffer)
  <2>1. ASSUME NEW s \in Seq(Item), NEW made \in BOOLEAN, Len(s) <= MaxAlloc, made \/ Len(s) = 0
        PROVE  Ordered(NewBuffer(s, made))
    <3>1. NewBuffer(s, made) \in BufferType
      BY <2>1 DEF NewBuffer, BufferType
    <3>2. Len(s) <= MaxAlloc + Slack
      BY <2>1, BufferAssumption
    <3> QED BY <2>1, <3>1, <3>2 DEF NewBuffer, Ordered, Cap
  <2>2. CASE buffer = NewBuffer(<<>>, FALSE)
    <3>1. <<>> \in Seq(Item) /\ Len(<<>>) = 0 /\ 0 <= MaxAlloc
      BY BufferAssumption
    <3> QED BY <2>1, <2>2, <3>1
  <2>3. CASE \E s \in Owned : buffer = NewBuffer(s, TRUE)
    BY <2>1, <2>3, BufferAssumption
  <2> QED BY <2>2, <2>3 DEF Init
<1>3. Spare(buffer) \in Nat
  BY <1>2, OrderedFields
<1> QED BY <1>1, <1>2, <1>3, NoStreamType DEF Inv, Handed

-----------------------------------------------------------------------------

LEMMA InvImplies == Inv => TypeOK /\ GrowHolds /\ RoomForMinRead
BY OrderedFields DEF Inv, Handed, Ordered, BufferType, Spare, TypeOK, GrowHolds, RoomForMinRead

LEMMA Invariance == Spec => []Inv
<1>1. Init => Inv
  BY InitInv
<1>2. Inv /\ [Next]_vars => Inv'
  BY NextInv
<1> QED BY <1>1, <1>2, PTL DEF Spec

(* Read, written and spare items stay in that order within the array, and  *)
(* the array within the largest there may be, through every call of        *)
(* buffer.go and peek.go and every way grow finds room.                    *)
THEOREM TypeCorrect == Spec => []TypeOK
BY Invariance, InvImplies, PTL

(* Grow's promise: after Grow(n) the room for n items is there until they  *)
(* are written, whatever is called in between.                             *)
THEOREM RoomLasts == Spec => []GrowHolds
BY Invariance, InvImplies, PTL

(* ReadFrom hands its reader at least MinRead items of room, and all that  *)
(* there is.                                                               *)
THEOREM ReaderHasRoom == Spec => []RoomForMinRead
BY Invariance, InvImplies, PTL

-----------------------------------------------------------------------------
(* What changes the memory that Next and Value have handed out.            *)

Shifts ==
  /\ buffer.off > 0 /\ buffer'.off = 0
  /\ stream'.op = "ReadFrom" \/ result'.op \in {"Write", "WriteItem", "Grow", "ReadFrom"}

LEMMA SameCells == ASSUME buffer'.cells = buffer.cells PROVE StaysPut(buffer, buffer')
BY DEF StaysPut

LEMMA DoCells ==
  ASSUME NEW b, NEW call, NEW n, NEW items, NEW err, Do(b, call, n, items, err),
         b.cells = buffer.cells
  PROVE  StaysPut(buffer, buffer')
BY SameCells DEF Do, Leave

LEMMA CutCells ==
  ASSUME NEW b, Ordered(b)
  PROVE  /\ BufReset(b).cells = b.cells /\ NotReading(b).cells = b.cells
         /\ Reclaimed(b).cells = b.cells /\ NotReading(b).len = b.len /\ NotReading(b).off = b.off
BY DEF Ordered, BufferType, BufReset, NotReading, Reclaimed

(* Items put in behind those there were.                                   *)
LEMMA PutCells ==
  ASSUME NEW b, Ordered(b), NEW h, Ordered(h), Moved(b, h) \/ InPlace(b, h),
         NEW p \in Seq(Item), Len(p) <= Spare(h)
  PROVE  LET g == Put(Extended(h, Len(p)), h.len, p) IN g.off = h.off /\ (Moved(b, g) \/ StaysPut(b, g))
<1> DEFINE e == Extended(h, Len(p))
           g == Put(e, h.len, p)
<1> SUFFICES g.off = h.off /\ (Moved(b, g) \/ StaysPut(b, g))
  OBVIOUS
<1>1. /\ h \in BufferType /\ h.len \in Nat /\ Cap(h) \in Nat /\ h.len <= Cap(h) /\ Len(p) \in Nat
      /\ b.len \in Nat
  BY OrderedFields DEF Ordered
<1>2. /\ e \in BufferType /\ e.cells = h.cells /\ e.len = h.len + Len(p) /\ e.off = h.off
      /\ Cap(e) = Cap(h)
  BY <1>1 DEF Extended, BufferType, Cap
<1> HIDE DEF e
<1>3. /\ g.off = h.off /\ g.len = h.len + Len(p)
      /\ g.cells = [i \in 1 .. Cap(h) |->
                      IF h.len < i /\ i <= h.len + Len(p) THEN p[i - h.len] ELSE h.cells[i]]
  BY <1>2 DEF Put, BufferType
<1> HIDE DEF g
<1>4. CASE Moved(b, h)
  BY <1>3, <1>4 DEF Moved
<1>5. CASE InPlace(b, h)
  <2>1. ASSUME NEW i \in 1 .. Smaller(b.len, g.len) PROVE g.cells[i] = b.cells[i]
    <3>1. Smaller(b.len, g.len) = b.len /\ b.len = h.len
      BY <1>1, <1>3, <1>5 DEF Smaller, InPlace
    <3>2. i \in 1 .. b.len
      BY <3>1
    <3>3. i \in 1 .. Cap(h) /\ ~ (h.len < i)
      BY <1>1, <3>1, <3>2
    <3> QED BY <1>3, <1>5, <3>2, <3>3 DEF InPlace
  <2> QED BY <1>3, <2>1 DEF StaysPut
<1> QED BY <1>3, <1>4, <1>5

LEMMA AppendCells ==
  ASSUME Inv, NEW op \in {"Write", "WriteItem"}, NEW p \in Seq(Item), NEW n,
         AppendItems([Called(op, <<>>) EXCEPT !.given = p], p, n)
  PROVE  StaysPut(buffer, buffer') \/ Shifts
<1> DEFINE b == NotReading(buffer)
           call == [Called(op, <<>>) EXCEPT !.given = p]
<1>1. /\ Ordered(b) /\ b.cells = buffer.cells /\ b.len = buffer.len /\ b.off = buffer.off
      /\ Len(p) \in Nat
  BY NotReadingKeeps, CutCells DEF Inv
<1>2. ASSUME NEW g \in Lengthened(b, Len(p)),
             Leave(Put(g, g.len - Len(p), p), call, n, <<>>, "nil")
      PROVE  StaysPut(buffer, buffer') \/ Shifts
  <2> HIDE DEF b
  <2>1. PICK h : /\ g = Extended(h, Len(p)) /\ Ordered(h) /\ Len(p) <= Spare(h)
                 /\ Moved(b, h) \/ InPlace(b, h)
    BY <1>1, LengthenedIs
  <2>2. g.len - Len(p) = h.len
    <3>1. h \in BufferType /\ h.len \in Nat
      BY <2>1 DEF Ordered, BufferType
    <3>2. g.len = h.len + Len(p)
      BY <2>1, <3>1 DEF Extended, BufferType
    <3> QED BY <1>1, <3>1, <3>2
  <2>3. buffer' = Put(Extended(h, Len(p)), h.len, p) /\ result'.op = op
    BY <1>2, <2>1, <2>2 DEF Leave, Return, Called, NoResult
  <2>4. Moved(b, buffer') \/ StaysPut(b, buffer')
    BY <1>1, <2>1, <2>3, PutCells
  <2> QED BY <1>1, <2>3, <2>4 DEF Moved, StaysPut, Shifts
<1>3. CASE Do(Reclaimed(b), call, 0, <<>>, "too large")
  <2>1. Reclaimed(b).cells = buffer.cells
    BY <1>1, CutCells
  <2> QED BY <1>3, <2>1, DoCells
<1> QED BY <1>2, <1>3 DEF AppendItems

LEMMA WritingCells == ASSUME Inv, Writing PROVE StaysPut(buffer, buffer') \/ Shifts
<1>1. ASSUME NEW p \in Input, Write(p) PROVE StaysPut(buffer, buffer') \/ Shifts
  <2>1. p \in Seq(Item) /\ "Write" \in {"Write", "WriteItem"}
    BY BufferAssumption
  <2> QED BY <1>1, <2>1, AppendCells DEF Write
<1>2. ASSUME NEW x \in Item, WriteItem(x) PROVE StaysPut(buffer, buffer') \/ Shifts
  <2>1. <<x>> \in Seq(Item) /\ "WriteItem" \in {"Write", "WriteItem"}
    OBVIOUS
  <2> QED BY <1>2, <2>1, AppendCells DEF WriteItem
<1> QED BY <1>1, <1>2 DEF Writing

(* Room for n items without b.buf made longer.                             *)
LEMMA RoomCells ==
  ASSUME Inv, NEW n \in Nat, NEW g \in Grown(buffer, n), buffer' = [g EXCEPT !.len = @ - n]
  PROVE  StaysPut(buffer, buffer') \/ Moved(buffer, buffer')
<1>1. FoundRoom(buffer, n, buffer') /\ buffer.len \in Nat
  BY GrownBack, OrderedFields DEF Inv
<1>2. Moved(buffer, buffer') \/ InPlace(buffer, buffer')
  BY <1>1 DEF FoundRoom
<1>3. CASE InPlace(buffer, buffer')
  BY <1>1, <1>3 DEF InPlace, StaysPut, Smaller
<1> QED BY <1>2, <1>3

LEMMA GrowCells ==
  ASSUME Inv, NEW n \in Room, Grow(n) PROVE StaysPut(buffer, buffer') \/ Shifts
<1>1. CASE Do(buffer, Called("Grow", <<n>>), 0, <<>>, "negative count")
  BY <1>1, DoCells
<1>2. CASE Do(Reclaimed(buffer), Called("Grow", <<n>>), 0, <<>>, "too large")
  BY <1>2, DoCells, CutCells DEF Inv
<1>3. ASSUME n >= 0, NEW g \in Grown(buffer, n),
             Leave([g EXCEPT !.len = @ - n], Called("Grow", <<n>>), 0, <<>>, "nil")
      PROVE  StaysPut(buffer, buffer') \/ Shifts
  <2>1. n \in Nat
    BY <1>3, BufferAssumption
  <2>2. buffer' = [g EXCEPT !.len = @ - n] /\ result'.op = "Grow"
    BY <1>3 DEF Leave, Return, Called, NoResult
  <2>3. StaysPut(buffer, buffer') \/ Moved(buffer, buffer')
    BY <2>1, <2>2, RoomCells
  <2> QED BY <2>2, <2>3 DEF Moved, Shifts
<1> QED BY <1>1, <1>2, <1>3 DEF Grow

LEMMA ReadFromGrowsCells ==
  ASSUME Inv, ReadFromGrows PROVE StaysPut(buffer, buffer') \/ Shifts
<1>1. ASSUME NEW g \in Grown(buffer, MinRead), buffer' = [g EXCEPT !.len = @ - MinRead],
             stream' = [stream EXCEPT !.room = Cap(g) - (g.len - MinRead)]
      PROVE  StaysPut(buffer, buffer') \/ Shifts
  <2>1. MinRead \in Nat
    BY BufferAssumption
  <2>2. stream'.op = "ReadFrom"
    BY <1>1 DEF Inv, StreamType, ReadFromGrows
  <2>3. StaysPut(buffer, buffer') \/ Moved(buffer, buffer')
    BY <1>1, <2>1, RoomCells
  <2> QED BY <2>2, <2>3 DEF Moved, Shifts
<1>2. CASE buffer' = Reclaimed(buffer)
  BY <1>2, CutCells, SameCells DEF Inv
<1> QED BY <1>1, <1>2 DEF ReadFromGrows

LEMMA ReadFromTurnCells ==
  ASSUME Inv, NEW chunk \in Chunk, NEW err, ReadFromTurn(chunk, err)
  PROVE  StaysPut(buffer, buffer')
<1>1. /\ Ordered(buffer) /\ buffer.off \in Nat /\ buffer.len \in Nat
      /\ chunk \in Seq(Item) /\ Len(chunk) <= Spare(buffer)
  BY ChunkType, OrderedFields DEF Inv, Handed, ReadFromTurn
<1>2. InPlace(buffer, buffer)
  BY DEF InPlace
<1>3. buffer' = Put(Extended(buffer, Len(chunk)), buffer.len, chunk)
  BY DEF ReadFromTurn
<1>4. buffer'.off = buffer.off /\ (Moved(buffer, buffer') \/ StaysPut(buffer, buffer'))
  BY <1>1, <1>2, <1>3, PutCells
<1> QED BY <1>1, <1>4 DEF Moved

LEMMA ReadingCells ==
  ASSUME Inv, Reading \/ \E delim \in Delim : ReadItems(delim)
  PROVE  StaysPut(buffer, buffer')
<1>1. buffer \in BufferType /\ Ordered(buffer)
  BY DEF Inv, Ordered
<1>2. \A off, reading :
        [buffer EXCEPT !.off = off, !.isReading = reading].cells = buffer.cells
  BY <1>1 DEF BufferType
<1>3. ASSUME NEW k \in Count, Read(k) \/ NextItems(k) PROVE StaysPut(buffer, buffer')
  BY <1>1, <1>3, CutCells, DoCells DEF Read, NextItems, BufferType
<1>4. CASE ReadItem
  BY <1>1, <1>4, CutCells, DoCells DEF ReadItem, BufferType
<1>5. CASE UnreadItem
  BY <1>1, <1>5, DoCells DEF UnreadItem, BufferType
<1>6. CASE Value
  BY <1>6, DoCells DEF Value
<1>7. ASSUME NEW delim \in Delim, ReadItems(delim) PROVE StaysPut(buffer, buffer')
  <2>1. PICK off, call, n, items, err :
          Do([[buffer EXCEPT !.off = off] EXCEPT !.isReading = TRUE], call, n, items, err)
    BY <1>7, Zenon DEF ReadItems
  <2>2. [[buffer EXCEPT !.off = off] EXCEPT !.isReading = TRUE].cells = buffer.cells
    BY <1>1 DEF BufferType
  <2> QED BY <2>1, <2>2, DoCells
<1> QED BY <1>3, <1>4, <1>5, <1>6, <1>7 DEF Reading

LEMMA OtherCells ==
  ASSUME Inv,
         \/ Discarding
         \/ \E k \in Count : Peek(k)
         \/ \E i, k \in Count : PeekFrom(i, k)
         \/ \E i, j, k \in Count : PeekRange(i, j, k)
  PROVE  StaysPut(buffer, buffer')
<1>1. buffer \in BufferType /\ Ordered(buffer)
  BY DEF Inv, Ordered
<1>2. CASE Discarding
  <2>1. \A n : [NotReading(buffer) EXCEPT !.len = n].cells = buffer.cells
    BY <1>1 DEF NotReading, BufferType
  <2> QED BY <1>1, <1>2, <2>1, CutCells, DoCells DEF Discarding, Reset, Truncate
<1>3. ASSUME NEW call, NEW n, NEW items, NEW err,
             Do(buffer, call, n, items, err) \/ Do(BufReset(buffer), call, n, items, err)
      PROVE  StaysPut(buffer, buffer')
  BY <1>1, <1>3, CutCells, DoCells
<1> QED BY <1>2, <1>3 DEF Peek, PeekFrom, PeekRange, PeekEmpty

LEMMA StreamingCells == ASSUME Inv, Streaming PROVE StaysPut(buffer, buffer') \/ Shifts
<1>1. buffer \in BufferType /\ Ordered(buffer)
  BY DEF Inv, Ordered
<1>2. ASSUME NEW op, NEW length, Begin(op, length) PROVE StaysPut(buffer, buffer')
  BY <1>1, <1>2, CutCells, SameCells DEF Begin
<1>3. CASE \E length \in Length : ReadFrom(length)
  BY <1>2, <1>3 DEF ReadFrom
<1>4. CASE ReadFromNegative
  BY <1>4, SameCells DEF ReadFromNegative
<1>5. CASE WriteTo
  BY <1>1, <1>2, <1>5, CutCells, DoCells DEF WriteTo
<1>6. ASSUME NEW num \in 0 .. MaxAlloc + Slack, NEW err, WriteToTurn(num, err)
      PROVE  StaysPut(buffer, buffer')
  <2>1. buffer' \in {buffer, BufReset(buffer), [buffer EXCEPT !.off = @ + num]}
    BY <1>6 DEF WriteToTurn
  <2>2. [buffer EXCEPT !.off = @ + num].cells = buffer.cells
    BY <1>1 DEF BufferType
  <2> QED BY <1>1, <2>1, <2>2, CutCells, SameCells
<1> QED BY <1>3, <1>4, <1>5, <1>6, ReadFromGrowsCells, ReadFromTurnCells DEF Streaming

LEMMA NextCells == ASSUME Inv, Next PROVE StaysPut(buffer, buffer') \/ Shifts
BY WritingCells, GrowCells, ReadingCells, OtherCells, StreamingCells DEF Next

(* The slices that Next and Value hand out are memory of the array; no     *)
(* call changes an item that stays within b.buf but one that makes room    *)
(* and moves the unread items down to the front.                           *)
THEOREM ReadsKeepMemory == Spec => MemoryKept
<1>1. Inv /\ [Next]_vars => [StaysPut(buffer, buffer') \/ Shifts]_vars
  BY NextCells
<1> QED BY <1>1, Invariance, PTL DEF Spec, MemoryKept, Shifts

-----------------------------------------------------------------------------
(* The item UnreadItem would put back.                                     *)
Back(b) == IF b.isReading /\ b.off > 0 THEN <<b.cells[b.off]>> ELSE <<>>

(* What keeping callers add: after a read there is an item before off, and *)
(* a streaming call has forgotten the last read.                           *)
KeepInv ==
  /\ Inv
  /\ buffer.isReading => buffer.off > 0
  /\ stream # NoStream => ~ buffer.isReading

-----------------------------------------------------------------------------
(* What the operators do to the unread items.                              *)

LEMMA Joined ==
  ASSUME NEW s \in Seq(Item), NEW t \in Seq(Item)
  PROVE  /\ s \o t \in Seq(Item) /\ Len(s \o t) = Len(s) + Len(t)
         /\ \A i \in 1 .. Len(s) : (s \o t)[i] = s[i]
         /\ \A i \in 1 .. Len(t) : (s \o t)[Len(s) + i] = t[i]
<1>1. /\ s \o t \in Seq(Item) /\ Len(s \o t) = Len(s) + Len(t)
      /\ \A i \in 1 .. Len(s) + Len(t) : (s \o t)[i] = IF i <= Len(s) THEN s[i] ELSE t[i - Len(s)]
  BY ConcatProperties
<1>2. Len(s) \in Nat /\ Len(t) \in Nat
  OBVIOUS
<1>3. ASSUME NEW i \in 1 .. Len(s) PROVE (s \o t)[i] = s[i]
  BY <1>1, <1>2
<1>4. ASSUME NEW i \in 1 .. Len(t) PROVE (s \o t)[Len(s) + i] = t[i]
  <2>1. Len(s) + i \in 1 .. Len(s) + Len(t) /\ ~ (Len(s) + i <= Len(s)) /\ (Len(s) + i) - Len(s) = i
    BY <1>2
  <2> QED BY <1>1, <2>1
<1> QED BY <1>1, <1>3, <1>4

LEMMA Advanced ==
  ASSUME NEW b, Ordered(b), NEW n \in Nat, n <= BufLen(b), NEW g \in BufferType,
         g.cells = b.cells, g.len = b.len, g.made = b.made, g.off = b.off + n
  PROVE  Unread(g) = SubSeq(Unread(b), n + 1, Len(Unread(b)))
<1>1. /\ Unread(b) \in Seq(Item) /\ Len(Unread(b)) = BufLen(b) /\ BufLen(b) \in Nat
      /\ \A i \in 1 .. BufLen(b) : Unread(b)[i] = b.cells[b.off + i]
  BY UnreadType, OrderedFields
<1>2. b.off \in Nat /\ b.len \in Nat /\ BufLen(b) = b.len - b.off
  BY OrderedFields DEF BufLen
<1>3. Ordered(g)
  BY <1>2, MovedKeeps
<1>4. BufLen(g) = BufLen(b) - n /\ BufLen(g) \in Nat
  BY <1>2 DEF BufLen
<1>5. /\ Unread(g) \in Seq(Item) /\ Len(Unread(g)) = BufLen(g)
      /\ \A i \in 1 .. BufLen(g) : Unread(g)[i] = g.cells[g.off + i]
  BY <1>3, UnreadType
<1> DEFINE rest == SubSeq(Unread(b), n + 1, Len(Unread(b)))
<1>6. rest \in Seq(Item) /\ Len(rest) = BufLen(b) - n
      /\ \A i \in 1 .. BufLen(b) - n : rest[i] = Unread(b)[n + i]
  BY <1>1
<1> HIDE DEF rest
<1>7. ASSUME NEW i \in 1 .. BufLen(g) PROVE Unread(g)[i] = rest[i]
  <2>1. n + i \in 1 .. BufLen(b) /\ i \in 1 .. BufLen(b) - n /\ b.off + n + i = b.off + (n + i)
    BY <1>1, <1>2, <1>4
  <2>2. Unread(g)[i] = b.cells[b.off + n + i]
    BY <1>5
  <2> QED BY <1>1, <1>6, <2>1, <2>2
<1>8. Unread(g) = rest
  BY <1>4, <1>5, <1>6, <1>7, SeqEqual
<1> QED BY <1>8 DEF rest

LEMMA LastTaken ==
  ASSUME NEW b, Ordered(b), NEW n \in Nat, n <= BufLen(b), NEW g,
         g.cells = b.cells, g.off = b.off + n, g.isReading <=> n > 0
  PROVE  Back(g) = Queue!LastOf(SubSeq(Unread(b), 1, n))
<1>1. /\ Unread(b) \in Seq(Item) /\ Len(Unread(b)) = BufLen(b) /\ BufLen(b) \in Nat /\ b.off \in Nat
      /\ \A i \in 1 .. BufLen(b) : Unread(b)[i] = b.cells[b.off + i]
  BY UnreadType, OrderedFields
<1> DEFINE got == SubSeq(Unread(b), 1, n)
<1>2. got \in Seq(Item) /\ Len(got) = n /\ \A i \in 1 .. n : got[i] = Unread(b)[i]
  BY <1>1
<1> HIDE DEF got
<1>3. CASE n = 0
  <2>1. got = <<>>
    BY <1>2, <1>3
  <2> QED BY <1>3, <2>1 DEF Back, Queue!LastOf, got
<1>4. CASE n > 0
  <2>1. got # <<>> /\ got[n] = b.cells[b.off + n] /\ g.off > 0
    BY <1>1, <1>2, <1>4
  <2> QED BY <1>2, <1>4, <2>1 DEF Back, Queue!LastOf, got
<1> QED BY <1>3, <1>4

LEMMA PutAppends ==
  ASSUME NEW h, Ordered(h), NEW p \in Seq(Item), Len(p) <= Spare(h)
  PROVE  LET g == Put(Extended(h, Len(p)), h.len, p)
         IN  Unread(g) = Unread(h) \o p /\ (g.isReading => h.isReading)
<1> DEFINE e == Extended(h, Len(p))
           g == Put(e, h.len, p)
           q == Unread(h) \o p
<1>1. /\ h \in BufferType /\ h.cells \in Seq(Item) /\ h.len \in Nat /\ h.off \in Nat /\ Cap(h) \in Nat
      /\ h.off <= h.len /\ Len(p) \in Nat /\ h.len + Len(p) <= Cap(h) /\ Cap(h) = Len(h.cells)
      /\ BufLen(h) = h.len - h.off /\ BufLen(h) \in Nat
  BY OrderedFields DEF Ordered, Spare, Cap, BufLen
<1>2. /\ Unread(h) \in Seq(Item) /\ Len(Unread(h)) = BufLen(h)
      /\ \A i \in 1 .. BufLen(h) : Unread(h)[i] = h.cells[h.off + i]
  BY UnreadType
<1>3. /\ e \in BufferType /\ e.cells = h.cells /\ e.len = h.len + Len(p) /\ e.off = h.off
      /\ e.isReading = h.isReading
  BY <1>1 DEF Extended, BufferType
<1>4. Ordered(e) /\ Cap(e) = Cap(h)
  <2>1. Ordered(e)
    BY <1>1, ExtendedKeeps
  <2> HIDE DEF e
  <2> QED BY <1>3, <2>1 DEF Cap
<1> HIDE DEF e
<1>5. Ordered(g) /\ g.len = e.len /\ g.off = e.off /\ g.isReading = e.isReading
  <2>1. Ordered(g)
    BY <1>1, <1>4, PutKeeps
  <2> QED BY <1>3, <2>1 DEF Put, BufferType
<1>6. \A i \in 1 .. Cap(h) :
        g.cells[i] = IF h.len < i /\ i <= h.len + Len(p) THEN p[i - h.len] ELSE h.cells[i]
  BY <1>3, <1>4 DEF Put, BufferType
<1>7. /\ q \in Seq(Item) /\ Len(q) = BufLen(h) + Len(p)
      /\ \A i \in 1 .. BufLen(h) : q[i] = Unread(h)[i]
      /\ \A i \in 1 .. Len(p) : q[BufLen(h) + i] = p[i]
  <2>1. /\ q \in Seq(Item) /\ Len(q) = Len(Unread(h)) + Len(p)
        /\ \A i \in 1 .. Len(Unread(h)) : q[i] = Unread(h)[i]
        /\ \A i \in 1 .. Len(p) : q[Len(Unread(h)) + i] = p[i]
    BY <1>2, Joined
  <2> HIDE DEF q
  <2> QED BY <1>2, <2>1
<1> HIDE DEF q
<1>8. /\ Unread(g) \in Seq(Item) /\ Len(Unread(g)) = BufLen(g)
      /\ \A i \in 1 .. BufLen(g) : Unread(g)[i] = g.cells[g.off + i]
  BY <1>5, UnreadType
<1>9. BufLen(g) = BufLen(h) + Len(p)
  BY <1>1, <1>3, <1>5 DEF BufLen
<1> HIDE DEF g
<1>10. ASSUME NEW i \in 1 .. BufLen(g) PROVE Unread(g)[i] = q[i]
  <2>1. i \in Int /\ 1 <= i /\ i <= BufLen(h) + Len(p) /\ h.off + i \in 1 .. Cap(h)
    BY <1>1, <1>9
  <2>2. Unread(g)[i] = g.cells[h.off + i]
    BY <1>3, <1>5, <1>8
  <2>3. CASE i <= BufLen(h)
    <3>1. ~ (h.len < h.off + i) /\ i \in 1 .. BufLen(h)
      BY <1>1, <2>1, <2>3
    <3>2. g.cells[h.off + i] = h.cells[h.off + i]
      BY <1>6, <2>1, <3>1
    <3> QED BY <1>2, <1>7, <2>2, <3>1, <3>2
  <2>4. CASE ~ (i <= BufLen(h))
    <3> DEFINE j == i - BufLen(h)
    <3>1. h.len < h.off + i /\ h.off + i <= h.len + Len(p)
          /\ j \in 1 .. Len(p) /\ i = BufLen(h) + j /\ (h.off + i) - h.len = j
      <4>0. BufLen(h) \in Nat /\ Len(p) \in Nat
        BY <1>1
      <4>1. j \in Int /\ i = BufLen(h) + j /\ 0 < j /\ j <= Len(p)
        BY <2>1, <2>4, <4>0
      <4> HIDE DEF j
      <4> QED BY <1>1, <4>1, SMTT(30)
    <3>2. g.cells[h.off + i] = p[j]
      BY <1>6, <2>1, <3>1
    <3> HIDE DEF j
    <3>3. q[BufLen(h) + j] = p[j]
      BY <1>7, <3>1
    <3> QED BY <2>2, <3>1, <3>2, <3>3
  <2> QED BY <2>3, <2>4
<1>11. Unread(g) = q
  BY <1>7, <1>8, <1>9, <1>10, SeqEqual
<1> QED BY <1>3, <1>5, <1>11 DEF q, g, e

LEMMA PutBack ==
  ASSUME NEW b, Ordered(b), b.off > 0, NEW g \in BufferType,
         g.cells = b.cells, g.len = b.len, g.made = b.made, g.off = b.off - 1
  PROVE  Unread(g) = <<b.cells[b.off]>> \o Unread(b)
<1>1. /\ Unread(b) \in Seq(Item) /\ Len(Unread(b)) = BufLen(b) /\ BufLen(b) \in Nat /\ b.off \in Nat
      /\ \A i \in 1 .. BufLen(b) : Unread(b)[i] = b.cells[b.off + i]
      /\ b.len \in Nat /\ b.off <= b.len /\ BufLen(b) = b.len - b.off
      /\ b.cells \in Seq(Item) /\ b.len <= Len(b.cells)
  BY UnreadType, OrderedFields DEF BufLen, Cap
<1>2. Ordered(g) /\ BufLen(g) = BufLen(b) + 1
  BY <1>1, MovedKeeps DEF BufLen
<1>3. /\ Unread(g) \in Seq(Item) /\ Len(Unread(g)) = BufLen(g)
      /\ \A i \in 1 .. BufLen(g) : Unread(g)[i] = g.cells[g.off + i]
  BY <1>2, UnreadType
<1> DEFINE one == <<b.cells[b.off]>>
           q == one \o Unread(b)
<1>4. one \in Seq(Item) /\ Len(one) = 1 /\ one[1] = b.cells[b.off]
  BY <1>1
<1> HIDE DEF one
<1>5. /\ q \in Seq(Item) /\ Len(q) = 1 + BufLen(b) /\ q[1] = one[1]
      /\ \A i \in 1 .. BufLen(b) : q[1 + i] = Unread(b)[i]
  <2>1. /\ q \in Seq(Item) /\ Len(q) = Len(one) + Len(Unread(b))
        /\ \A i \in 1 .. Len(one) : q[i] = one[i]
        /\ \A i \in 1 .. Len(Unread(b)) : q[Len(one) + i] = Unread(b)[i]
    BY <1>1, <1>4, Joined
  <2> HIDE DEF q
  <2> QED BY <1>1, <1>4, <2>1
<1> HIDE DEF q
<1>6. ASSUME NEW i \in 1 .. BufLen(g) PROVE Unread(g)[i] = q[i]
  <2>1. i \in Int /\ i \in 1 .. 1 + BufLen(b) /\ g.off + i = b.off + (i - 1)
    BY <1>1, <1>2
  <2>2. Unread(g)[i] = b.cells[b.off + (i - 1)]
    BY <1>3, <2>1
  <2>3. CASE i = 1
    BY <1>1, <1>4, <1>5, <2>1, <2>2, <2>3
  <2>4. CASE i # 1
    <3>1. i - 1 \in 1 .. BufLen(b) /\ i = 1 + (i - 1)
      BY <1>1, <2>1, <2>4
    <3>2. q[1 + (i - 1)] = Unread(b)[i - 1]
      BY <1>5, <3>1
    <3> QED BY <1>1, <2>2, <3>1, <3>2
  <2> QED BY <2>3, <2>4
<1>7. Len(Unread(g)) = Len(q)
  BY <1>1, <1>2, <1>3, <1>5
<1>8. Unread(g) = q
  BY <1>2, <1>3, <1>5, <1>6, <1>7, SeqEqual
<1> QED BY <1>8 DEF q, one

(* A part of the unread items, taken from the array.                       *)
LEMMA PartOfUnread ==
  ASSUME NEW b, Ordered(b), NEW from \in Nat, NEW to \in Nat, from <= to, to <= BufLen(b)
  PROVE  SubSeq(b.cells, b.off + from + 1, b.off + to) = SubSeq(Unread(b), from + 1, to)
<1>1. /\ b.cells \in Seq(Item) /\ b.off \in Nat /\ b.len \in Nat /\ b.off <= b.len
      /\ b.len <= Len(b.cells) /\ BufLen(b) = b.len - b.off
  BY OrderedFields DEF BufLen, Cap
<1>2. /\ Unread(b) \in Seq(Item) /\ Len(Unread(b)) = BufLen(b) /\ BufLen(b) \in Nat
      /\ \A i \in 1 .. BufLen(b) : Unread(b)[i] = b.cells[b.off + i]
  BY UnreadType, OrderedFields
<1> DEFINE s == SubSeq(Unread(b), from + 1, to)
           t == SubSeq(b.cells, b.off + from + 1, b.off + to)
           lo == b.off + from
           hi == b.off + to
<1>3. lo \in Nat /\ hi \in Nat /\ lo <= hi /\ hi <= Len(b.cells) /\ hi - lo = to - from
  BY <1>1
<1>4. t = SubSeq(b.cells, lo + 1, hi)
  OBVIOUS
<1> HIDE DEF lo, hi, t
<1>5. /\ t \in Seq(Item) /\ Len(t) = hi - lo
      /\ \A i \in 1 .. hi - lo : t[i] = b.cells[lo + i]
  <2> DEFINE c == b.cells
  <2>1. c \in Seq(Item) /\ hi <= Len(c)
    BY <1>1, <1>3
  <2> HIDE DEF c
  <2>2. /\ SubSeq(c, lo + 1, hi) \in Seq(Item) /\ Len(SubSeq(c, lo + 1, hi)) = hi - lo
        /\ \A i \in 1 .. hi - lo : SubSeq(c, lo + 1, hi)[i] = c[lo + i]
    BY <1>3, <2>1, PartOf
  <2> QED BY <1>4, <2>2 DEF c
<1>6. /\ s \in Seq(Item) /\ Len(s) = to - from
      /\ \A i \in 1 .. to - from : s[i] = Unread(b)[from + i]
  BY <1>2, PartOf
<1> HIDE DEF s
<1>7. ASSUME NEW i \in 1 .. to - from PROVE t[i] = s[i]
  <2>1. from + i \in 1 .. BufLen(b) /\ lo + i = b.off + (from + i)
    BY <1>1, <1>2 DEF lo
  <2> QED BY <1>2, <1>3, <1>5, <1>6, <2>1
<1>8. t = s
  BY <1>3, <1>5, <1>6, <1>7, SeqEqual
<1> QED BY <1>8 DEF s, t

LEMMA CutBack ==
  ASSUME NEW b, Ordered(b), NEW n \in Nat, n <= BufLen(b), NEW g,
         g.cells = b.cells, g.off = b.off, g.len = b.off + n
  PROVE  Unread(g) = SubSeq(Unread(b), 1, n)
<1>1. b.off \in Nat /\ b.off + 0 + 1 = b.off + 1 /\ 0 + 1 = 1 /\ 0 \in Nat /\ 0 <= n
  BY OrderedFields
<1>2. SubSeq(b.cells, b.off + 0 + 1, b.off + n) = SubSeq(Unread(b), 0 + 1, n)
  BY <1>1, PartOfUnread
<1> QED BY <1>1, <1>2 DEF Unread

-----------------------------------------------------------------------------
(* Calls that finish at once.  Each lemma says which of the queue's calls  *)
(* the step is, and that it keeps an item before off.                      *)

Holds(b) == b.isReading => b.off > 0

LEMMA SameCalled == \A op, args : Queue!Called(op, args) = Called(op, args)
BY DEF Queue!Called, Called, Queue!NoResult, NoResult

LEMMA Idle ==
  ASSUME NEW b, NEW call, NEW n, NEW items, NEW err, Leave(b, call, n, items, err)
  PROVE  /\ buffer' = b /\ Return(call, n, items, err)
         /\ Unread(buffer)' = Unread(b) /\ Back(buffer)' = Back(b)
         /\ [op |-> stream.op, moved |-> stream.moved] = Queue!NoStream
         /\ UNCHANGED [op |-> stream.op, moved |-> stream.moved]
BY DEF Leave, Unread, Back, NoStream, Queue!NoStream

LEMMA TakeStep ==
  ASSUME NEW b, NEW call, NEW k, NEW err,
         Leave(b, call, k, SubSeq(Unread(buffer), 1, k), err),
         Unread(b) = SubSeq(Unread(buffer), k + 1, Len(Unread(buffer))),
         Back(b) = Queue!LastOf(SubSeq(Unread(buffer), 1, k))
  PROVE  Queue!Take(call, k, err)
<1>1. Unread(buffer)' = Unread(b) /\ Back(buffer)' = Back(b)
      /\ Return(call, k, SubSeq(Unread(buffer), 1, k), err)
  BY Idle
<1> QED BY <1>1 DEF Queue!Take, Queue!Return, Return, Back

(* Nothing is taken from an empty buffer, which is reset.                  *)
LEMMA TakeNothing ==
  ASSUME NEW b, Ordered(b), Empty(b)
  PROVE  /\ SubSeq(Unread(b), 1, 0) = <<>> /\ Len(Unread(b)) = 0
         /\ Unread(BufReset(b)) = SubSeq(Unread(b), 1, Len(Unread(b)))
         /\ Back(BufReset(b)) = Queue!LastOf(SubSeq(Unread(b), 1, 0))
         /\ Holds(BufReset(b))
<1>1. Unread(b) = <<>> /\ Unread(BufReset(b)) = <<>> /\ ~ BufReset(b).isReading
  BY NoneUnread, BufResetKeeps
<1>2. SubSeq(<<>>, 1, 0) = <<>> /\ Len(<<>>) = 0
  OBVIOUS
<1> QED BY <1>1, <1>2 DEF Back, Holds, Queue!LastOf

LEMMA TakeSome ==
  ASSUME NEW b, Ordered(b), NEW n \in Nat, n <= BufLen(b)
  PROVE  LET g == [b EXCEPT !.off = @ + n, !.isReading = n > 0]
         IN  /\ Unread(g) = SubSeq(Unread(b), n + 1, Len(Unread(b)))
             /\ Back(g) = Queue!LastOf(SubSeq(Unread(b), 1, n))
             /\ Holds(g)
<1> DEFINE g == [b EXCEPT !.off = @ + n, !.isReading = n > 0]
<1>1. b \in BufferType /\ b.off \in Nat
  BY OrderedFields DEF Ordered
<1>2. /\ g \in BufferType /\ g.cells = b.cells /\ g.len = b.len /\ g.made = b.made
      /\ g.off = b.off + n /\ (g.isReading <=> n > 0)
  <2> DEFINE off == b.off + n
  <2>1. off \in Nat
    BY <1>1
  <2>2. CASE n > 0
    <3>1. g = [b EXCEPT !.off = off, !.isReading = TRUE]
      BY <2>2
    <3> HIDE DEF g, off
    <3>2. /\ g \in BufferType /\ g.cells = b.cells /\ g.len = b.len /\ g.made = b.made
          /\ g.off = off /\ g.isReading
      BY <1>1, <2>1, <3>1 DEF BufferType
    <3> QED BY <2>2, <3>2 DEF off
  <2>3. CASE ~ (n > 0)
    <3>1. g = [b EXCEPT !.off = off, !.isReading = FALSE]
      <4>1. (n > 0) = FALSE
        BY <2>3
      <4> QED BY <4>1
    <3> HIDE DEF g, off
    <3>2. /\ g \in BufferType /\ g.cells = b.cells /\ g.len = b.len /\ g.made = b.made
          /\ g.off = off /\ ~ g.isReading
      BY <1>1, <2>1, <3>1 DEF BufferType
    <3> QED BY <2>3, <3>2 DEF off
  <2> QED BY <2>2, <2>3
<1> HIDE DEF g
<1>3. Unread(g) = SubSeq(Unread(b), n + 1, Len(Unread(b)))
  BY <1>2, Advanced
<1>4. Back(g) = Queue!LastOf(SubSeq(Unread(b), 1, n))
  BY <1>2, LastTaken
<1>5. Holds(g)
  BY <1>1, <1>2 DEF Holds
<1> QED BY <1>3, <1>4, <1>5 DEF g

LEMMA SmallerIs ==
  ASSUME NEW b, Ordered(b), NEW k \in Nat
  PROVE  /\ Smaller(k, BufLen(b)) \in Nat /\ Smaller(k, BufLen(b)) <= BufLen(b)
         /\ Smaller(k, BufLen(b)) = IF k < Len(Unread(b)) THEN k ELSE Len(Unread(b))
         /\ Empty(b) => Smaller(k, BufLen(b)) = 0
         /\ ~ Empty(b) /\ k > 0 => Smaller(k, BufLen(b)) # 0
<1>1. Len(Unread(b)) = BufLen(b) /\ BufLen(b) \in Nat /\ (Empty(b) <=> BufLen(b) = 0)
  BY UnreadType, OrderedFields, NoneUnread
<1> QED BY <1>1 DEF Smaller

LEMMA TakesNone ==
  ASSUME Ordered(buffer), Empty(buffer), NEW call, NEW err,
         Leave(BufReset(buffer), call, 0, <<>>, err)
  PROVE  Queue!Take(call, 0, err) /\ Holds(buffer')
<1> DEFINE q == Unread(buffer)
<1>1. /\ SubSeq(q, 1, 0) = <<>> /\ Unread(BufReset(buffer)) = SubSeq(q, 0 + 1, Len(q))
      /\ Back(BufReset(buffer)) = Queue!LastOf(SubSeq(q, 1, 0)) /\ Holds(BufReset(buffer))
  BY TakeNothing
<1>2. Leave(BufReset(buffer), call, 0, SubSeq(q, 1, 0), err)
  BY <1>1
<1> QED BY <1>1, <1>2, TakeStep, Idle

LEMMA TakesSome ==
  ASSUME Ordered(buffer), NEW n \in Nat, n <= BufLen(buffer), NEW call, NEW err,
         Leave([buffer EXCEPT !.off = @ + n, !.isReading = n > 0], call, n,
               SubSeq(Unread(buffer), 1, n), err)
  PROVE  Queue!Take(call, n, err) /\ Holds(buffer')
<1> DEFINE q == Unread(buffer)
           g == [buffer EXCEPT !.off = @ + n, !.isReading = n > 0]
<1>1. /\ Unread(g) = SubSeq(q, n + 1, Len(q)) /\ Back(g) = Queue!LastOf(SubSeq(q, 1, n))
      /\ Holds(g)
  BY TakeSome
<1>2. Leave(g, call, n, SubSeq(q, 1, n), err)
  OBVIOUS
<1> HIDE DEF g
<1> QED BY <1>1, <1>2, TakeStep, Idle

(* What every call that finishes at once does to the queue's stream.       *)
Finished ==
  /\ [op |-> stream.op, moved |-> stream.moved] = Queue!NoStream
  /\ UNCHANGED [op |-> stream.op, moved |-> stream.moved]

LEMMA DoFinishes ==
  ASSUME NEW b, NEW call, NEW n, NEW items, NEW err, Do(b, call, n, items, err)
  PROVE  Leave(b, call, n, items, err) /\ Finished
BY Idle DEF Do, Finished

LEMMA ReadStep == ASSUME KeepInv, NEW k \in Count, Read(k) PROVE Queue!Call /\ Holds(buffer')
<1> DEFINE n == Smaller(k, BufLen(buffer))
           q == Unread(buffer)
           err == IF k > 0 /\ n = 0 THEN "EOF" ELSE "nil"
<1>1. Ordered(buffer) /\ k \in Nat
  BY BufferAssumption DEF KeepInv, Inv, Read
<1>2. n \in Nat /\ n <= BufLen(buffer) /\ n = (IF k < Len(q) THEN k ELSE Len(q))
      /\ (Empty(buffer) => n = 0) /\ (~ Empty(buffer) /\ k > 0 => n # 0)
  BY <1>1, SmallerIs
<1>3. Queue!Take(Called("Read", <<k>>), n, err) /\ Holds(buffer') /\ Finished
  <2>1. CASE Empty(buffer)
    <3>1. Do(BufReset(buffer), Called("Read", <<k>>), 0, <<>>, IF k = 0 THEN "nil" ELSE "EOF")
      BY <2>1 DEF Read
    <3>2. n = 0 /\ err = IF k = 0 THEN "nil" ELSE "EOF"
      BY <1>1, <1>2, <2>1
    <3>3. Do(BufReset(buffer), Called("Read", <<k>>), 0, <<>>, err)
      BY <3>1, <3>2
    <3> HIDE DEF err
    <3>4. Queue!Take(Called("Read", <<k>>), 0, err) /\ Holds(buffer') /\ Finished
      BY <1>1, <2>1, <3>3, DoFinishes, TakesNone
    <3> QED BY <3>2, <3>4
  <2>2. CASE ~ Empty(buffer)
    <3> DEFINE g == [buffer EXCEPT !.off = @ + n, !.isReading = n > 0]
    <3>1. Do(g, Called("Read", <<k>>), n, SubSeq(q, 1, n), "nil")
      BY <2>2 DEF Read
    <3>2. err = "nil"
      BY <1>2, <2>2
    <3>3. Leave(g, Called("Read", <<k>>), n, SubSeq(q, 1, n), "nil") /\ Finished
      <4> HIDE DEF g, n
      <4> QED BY <3>1, DoFinishes
    <3>4. Queue!Take(Called("Read", <<k>>), n, "nil") /\ Holds(buffer')
      <4> HIDE DEF n
      <4> QED BY <1>1, <1>2, <3>3, TakesSome
    <3> QED BY <3>2, <3>3, <3>4
  <2> QED BY <2>1, <2>2
<1> HIDE DEF n, err
<1>4. Queue!Read(k)
  BY <1>1, <1>2, <1>3, SameCalled DEF Queue!Read, err
<1> QED BY <1>3, <1>4 DEF Queue!Call, Finished

(* A call that takes nothing, adds nothing and forgets at most the last    *)
(* read.                                                                   *)
LEMMA StayStep ==
  ASSUME Ordered(buffer), Holds(buffer),
         NEW b, \/ b = buffer
                \/ b = NotReading(buffer)
                \/ b = Reclaimed(buffer)
                \/ b = Reclaimed(NotReading(buffer))
                \/ Empty(buffer) /\ b = BufReset(buffer),
         NEW call, NEW n, NEW items, NEW err, Do(b, call, n, items, err)
  PROVE  /\ Return(call, n, items, err) /\ Finished
         /\ Unread(buffer)' = Unread(buffer)
         /\ Back(buffer)' = Back(buffer) \/ Back(buffer)' = <<>>
         /\ Holds(buffer')
<1>1. /\ Return(call, n, items, err) /\ buffer' = b
      /\ Unread(buffer)' = Unread(b) /\ Back(buffer)' = Back(b) /\ Finished
  BY DoFinishes, Idle
<1>2. Ordered(NotReading(buffer)) /\ Unread(NotReading(buffer)) = Unread(buffer)
      /\ ~ NotReading(buffer).isReading
  BY NotReadingKeeps
<1>3. Ordered(BufReset(buffer)) /\ Unread(BufReset(buffer)) = <<>> /\ ~ BufReset(buffer).isReading
      /\ ~ BufReset(NotReading(buffer)).isReading
  BY <1>2, BufResetKeeps
<1>4. Unread(b) = Unread(buffer) /\ (b = buffer \/ ~ b.isReading)
  BY <1>2, <1>3, ReclaimedKeeps, NoneUnread DEF Reclaimed
<1>5. Holds(b) /\ (Back(b) = Back(buffer) \/ Back(b) = <<>>)
  BY <1>4 DEF Holds, Back
<1> QED BY <1>1, <1>4, <1>5

LEMMA Stays ==
  ASSUME Finished, Unread(buffer)' = Unread(buffer),
         Back(buffer)' = Back(buffer) \/ Back(buffer)' = <<>>,
         Queue!Looking \/ Queue!Panicking
  PROVE  Queue!Call
BY DEF Queue!Call, Finished, Back

LEMMA KeepFacts ==
  ASSUME KeepInv
  PROVE  /\ Ordered(buffer) /\ Holds(buffer)
         /\ Unread(buffer) \in Seq(Item) /\ Len(Unread(buffer)) = BufLen(buffer) /\ BufLen(buffer) \in Nat
         /\ (Empty(buffer) <=> Unread(buffer) = <<>>) /\ (BufLen(buffer) = 0 <=> Unread(buffer) = <<>>)
         /\ (Back(buffer) = <<>> <=> ~ buffer.isReading)
<1>1. Ordered(buffer) /\ Holds(buffer)
  BY DEF KeepInv, Inv, Holds
<1>2. Back(buffer) = <<>> <=> ~ buffer.isReading
  <2>1. <<buffer.cells[buffer.off]>> # <<>>
    OBVIOUS
  <2> QED BY <1>1, <2>1 DEF Back, Holds
<1> QED BY <1>1, <1>2, UnreadType, OrderedFields, NoneUnread

LEMMA NextStep == ASSUME KeepInv, NEW k \in Count, NextItems(k) PROVE Queue!Call /\ Holds(buffer')
<1> DEFINE n == Smaller(k, BufLen(buffer))
           q == Unread(buffer)
<1>1. Ordered(buffer) /\ Holds(buffer) /\ k \in Int
  BY KeepFacts, BufferAssumption
<1>2. CASE k < 0
  <2>1. Do(NotReading(buffer), Called("Next", <<k>>), 0, <<>>, "bounds")
    BY <1>2 DEF NextItems
  <2>2. /\ Return(Called("Next", <<k>>), 0, <<>>, "bounds") /\ Finished
        /\ Unread(buffer)' = Unread(buffer)
        /\ Back(buffer)' = Back(buffer) \/ Back(buffer)' = <<>>
        /\ Holds(buffer')
    BY <1>1, <2>1, StayStep
  <2>3. Queue!Panicking
    BY <1>2, <2>2, SameCalled DEF Queue!Panicking, Queue!Return, Return
  <2> QED BY <2>2, <2>3, Stays
<1>3. CASE ~ (k < 0)
  <2> DEFINE g == [buffer EXCEPT !.off = @ + n, !.isReading = n > 0]
  <2>1. k \in Nat
    BY <1>1, <1>3
  <2>2. n \in Nat /\ n <= BufLen(buffer) /\ n = (IF k < Len(q) THEN k ELSE Len(q))
    BY <1>1, <2>1, SmallerIs
  <2>3. Do(g, Called("Next", <<k>>), n, SubSeq(q, 1, n), "nil")
    BY <1>3 DEF NextItems
  <2>4. Leave(g, Called("Next", <<k>>), n, SubSeq(q, 1, n), "nil") /\ Finished
    <3> HIDE DEF g, n
    <3> QED BY <2>3, DoFinishes
  <2>5. Queue!Take(Called("Next", <<k>>), n, "nil") /\ Holds(buffer')
    <3> HIDE DEF n
    <3> QED BY <1>1, <2>2, <2>4, TakesSome
  <2> HIDE DEF n
  <2>6. Queue!NextItems(k)
    BY <2>1, <2>2, <2>5, SameCalled DEF Queue!NextItems
  <2> QED BY <2>4, <2>5, <2>6 DEF Queue!Call, Finished
<1> QED BY <1>2, <1>3

LEMMA ReadItemStep == ASSUME KeepInv, ReadItem PROVE Queue!Call /\ Holds(buffer')
<1>1. Ordered(buffer) /\ (Empty(buffer) <=> Unread(buffer) = <<>>)
  BY KeepFacts
<1>2. Queue!ReadItem /\ Holds(buffer') /\ Finished
  <2>1. CASE Empty(buffer)
    <3>1. Do(BufReset(buffer), Called("ReadItem", <<>>), 0, <<>>, "EOF")
      BY <2>1 DEF ReadItem
    <3>2. Queue!Take(Called("ReadItem", <<>>), 0, "EOF") /\ Holds(buffer') /\ Finished
      BY <1>1, <2>1, <3>1, DoFinishes, TakesNone
    <3> QED BY <1>1, <2>1, <3>2, SameCalled DEF Queue!ReadItem
  <2>2. CASE ~ Empty(buffer)
    <3> DEFINE g == [buffer EXCEPT !.off = @ + 1, !.isReading = TRUE]
               item == buffer.cells[buffer.off + 1]
    <3>1. Do(g, Called("ReadItem", <<>>), 1, <<item>>, "nil")
      BY <2>2 DEF ReadItem
    <3>2. /\ Unread(buffer) \in Seq(Item) /\ Len(Unread(buffer)) = BufLen(buffer)
          /\ BufLen(buffer) \in Nat /\ BufLen(buffer) # 0
          /\ \A i \in 1 .. BufLen(buffer) : Unread(buffer)[i] = buffer.cells[buffer.off + i]
      BY <1>1, <2>2, KeepFacts, UnreadType
    <3>3. 1 <= BufLen(buffer) /\ Unread(buffer)[1] = item
      BY <3>2
    <3> HIDE DEF item
    <3>4. SubSeq(Unread(buffer), 1, 1) = <<item>>
      <4> DEFINE s == SubSeq(Unread(buffer), 1, 1)
      <4>1. s \in Seq(Item) /\ Len(s) = 1 /\ s[1] = item
        BY <3>2, <3>3
      <4> HIDE DEF s
      <4>2. <<item>> \in Seq(Item)
        BY <4>1
      <4>3. s = <<item>>
        BY <4>1, <4>2, SeqEqual
      <4> QED BY <4>3 DEF s
    <3>5. g = [buffer EXCEPT !.off = @ + 1, !.isReading = 1 > 0]
      <4>1. (1 > 0) = TRUE
        OBVIOUS
      <4> QED BY <4>1
    <3> HIDE DEF g
    <3>6. Leave(g, Called("ReadItem", <<>>), 1, SubSeq(Unread(buffer), 1, 1), "nil") /\ Finished
      BY <3>1, <3>4, DoFinishes
    <3>7. Leave([buffer EXCEPT !.off = @ + 1, !.isReading = 1 > 0],
                Called("ReadItem", <<>>), 1, SubSeq(Unread(buffer), 1, 1), "nil")
      BY <3>5, <3>6
    <3>8. Queue!Take(Called("ReadItem", <<>>), 1, "nil") /\ Holds(buffer')
      BY <1>1, <3>3, <3>7, TakesSome
    <3> QED BY <1>1, <2>2, <3>6, <3>8, SameCalled DEF Queue!ReadItem
  <2> QED BY <2>1, <2>2
<1> QED BY <1>2 DEF Queue!Call, Finished

LEMMA UnreadItemStep == ASSUME KeepInv, UnreadItem PROVE Queue!Call /\ Holds(buffer')
<1> DEFINE call == Called("UnreadItem", <<>>)
<1>1. /\ Ordered(buffer) /\ Holds(buffer) /\ Unread(buffer) \in Seq(Item)
      /\ (Back(buffer) = <<>> <=> ~ buffer.isReading)
  BY KeepFacts
<1>2. \E b : /\ Do(b, call, 0, <<>>, IF Back(buffer) = <<>> THEN "unread" ELSE "nil")
             /\ Unread(b) = Back(buffer) \o Unread(buffer) /\ ~ b.isReading
  <2>1. CASE ~ buffer.isReading
    <3>1. Do(buffer, call, 0, <<>>, "unread")
      BY <2>1 DEF UnreadItem
    <3>2. <<>> \o Unread(buffer) = Unread(buffer)
      BY <1>1, ConcatEmptySeq
    <3> QED BY <1>1, <2>1, <3>1, <3>2
  <2>2. CASE buffer.isReading
    <3> DEFINE g == [buffer EXCEPT !.isReading = FALSE, !.off = IF @ > 0 THEN @ - 1 ELSE @]
               off == buffer.off - 1
    <3>1. Do(g, call, 0, <<>>, "nil")
      BY <2>2 DEF UnreadItem
    <3>2. buffer \in BufferType /\ buffer.off > 0 /\ off \in Nat
      BY <1>1, <2>2, OrderedFields DEF Holds, Ordered
    <3>3. g = [buffer EXCEPT !.off = off, !.isReading = FALSE]
      BY <3>2 DEF BufferType
    <3> HIDE DEF g, off
    <3>4. /\ g \in BufferType /\ g.cells = buffer.cells /\ g.len = buffer.len
          /\ g.made = buffer.made /\ g.off = off /\ ~ g.isReading
      BY <3>2, <3>3 DEF BufferType
    <3>5. Unread(g) = <<buffer.cells[buffer.off]>> \o Unread(buffer)
      BY <1>1, <3>2, <3>4, PutBack DEF off
    <3>6. Back(buffer) = <<buffer.cells[buffer.off]>>
      BY <2>2, <3>2 DEF Back
    <3> QED BY <1>1, <2>2, <3>1, <3>4, <3>5, <3>6
  <2> QED BY <2>1, <2>2
<1> HIDE DEF call
<1>3. PICK b : /\ Do(b, call, 0, <<>>, IF Back(buffer) = <<>> THEN "unread" ELSE "nil")
               /\ Unread(b) = Back(buffer) \o Unread(buffer) /\ ~ b.isReading
  BY <1>2
<1>4. /\ buffer' = b /\ Return(call, 0, <<>>, IF Back(buffer) = <<>> THEN "unread" ELSE "nil")
      /\ Unread(buffer)' = Unread(b) /\ Back(buffer)' = Back(b) /\ Finished
  BY <1>3, DoFinishes, Idle
<1>5. Back(b) = <<>> /\ Holds(b)
  BY <1>3 DEF Back, Holds
<1>6. Queue!UnreadItem
  BY <1>3, <1>4, <1>5, SameCalled DEF Queue!UnreadItem, Queue!Return, Return, Back, call
<1> QED BY <1>4, <1>5, <1>6 DEF Queue!Call, Finished

LEMMA ReadItemsStep ==
  ASSUME KeepInv, NEW delim \in Delim, FitsReadItems, ReadItems(delim)
  PROVE  Queue!Call /\ Holds(buffer')
<1> DEFINE hits == {i \in buffer.off + 1 .. buffer.len : buffer.cells[i] \in delim}
           least == CHOOSE i \in hits : \A j \in hits : i <= j
           end == IF hits = {} THEN buffer.len ELSE least
           n == end - buffer.off
           q == Unread(buffer)
           call == [Called("ReadItems", <<>>) EXCEPT !.delim = delim]
           err == IF hits = {} THEN "EOF" ELSE "nil"
<1>1. /\ Ordered(buffer) /\ buffer \in BufferType /\ buffer.len \in Nat /\ buffer.off \in Nat
      /\ buffer.off < buffer.len /\ BufLen(buffer) = buffer.len - buffer.off
      /\ q \in Seq(Item) /\ Len(q) = BufLen(buffer)
      /\ \A i \in 1 .. BufLen(buffer) : q[i] = buffer.cells[buffer.off + i]
  BY KeepFacts, OrderedFields, UnreadType DEF FitsReadItems, Empty, BufLen, Ordered
<1>2. /\ hits \in SUBSET Nat /\ \A i \in hits : buffer.off < i /\ i <= buffer.len
      /\ \A i \in hits : buffer.cells[i] \in delim
      /\ \A i \in buffer.off + 1 .. buffer.len : i \notin hits => buffer.cells[i] \notin delim
  BY <1>1
<1>3. hits # {} => least \in hits /\ \A j \in hits : least <= j
  <2> HIDE DEF hits
  <2>1. hits # {} => \E i \in hits : \A j \in hits : i <= j
    BY <1>2, LeastNatural
  <2> QED BY <2>1
<1>4. Do([buffer EXCEPT !.off = end, !.isReading = TRUE], call, n,
         SubSeq(buffer.cells, buffer.off + 1, end), err)
  BY DEF ReadItems
<1> HIDE DEF hits, least
<1>5. end \in Nat /\ buffer.off < end /\ end <= buffer.len
  <2>1. CASE hits = {}
    BY <1>1, <2>1
  <2>2. CASE hits # {}
    <3>1. least \in Nat /\ buffer.off < least /\ least <= buffer.len
      BY <1>2, <1>3, <2>2
    <3> QED BY <2>2, <3>1
  <2> QED BY <2>1, <2>2
<1> HIDE DEF end
<1>6. n \in Nat /\ n > 0 /\ n <= BufLen(buffer) /\ end = buffer.off + n
  BY <1>1, <1>5
<1> HIDE DEF n
<1>7. Leave([buffer EXCEPT !.off = @ + n, !.isReading = n > 0], call, n, SubSeq(q, 1, n), err)
      /\ Finished
  <2>1. buffer.off + 0 + 1 = buffer.off + 1 /\ 0 + 1 = 1 /\ 0 \in Nat /\ 0 <= n
    BY <1>1, <1>6
  <2>2. SubSeq(buffer.cells, buffer.off + 0 + 1, buffer.off + n) = SubSeq(q, 0 + 1, n)
    BY <1>1, <1>6, <2>1, PartOfUnread
  <2>3. SubSeq(buffer.cells, buffer.off + 1, end) = SubSeq(q, 1, n)
    BY <1>6, <2>1, <2>2
  <2> DEFINE g == [buffer EXCEPT !.off = end, !.isReading = TRUE]
  <2>4. g = [buffer EXCEPT !.off = @ + n, !.isReading = n > 0]
    <3>1. (n > 0) = TRUE
      BY <1>6
    <3> QED BY <1>6, <3>1
  <2> HIDE DEF g, call, err
  <2>5. Do(g, call, n, SubSeq(q, 1, n), err)
    BY <1>4, <2>3 DEF g
  <2>6. Leave(g, call, n, SubSeq(q, 1, n), err) /\ Finished
    BY <2>5, DoFinishes
  <2> QED BY <2>4, <2>6
<1>8. Queue!Take(call, n, err) /\ Holds(buffer')
  <2> HIDE DEF call, err
  <2> QED BY <1>1, <1>6, <1>7, TakesSome
<1>9. Queue!ReadItems(delim)
  <2>1. CASE hits = {}
    <3>1. n = Len(q) /\ err = "EOF"
      BY <1>1, <2>1 DEF n, end
    <3>2. ASSUME NEW i \in 1 .. Len(q) PROVE q[i] \notin delim
      <4>1. buffer.off + i \in buffer.off + 1 .. buffer.len
        BY <1>1
      <4> QED BY <1>1, <1>2, <2>1, <4>1
    <3> HIDE DEF err
    <3> QED BY <1>8, <3>1, <3>2, SameCalled DEF Queue!ReadItems
  <2>2. CASE hits # {}
    <3>1. end \in hits /\ (\A j \in hits : end <= j) /\ err = "nil"
      BY <1>3, <2>2 DEF end
    <3>2. n \in 1 .. Len(q) /\ q[n] \in delim
      BY <1>1, <1>2, <1>6, <3>1
    <3>3. ASSUME NEW i \in 1 .. n - 1 PROVE q[i] \notin delim
      <4>1. /\ buffer.off + i \in buffer.off + 1 .. buffer.len /\ buffer.off + i < end
            /\ i \in 1 .. BufLen(buffer)
        BY <1>1, <1>6
      <4>2. buffer.off + i \notin hits
        BY <1>5, <3>1, <4>1
      <4> QED BY <1>1, <1>2, <4>1, <4>2
    <3> HIDE DEF err
    <3> QED BY <1>8, <3>1, <3>2, <3>3, SameCalled DEF Queue!ReadItems
  <2> QED BY <2>1, <2>2
<1> QED BY <1>7, <1>8, <1>9 DEF Queue!Call, Finished

(* What appending does: p is queued, or the call panics.                   *)
Appended(call, p, n) ==
  /\ Finished /\ Holds(buffer')
  /\ \/ /\ Return(call, n, <<>>, "nil")
        /\ Unread(buffer)' = Unread(buffer) \o p /\ Back(buffer)' = <<>>
     \/ /\ Return(call, 0, <<>>, "too large")
        /\ Unread(buffer)' = Unread(buffer)
        /\ Back(buffer)' = Back(buffer) \/ Back(buffer)' = <<>>

LEMMA AppendStep ==
  ASSUME KeepInv, NEW call, NEW p \in Seq(Item), NEW n, AppendItems(call, p, n)
  PROVE  Appended(call, p, n)
<1> DEFINE b == NotReading(buffer)
<1>1. Ordered(buffer) /\ Holds(buffer) /\ Len(p) \in Nat
  BY KeepFacts
<1>2. Ordered(b) /\ Unread(b) = Unread(buffer) /\ ~ b.isReading
  BY <1>1, NotReadingKeeps
<1> HIDE DEF b
<1>3. ASSUME NEW g \in Lengthened(b, Len(p)),
             Leave(Put(g, g.len - Len(p), p), call, n, <<>>, "nil")
      PROVE  Appended(call, p, n)
  <2>1. PICK h : /\ g = Extended(h, Len(p)) /\ Ordered(h) /\ Len(p) <= Spare(h)
                 /\ Unread(h) = Unread(b) /\ (h.isReading => b.isReading)
    BY <1>1, <1>2, LengthenedIs
  <2>2. g.len - Len(p) = h.len
    <3>1. h \in BufferType /\ h.len \in Nat
      BY <2>1, OrderedFields DEF Ordered
    <3>2. g.len = h.len + Len(p)
      BY <2>1, <3>1 DEF Extended, BufferType
    <3> QED BY <1>1, <3>1, <3>2
  <2> DEFINE new == Put(g, g.len - Len(p), p)
  <2>3. Unread(new) = Unread(buffer) \o p /\ ~ new.isReading
    <3>1. new = Put(Extended(h, Len(p)), h.len, p)
      BY <2>1, <2>2
    <3> HIDE DEF new
    <3>2. Unread(new) = Unread(h) \o p /\ (new.isReading => h.isReading)
      BY <2>1, <3>1, PutAppends
    <3> QED BY <1>2, <2>1, <3>2
  <2> HIDE DEF new
  <2>4. Back(new) = <<>> /\ Holds(new)
    BY <2>3 DEF Back, Holds
  <2>5. /\ buffer' = new /\ Return(call, n, <<>>, "nil")
        /\ Unread(buffer)' = Unread(new) /\ Back(buffer)' = Back(new) /\ Finished
    BY <1>3, Idle DEF new, Finished
  <2> QED BY <2>3, <2>4, <2>5 DEF Appended
<1>4. CASE Do(Reclaimed(b), call, 0, <<>>, "too large")
  <2>1. /\ Return(call, 0, <<>>, "too large") /\ Finished /\ Unread(buffer)' = Unread(buffer)
        /\ (Back(buffer)' = Back(buffer) \/ Back(buffer)' = <<>>) /\ Holds(buffer')
    BY <1>1, <1>4, StayStep DEF b
  <2> QED BY <2>1 DEF Appended
<1> QED BY <1>3, <1>4 DEF AppendItems, b

LEMMA WritingStep == ASSUME KeepInv, Writing PROVE Queue!Call /\ Holds(buffer')
<1>1. ASSUME NEW p \in Input, Write(p) PROVE Queue!Call /\ Holds(buffer')
  <2> DEFINE call == [Called("Write", <<>>) EXCEPT !.given = p]
  <2>1. p \in Seq(Item)
    BY BufferAssumption
  <2>2. AppendItems(call, p, Len(p))
    BY <1>1 DEF Write
  <2>3. Appended(call, p, Len(p))
    <3> HIDE DEF call
    <3> QED BY <2>1, <2>2, AppendStep
  <2>4. CASE /\ Return(call, Len(p), <<>>, "nil")
             /\ Unread(buffer)' = Unread(buffer) \o p /\ Back(buffer)' = <<>>
    <3>1. Queue!Write
      BY <2>4, SameCalled DEF Queue!Write, Queue!Add, Queue!Return, Return
    <3> QED BY <2>3, <2>4, <3>1 DEF Queue!Call, Finished, Appended, Back
  <2>5. CASE /\ Return(call, 0, <<>>, "too large") /\ Unread(buffer)' = Unread(buffer)
             /\ (Back(buffer)' = Back(buffer) \/ Back(buffer)' = <<>>)
    <3>1. Queue!Panicking
      BY <2>5, SameCalled DEF Queue!Panicking, Queue!Return, Return
    <3> QED BY <2>3, <2>5, <3>1, Stays DEF Appended
  <2> QED BY <2>3, <2>4, <2>5 DEF Appended
<1>2. ASSUME NEW x \in Item, WriteItem(x) PROVE Queue!Call /\ Holds(buffer')
  <2> DEFINE call == [Called("WriteItem", <<>>) EXCEPT !.given = <<x>>]
  <2>1. <<x>> \in Seq(Item)
    OBVIOUS
  <2>2. AppendItems(call, <<x>>, 0)
    BY <1>2 DEF WriteItem
  <2>3. Appended(call, <<x>>, 0)
    <3> HIDE DEF call
    <3> QED BY <2>1, <2>2, AppendStep
  <2>4. CASE /\ Return(call, 0, <<>>, "nil")
             /\ Unread(buffer)' = Unread(buffer) \o <<x>> /\ Back(buffer)' = <<>>
    <3>1. Queue!WriteItem
      BY <2>4, SameCalled DEF Queue!WriteItem, Queue!Add, Queue!Return, Return
    <3> QED BY <2>3, <2>4, <3>1 DEF Queue!Call, Finished, Appended, Back
  <2>5. CASE /\ Return(call, 0, <<>>, "too large") /\ Unread(buffer)' = Unread(buffer)
             /\ (Back(buffer)' = Back(buffer) \/ Back(buffer)' = <<>>)
    <3>1. Queue!Panicking
      BY <2>5, SameCalled DEF Queue!Panicking, Queue!Return, Return
    <3> QED BY <2>3, <2>5, <3>1, Stays DEF Appended
  <2> QED BY <2>3, <2>4, <2>5 DEF Appended
<1> QED BY <1>1, <1>2 DEF Writing

LEMMA DiscardingStep == ASSUME KeepInv, Discarding PROVE Queue!Call /\ Holds(buffer')
<1> DEFINE q == Unread(buffer)
<1>1. /\ Ordered(buffer) /\ Holds(buffer) /\ q \in Seq(Item) /\ Len(q) = BufLen(buffer)
      /\ BufLen(buffer) \in Nat
  BY KeepFacts
<1>2. ASSUME NEW call, NEW err, Do(BufReset(buffer), call, 0, <<>>, err)
      PROVE  /\ Return(call, 0, <<>>, err) /\ Finished /\ Holds(buffer')
             /\ Unread(buffer)' = <<>> /\ Back(buffer)' = <<>>
  <2>1. Unread(BufReset(buffer)) = <<>> /\ ~ BufReset(buffer).isReading
    BY <1>1, BufResetKeeps
  <2>2. Back(BufReset(buffer)) = <<>> /\ Holds(BufReset(buffer))
    BY <2>1 DEF Back, Holds
  <2> QED BY <1>2, <2>1, <2>2, DoFinishes, Idle
<1>3. CASE Reset
  <2>1. /\ Return(Called("Reset", <<>>), 0, <<>>, "nil") /\ Finished /\ Holds(buffer')
        /\ Unread(buffer)' = <<>> /\ Back(buffer)' = <<>>
    BY <1>2, <1>3 DEF Reset
  <2>2. Queue!Reset
    BY <2>1, SameCalled DEF Queue!Reset, Queue!Return, Return
  <2> QED BY <2>1, <2>2 DEF Queue!Call, Finished, Back
<1>4. ASSUME NEW n \in Count, Truncate(n) PROVE Queue!Call /\ Holds(buffer')
  <2> DEFINE call == Called("Truncate", <<n>>)
  <2>0. n \in Int
    BY BufferAssumption
  <2>1. CASE n = 0
    <3>1. Do(BufReset(buffer), call, 0, <<>>, "nil")
      BY <1>4, <2>1 DEF Truncate
    <3>2. /\ Return(call, 0, <<>>, "nil") /\ Finished /\ Holds(buffer')
          /\ Unread(buffer)' = <<>> /\ Back(buffer)' = <<>>
      BY <1>2, <3>1
    <3>3. SubSeq(q, 1, n) = <<>> /\ n \in 0 .. Len(q)
      BY <1>1, <2>1
    <3>4. Queue!Keep(n)
      BY <3>2, <3>3, SameCalled DEF Queue!Keep, Queue!Return, Return
    <3> QED BY <3>2, <3>4 DEF Queue!Call, Finished, Back
  <2>2. CASE n # 0 /\ (n < 0 \/ n > BufLen(buffer))
    <3>1. Do(NotReading(buffer), call, 0, <<>>, "range")
      BY <1>4, <2>2 DEF Truncate
    <3>2. /\ Return(call, 0, <<>>, "range") /\ Finished /\ Unread(buffer)' = Unread(buffer)
          /\ (Back(buffer)' = Back(buffer) \/ Back(buffer)' = <<>>) /\ Holds(buffer')
      BY <1>1, <3>1, StayStep
    <3>3. n \notin 0 .. Len(q)
      BY <1>1, <2>0, <2>2
    <3>4. Queue!Panicking
      BY <3>2, <3>3, SameCalled DEF Queue!Panicking, Queue!Return, Return
    <3> QED BY <3>2, <3>4, Stays
  <2>3. CASE n # 0 /\ ~ (n < 0 \/ n > BufLen(buffer))
    <3> DEFINE g == [NotReading(buffer) EXCEPT !.len = buffer.off + n]
    <3>1. /\ n \in Nat /\ n <= BufLen(buffer) /\ n \in 0 .. Len(q) /\ buffer.off + n \in Nat
          /\ buffer \in BufferType
      BY <1>1, <2>0, <2>3, OrderedFields DEF Ordered
    <3>2. g.cells = buffer.cells /\ g.len = buffer.off + n /\ g.off = buffer.off /\ ~ g.isReading
      BY <3>1 DEF NotReading, BufferType
    <3>3. Do(g, call, 0, <<>>, "nil")
      BY <1>4, <2>3 DEF Truncate
    <3> HIDE DEF g
    <3>4. Unread(g) = SubSeq(q, 1, n) /\ Back(g) = <<>> /\ Holds(g)
      BY <1>1, <3>1, <3>2, CutBack DEF Back, Holds
    <3>5. /\ buffer' = g /\ Return(call, 0, <<>>, "nil") /\ Finished
          /\ Unread(buffer)' = Unread(g) /\ Back(buffer)' = Back(g)
      BY <3>3, DoFinishes, Idle
    <3>6. Queue!Keep(n)
      BY <3>1, <3>4, <3>5, SameCalled DEF Queue!Keep, Queue!Return, Return
    <3> QED BY <3>4, <3>5, <3>6 DEF Queue!Call, Finished, Back
  <2> QED BY <2>1, <2>2, <2>3
<1> QED BY <1>3, <1>4 DEF Discarding

(* A look at the buffer.                                                   *)
LEMMA LookStep ==
  ASSUME Ordered(buffer), Holds(buffer), NEW b, b = buffer \/ (Empty(buffer) /\ b = BufReset(buffer)),
         NEW call, NEW items, NEW err, Do(b, call, Len(items), items, err)
  PROVE  /\ Queue!Look(call, items, err) /\ Finished /\ Holds(buffer')
         /\ Unread(buffer)' = Unread(buffer)
         /\ Back(buffer)' = Back(buffer) \/ Back(buffer)' = <<>>
<1>1. /\ Return(call, Len(items), items, err) /\ Finished /\ Unread(buffer)' = Unread(buffer)
      /\ (Back(buffer)' = Back(buffer) \/ Back(buffer)' = <<>>) /\ Holds(buffer')
  BY StayStep
<1> QED BY <1>1 DEF Queue!Look, Queue!Return, Return

(* Any of the peeks into a slice of k items, from the from-th unread item. *)
LEMMA CopyStep ==
  ASSUME KeepInv, NEW from \in Nat, from = 0 \/ from < BufLen(buffer), NEW k \in Nat, NEW call,
         \/ ~ Empty(buffer) /\ Do(buffer, call, Len(CopyFrom(buffer.off + from, k)),
                                  CopyFrom(buffer.off + from, k), "nil")
         \/ Empty(buffer) /\ from = 0 /\ PeekEmpty(call, k)
  PROVE  /\ Queue!Peek(from, k, call) /\ Finished /\ Holds(buffer')
         /\ Unread(buffer)' = Unread(buffer)
         /\ Back(buffer)' = Back(buffer) \/ Back(buffer)' = <<>>
<1> DEFINE q == Unread(buffer)
           to == IF from + k < Len(q) THEN from + k ELSE Len(q)
           items == SubSeq(q, from + 1, to)
           err == IF q = <<>> /\ k > 0 THEN "EOF" ELSE "nil"
<1>1. /\ Ordered(buffer) /\ Holds(buffer) /\ q \in Seq(Item) /\ Len(q) = BufLen(buffer)
      /\ BufLen(buffer) \in Nat /\ (Empty(buffer) <=> q = <<>>)
      /\ buffer.off \in Nat /\ buffer.len \in Nat /\ BufLen(buffer) = buffer.len - buffer.off
  BY KeepFacts, OrderedFields DEF BufLen
<1>2. to \in Nat /\ from <= to /\ to <= BufLen(buffer)
  BY <1>1
<1>3. \E b : /\ b = buffer \/ (Empty(buffer) /\ b = BufReset(buffer))
             /\ Do(b, call, Len(items), items, err)
  <2>1. CASE ~ Empty(buffer)
    <3>1. buffer.off + to = Smaller((buffer.off + from) + k, buffer.len)
      BY <1>1 DEF Smaller
    <3>2. SubSeq(buffer.cells, buffer.off + from + 1, buffer.off + to) = items
      <4> HIDE DEF to
      <4> QED BY <1>1, <1>2, PartOfUnread
    <3>3. CopyFrom(buffer.off + from, k) = items
      BY <3>1, <3>2 DEF CopyFrom
    <3>4. err = "nil"
      BY <1>1, <2>1
    <3> HIDE DEF items, err
    <3> QED BY <2>1, <3>3, <3>4
  <2>2. CASE Empty(buffer)
    <3>1. from = 0 /\ Do(BufReset(buffer), call, 0, <<>>, IF k = 0 THEN "nil" ELSE "EOF")
      BY <2>2 DEF PeekEmpty
    <3>2. err = IF k = 0 THEN "nil" ELSE "EOF"
      BY <1>1, <2>2
    <3>3. items = <<>> /\ Len(<<>>) = 0
      BY <1>1, <1>2, <2>2, <3>1
    <3>4. Do(BufReset(buffer), call, 0, <<>>, err)
      BY <3>1, <3>2
    <3> HIDE DEF items, err
    <3> QED BY <2>2, <3>3, <3>4
  <2> QED BY <2>1, <2>2
<1> HIDE DEF items, err, to
<1>4. /\ Queue!Look(call, items, err) /\ Finished /\ Holds(buffer')
      /\ Unread(buffer)' = Unread(buffer)
      /\ Back(buffer)' = Back(buffer) \/ Back(buffer)' = <<>>
  BY <1>1, <1>3, LookStep
<1> QED BY <1>4 DEF Queue!Peek, items, err, to

LEMMA PeekStep == ASSUME KeepInv, NEW k \in Count, Peek(k) PROVE Queue!Call /\ Holds(buffer')
<1> DEFINE call == Called("Peek", <<k>>)
<1>1. k \in Nat
  BY BufferAssumption DEF Peek
<1>2. buffer.off + 0 = buffer.off
  BY KeepFacts, OrderedFields
<1>3. \/ ~ Empty(buffer) /\ Do(buffer, call, Len(CopyFrom(buffer.off + 0, k)),
                               CopyFrom(buffer.off + 0, k), "nil")
      \/ Empty(buffer) /\ PeekEmpty(call, k)
  BY <1>2 DEF Peek
<1> HIDE DEF call
<1>4. /\ Queue!Peek(0, k, call) /\ Finished /\ Holds(buffer')
      /\ Unread(buffer)' = Unread(buffer)
      /\ Back(buffer)' = Back(buffer) \/ Back(buffer)' = <<>>
  BY <1>1, <1>3, CopyStep
<1>5. Queue!Looking
  BY <1>1, <1>4, SameCalled DEF Queue!Looking, call
<1> QED BY <1>4, <1>5, Stays

LEMMA PeekFromStep ==
  ASSUME KeepInv, NEW idx \in Count, NEW k \in Count, FitsPeekFrom, PeekFrom(idx, k)
  PROVE  Queue!Call /\ Holds(buffer')
<1> DEFINE call == Called("PeekFrom", <<idx, k>>)
<1>1. /\ Ordered(buffer) /\ Holds(buffer) /\ Len(Unread(buffer)) = BufLen(buffer)
      /\ k \in Nat /\ idx \in Int /\ buffer.off = 0 /\ buffer.len \in Nat
      /\ BufLen(buffer) = buffer.len
  BY KeepFacts, OrderedFields, BufferAssumption DEF PeekFrom, FitsPeekFrom, BufLen
<1>2. CASE OutOfBounds(idx)
  <2>1. Do(buffer, call, 0, <<>>, "index")
    BY <1>2 DEF PeekFrom
  <2>2. Len(<<>>) = 0
    OBVIOUS
  <2>3. Do(buffer, call, Len(<<>>), <<>>, "index")
    BY <2>1, <2>2
  <2> HIDE DEF call
  <2>4. /\ Queue!Look(call, <<>>, "index") /\ Finished /\ Holds(buffer')
        /\ Unread(buffer)' = Unread(buffer)
        /\ Back(buffer)' = Back(buffer) \/ Back(buffer)' = <<>>
    BY <1>1, <2>3, LookStep
  <2>5. idx \notin 0 .. Len(Unread(buffer)) - 1
    BY <1>1, <1>2 DEF OutOfBounds
  <2>6. Queue!Looking
    <3>1. k >= 0 /\ call = Queue!Called("PeekFrom", <<idx, k>>)
      BY <1>1, SameCalled DEF call
    <3>2. IF idx \in 0 .. Len(Unread(buffer)) - 1
          THEN Queue!Peek(idx, k, Queue!Called("PeekFrom", <<idx, k>>))
          ELSE Queue!Look(Queue!Called("PeekFrom", <<idx, k>>), <<>>, "index")
      BY <2>4, <2>5, <3>1
    <3> QED BY <3>1, <3>2, Zenon DEF Queue!Looking
  <2> QED BY <2>4, <2>6, Stays
<1>3. CASE ~ OutOfBounds(idx)
  <2>1. /\ idx \in Nat /\ idx < BufLen(buffer) /\ idx \in 0 .. Len(Unread(buffer)) - 1
        /\ ~ Empty(buffer) /\ buffer.off + idx = idx
    BY <1>1, <1>3 DEF OutOfBounds, Empty
  <2>2. Do(buffer, call, Len(CopyFrom(buffer.off + idx, k)), CopyFrom(buffer.off + idx, k), "nil")
    BY <1>3, <2>1 DEF PeekFrom
  <2> HIDE DEF call
  <2>3. /\ Queue!Peek(idx, k, call) /\ Finished /\ Holds(buffer')
        /\ Unread(buffer)' = Unread(buffer)
        /\ Back(buffer)' = Back(buffer) \/ Back(buffer)' = <<>>
    BY <1>1, <2>1, <2>2, CopyStep
  <2>4. Queue!Looking
    <3>1. k >= 0 /\ call = Queue!Called("PeekFrom", <<idx, k>>)
      BY <1>1, SameCalled DEF call
    <3>2. IF idx \in 0 .. Len(Unread(buffer)) - 1
          THEN Queue!Peek(idx, k, Queue!Called("PeekFrom", <<idx, k>>))
          ELSE Queue!Look(Queue!Called("PeekFrom", <<idx, k>>), <<>>, "index")
      BY <2>1, <2>3, <3>1
    <3> QED BY <3>1, <3>2, Zenon DEF Queue!Looking
  <2> QED BY <2>3, <2>4, Stays
<1> QED BY <1>2, <1>3

LEMMA PeekRangeStep ==
  ASSUME KeepInv, NEW from, NEW to, NEW k, FitsPeekRange(from, to), PeekRange(from, to, k)
  PROVE  Queue!Call /\ Holds(buffer')
<1> DEFINE call == Called("PeekRange", <<>>)
<1>1. Ordered(buffer) /\ Holds(buffer)
  BY KeepFacts
<1>2. Len(<<>>) = 0
  OBVIOUS
<1>3. \E b, err : /\ b = buffer \/ (Empty(buffer) /\ b = BufReset(buffer))
                  /\ err \in {"nil", "index", "EOF"}
                  /\ Do(b, call, Len(<<>>), <<>>, err)
  <2>1. CASE from = to
    BY <1>2, <2>1 DEF PeekRange
  <2>2. CASE from # to /\ (OutOfBounds(from) \/ OutOfBounds(to))
    BY <1>2, <2>2 DEF PeekRange
  <2>3. CASE from # to /\ ~ (OutOfBounds(from) \/ OutOfBounds(to))
    <3>1. Empty(buffer) /\ PeekEmpty(call, k)
      BY <2>3 DEF PeekRange, FitsPeekRange
    <3>2. Do(BufReset(buffer), call, 0, <<>>, "nil") \/ Do(BufReset(buffer), call, 0, <<>>, "EOF")
      BY <3>1 DEF PeekEmpty
    <3> QED BY <1>2, <3>1, <3>2
  <2> QED BY <2>1, <2>2, <2>3
<1> HIDE DEF call
<1>4. PICK err \in {"nil", "index", "EOF"} :
        /\ Queue!Look(call, <<>>, err) /\ Finished /\ Holds(buffer')
        /\ Unread(buffer)' = Unread(buffer)
        /\ Back(buffer)' = Back(buffer) \/ Back(buffer)' = <<>>
  BY <1>1, <1>3, LookStep
<1>5. Queue!Looking
  BY <1>4, SameCalled DEF Queue!Looking, call
<1> QED BY <1>4, <1>5, Stays

LEMMA ValueStep == ASSUME KeepInv, Value PROVE Queue!Call /\ Holds(buffer')
<1> DEFINE call == Called("Value", <<>>)
<1>1. Ordered(buffer) /\ Holds(buffer) /\ Len(Unread(buffer)) = BufLen(buffer)
  BY KeepFacts
<1>2. Do(buffer, call, Len(Unread(buffer)), Unread(buffer), "nil")
  BY <1>1 DEF Value
<1> HIDE DEF call
<1>3. /\ Queue!Look(call, Unread(buffer), "nil") /\ Finished /\ Holds(buffer')
      /\ Unread(buffer)' = Unread(buffer)
      /\ Back(buffer)' = Back(buffer) \/ Back(buffer)' = <<>>
  BY <1>1, <1>2, LookStep
<1>4. Queue!Looking
  BY <1>3, SameCalled DEF Queue!Looking, call
<1> QED BY <1>3, <1>4, Stays

(* Where FitsGrow holds, an item that can be put back is not left behind.  *)
LEMMA StillReading ==
  ASSUME Ordered(buffer), Holds(buffer), NEW n \in Nat, FitsGrow(n),
         NEW h, FoundRoom(buffer, n, h), h.isReading
  PROVE  h = buffer
<1>1. /\ buffer.off \in Nat /\ buffer.len \in Nat /\ buffer.off <= buffer.len
      /\ Spare(buffer) = Cap(buffer) - buffer.len /\ Spare(buffer) \in Nat
      /\ (Empty(buffer) <=> BufLen(buffer) = 0)
  BY OrderedFields, NoneUnread DEF Spare
<1>2. ~ BufReset(buffer).isReading
  BY BufResetKeeps
<1>3. CASE h = Reclaimed(buffer)
  BY <1>2, <1>3 DEF Reclaimed
<1>4. CASE n > Spare(buffer) /\ (h.isReading <=> Reclaimed(buffer).isReading)
  <2>1. Reclaimed(buffer).isReading
    BY <1>4
  <2>2. ~ (BufLen(buffer) = 0 /\ buffer.off # 0) /\ buffer.isReading
    BY <1>2, <2>1 DEF Reclaimed
  <2>3. buffer.off # 0 /\ ~ Empty(buffer)
    BY <1>1, <2>2 DEF Holds
  <2>4. n <= Spare(buffer)
    BY <1>1, <2>2, <2>3 DEF FitsGrow
  <2> QED BY <1>1, <1>4, <2>4
<1> QED BY <1>3, <1>4 DEF FoundRoom

LEMMA GrowStep ==
  ASSUME KeepInv, NEW n \in Room, FitsGrow(n), Grow(n) PROVE Queue!Call /\ Holds(buffer')
<1> DEFINE call == Called("Grow", <<n>>)
<1>1. Ordered(buffer) /\ Holds(buffer) /\ n \in Int
  BY KeepFacts, BufferAssumption
<1>2. CASE n < 0 /\ Do(buffer, call, 0, <<>>, "negative count")
  <2>1. /\ Return(call, 0, <<>>, "negative count") /\ Finished /\ Unread(buffer)' = Unread(buffer)
        /\ (Back(buffer)' = Back(buffer) \/ Back(buffer)' = <<>>) /\ Holds(buffer')
    BY <1>1, <1>2, StayStep
  <2>2. Queue!Panicking
    BY <1>2, <2>1, SameCalled DEF Queue!Panicking, Queue!Return, Return
  <2> QED BY <2>1, <2>2, Stays
<1>3. CASE n >= 0 /\ Grown(buffer, n) = {} /\ Do(Reclaimed(buffer), call, 0, <<>>, "too large")
  <2>1. /\ Return(call, 0, <<>>, "too large") /\ Finished /\ Unread(buffer)' = Unread(buffer)
        /\ (Back(buffer)' = Back(buffer) \/ Back(buffer)' = <<>>) /\ Holds(buffer')
    BY <1>1, <1>3, StayStep
  <2>2. n # 0
    <3>1. Cap(Reclaimed(buffer)) - Reclaimed(buffer).len \in Nat
      BY <1>1, ReclaimedKeeps, OrderedFields DEF Spare
    <3>2. ~ (n <= Cap(Reclaimed(buffer)) - Reclaimed(buffer).len)
      BY <1>3 DEF Grown
    <3> QED BY <3>1, <3>2
  <2>3. Queue!Panicking
    <3>1. n > 0 /\ call = Queue!Called("Grow", <<n>>)
      <4>1. n >= 0
        BY <1>3
      <4>2. n > 0
        BY <1>1, <2>2, <4>1
      <4> QED BY <4>2, SameCalled
    <3>2. Queue!Return(Queue!Called("Grow", <<n>>), 0, <<>>, "too large")
      BY <2>1, <3>1 DEF Queue!Return, Return
    <3> QED BY <2>1, <3>1, <3>2, Zenon DEF Queue!Panicking
  <2> QED BY <2>1, <2>3, Stays
<1>4. ASSUME n >= 0, NEW g \in Grown(buffer, n),
             Leave([g EXCEPT !.len = @ - n], call, 0, <<>>, "nil")
      PROVE  Queue!Call /\ Holds(buffer')
  <2> DEFINE h == [g EXCEPT !.len = @ - n]
  <2>1. n \in Nat
    BY <1>1, <1>4
  <2>2. FoundRoom(buffer, n, h)
    BY <1>1, <2>1, GrownBack
  <2>3. Leave(h, call, 0, <<>>, "nil")
    BY <1>4
  <2> HIDE DEF h, call
  <2>4. Unread(h) = Unread(buffer) /\ (h.isReading => h = buffer)
    BY <1>1, <2>1, <2>2, StillReading DEF FoundRoom
  <2>5. Holds(h) /\ (Back(h) = Back(buffer) \/ Back(h) = <<>>)
    BY <1>1, <2>4 DEF Holds, Back
  <2>6. /\ buffer' = h /\ Return(call, 0, <<>>, "nil")
        /\ Unread(buffer)' = Unread(h) /\ Back(buffer)' = Back(h) /\ Finished
    BY <2>3, Idle DEF Finished
  <2>7. Len(<<>>) = 0
    OBVIOUS
  <2>8. Queue!Look(call, <<>>, "nil")
    BY <2>4, <2>6, <2>7 DEF Queue!Look, Queue!Return, Return
  <2>9. Queue!Looking
    BY <2>8, SameCalled DEF Queue!Looking, call
  <2> QED BY <2>4, <2>5, <2>6, <2>9, Stays
<1> QED BY <1>2, <1>3, <1>4 DEF Grow

-----------------------------------------------------------------------------
(* Streaming calls.                                                        *)

LEMMA KeepStreaming ==
  ASSUME KeepInv, stream # NoStream
  PROVE  /\ ~ buffer.isReading /\ Ordered(buffer) /\ Back(buffer) = <<>>
         /\ stream \in StreamType
BY KeepFacts DEF KeepInv, Inv

LEMMA BeginStep ==
  ASSUME KeepInv, NEW op \in {"ReadFrom", "WriteTo"}, NEW length, Begin(op, length)
  PROVE  Queue!Begin(op) /\ ~ buffer'.isReading
<1>1. Unread(NotReading(buffer)) = Unread(buffer) /\ ~ NotReading(buffer).isReading
  BY KeepFacts, NotReadingKeeps
<1>2. Back(NotReading(buffer)) = <<>>
  BY <1>1 DEF Back
<1>3. buffer' = NotReading(buffer) /\ stream = NoStream /\ result' = NoResult
      /\ stream' = [NoStream EXCEPT !.op = op, !.left = length]
  BY DEF Begin
<1>4. Unread(buffer)' = Unread(buffer) /\ Back(buffer)' = <<>>
  BY <1>1, <1>2, <1>3 DEF Unread, Back
<1>5. stream'.op = op /\ stream'.moved = <<>>
  BY <1>3 DEF NoStream
<1>6. /\ [op |-> stream.op, moved |-> stream.moved] = Queue!NoStream
      /\ [op |-> stream.op, moved |-> stream.moved]' = [Queue!NoStream EXCEPT !.op = op]
  BY <1>3, <1>5 DEF NoStream, Queue!NoStream
<1> QED BY <1>1, <1>3, <1>4, <1>6 DEF Queue!Begin, Back, Queue!NoResult, NoResult

(* A streaming call that is not yet done, or that ends with the step.      *)
LEMMA StreamOpen ==
  ASSUME stream.op \in {"ReadFrom", "WriteTo"}
  PROVE  stream # NoStream /\ [op |-> stream.op, moved |-> stream.moved] # Queue!NoStream
BY DEF NoStream, Queue!NoStream

LEMMA StreamDone ==
  ASSUME stream' = NoStream
  PROVE  [op |-> stream.op, moved |-> stream.moved]' = Queue!NoStream
BY DEF NoStream, Queue!NoStream

(* Moving the unread items to other places of another array is nothing to  *)
(* the queue.                                                              *)
LEMMA ReadFromGrowsStep ==
  ASSUME KeepInv, ReadFromGrows
  PROVE  /\ Queue!Break \/ UNCHANGED Queue!vars
         /\ ~ buffer'.isReading
<1>1. stream # NoStream /\ [op |-> stream.op, moved |-> stream.moved] # Queue!NoStream
  BY StreamOpen DEF ReadFromGrows
<1>2. ~ buffer.isReading /\ Ordered(buffer) /\ Back(buffer) = <<>> /\ stream \in StreamType
      /\ MinRead \in Nat
  BY <1>1, KeepStreaming, BufferAssumption
<1>3. ~ Reclaimed(buffer).isReading /\ Unread(Reclaimed(buffer)) = Unread(buffer)
  BY <1>2, BufResetKeeps, ReclaimedKeeps DEF Reclaimed
<1>4. ASSUME NEW g \in Grown(buffer, MinRead),
             buffer' = [g EXCEPT !.len = @ - MinRead],
             stream' = [stream EXCEPT !.room = Cap(g) - (g.len - MinRead)],
             UNCHANGED result
      PROVE  UNCHANGED Queue!vars /\ ~ buffer'.isReading
  <2> DEFINE h == [g EXCEPT !.len = @ - MinRead]
  <2>1. FoundRoom(buffer, MinRead, h)
    BY <1>2, GrownBack
  <2>2. buffer' = h
    BY <1>4
  <2> HIDE DEF h
  <2>3. ~ h.isReading /\ Unread(h) = Unread(buffer)
    BY <1>3, <2>1 DEF FoundRoom
  <2>4. Back(h) = <<>>
    BY <2>3 DEF Back
  <2>5. Unread(buffer)' = Unread(buffer) /\ Back(buffer)' = Back(buffer)
    BY <1>2, <2>2, <2>3, <2>4 DEF Unread, Back
  <2>6. stream'.op = stream.op /\ stream'.moved = stream.moved
    BY <1>2, <1>4 DEF StreamType
  <2> QED BY <1>4, <2>2, <2>3, <2>5, <2>6 DEF Queue!vars, Back
<1>5. ASSUME buffer' = Reclaimed(buffer), ReadFromReturns(stream.moved, "too large")
      PROVE  Queue!Break /\ ~ buffer'.isReading
  <2>1. Back(Reclaimed(buffer)) = <<>>
    BY <1>3 DEF Back
  <2>2. Unread(buffer)' = Unread(buffer) /\ Back(buffer)' = Back(buffer)
    BY <1>2, <1>3, <1>5, <2>1 DEF Unread, Back
  <2>3. [op |-> stream.op, moved |-> stream.moved]' = Queue!NoStream
    BY <1>5, StreamDone DEF ReadFromReturns, Finish
  <2>4. Return([Called("ReadFrom", <<>>) EXCEPT !.given = stream.moved], 0, <<>>, "too large")
    BY <1>5 DEF ReadFromReturns, Finish
  <2> QED BY <1>1, <1>3, <1>5, <2>2, <2>3, <2>4, SameCalled DEF Queue!Break, Queue!Return, Return, Back
<1> QED BY <1>4, <1>5 DEF ReadFromGrows

LEMMA ReadFromTurnStep ==
  ASSUME KeepInv, NEW chunk \in Chunk, NEW err, ReadFromTurn(chunk, err)
  PROVE  Queue!Absorb /\ ~ buffer'.isReading
<1> DEFINE b == Put(Extended(buffer, Len(chunk)), buffer.len, chunk)
           moved == stream.moved \o chunk
<1>1. /\ stream.op = "ReadFrom" /\ stream.room > 0 /\ Len(chunk) <= stream.room
      /\ buffer' = b
  BY DEF ReadFromTurn
<1>2. ~ buffer.isReading /\ Ordered(buffer) /\ Back(buffer) = <<>> /\ stream \in StreamType
  BY <1>1, StreamOpen, KeepStreaming
<1>3. chunk \in Seq(Item) /\ Len(chunk) <= Spare(buffer)
  BY <1>1, ChunkType DEF KeepInv, Inv, Handed
<1>4. Unread(b) = Unread(buffer) \o chunk /\ ~ b.isReading
  <2>1. Unread(b) = Unread(buffer) \o chunk /\ (b.isReading => buffer.isReading)
    BY <1>2, <1>3, PutAppends
  <2> QED BY <1>2, <2>1
<1> HIDE DEF b
<1>5. Back(b) = <<>>
  BY <1>4 DEF Back
<1>6. Unread(buffer)' = Unread(buffer) \o chunk /\ Back(buffer)' = Back(buffer)
  BY <1>1, <1>2, <1>4, <1>5 DEF Unread, Back
<1>7. \/ /\ [op |-> stream.op, moved |-> stream.moved]'
            = [[op |-> stream.op, moved |-> stream.moved] EXCEPT !.moved = moved]
         /\ UNCHANGED result
      \/ /\ [op |-> stream.op, moved |-> stream.moved]' = Queue!NoStream
         /\ \E e \in {"nil", "fault"} :
              Return([Called("ReadFrom", <<>>) EXCEPT !.given = moved], Len(moved), <<>>, e)
  <2>1. CASE /\ stream' = [stream EXCEPT !.left = @ - Len(chunk), !.room = 0, !.moved = moved]
             /\ UNCHANGED result
    <3>1. stream'.op = stream.op /\ stream'.moved = moved
      BY <1>2, <2>1 DEF StreamType
    <3> HIDE DEF moved
    <3> QED BY <2>1, <3>1
  <2>2. ASSUME NEW e \in {"nil", "fault"}, ReadFromReturns(moved, e)
        PROVE  /\ [op |-> stream.op, moved |-> stream.moved]' = Queue!NoStream
               /\ Return([Called("ReadFrom", <<>>) EXCEPT !.given = moved], Len(moved), <<>>, e)
    <3> HIDE DEF moved
    <3> QED BY <2>2, StreamDone DEF ReadFromReturns, Finish
  <2>3. \/ /\ stream' = [stream EXCEPT !.left = @ - Len(chunk), !.room = 0, !.moved = moved]
           /\ UNCHANGED result
        \/ ReadFromReturns(moved, "nil")
        \/ ReadFromReturns(moved, "fault")
    BY DEF ReadFromTurn
  <2> HIDE DEF moved
  <2> QED BY <2>1, <2>2, <2>3
<1>8. Queue!Absorb
  BY <1>1, <1>6, <1>7, SameCalled DEF Queue!Absorb, Queue!Return, Return, Back
<1> QED BY <1>1, <1>4, <1>8

LEMMA ReadFromNegativeStep ==
  ASSUME KeepInv, ReadFromNegative PROVE Queue!Break /\ ~ buffer'.isReading
<1>1. stream # NoStream /\ [op |-> stream.op, moved |-> stream.moved] # Queue!NoStream
  BY StreamOpen DEF ReadFromNegative
<1>2. /\ buffer' = buffer /\ stream' = NoStream
      /\ Return([Called("ReadFrom", <<>>) EXCEPT !.given = stream.moved], 0, <<>>, "negative read")
  BY DEF ReadFromNegative, ReadFromReturns, Finish
<1>3. [op |-> stream.op, moved |-> stream.moved]' = Queue!NoStream /\ ~ buffer.isReading
  BY <1>1, <1>2, StreamDone, KeepStreaming
<1>4. Unread(buffer)' = Unread(buffer) /\ Back(buffer)' = Back(buffer)
  BY <1>2 DEF Unread, Back
<1> QED BY <1>1, <1>2, <1>3, <1>4, SameCalled DEF Queue!Break, Queue!Return, Return, Back

LEMMA WriteToStep ==
  ASSUME KeepInv, WriteTo
  PROVE  /\ Queue!Begin("WriteTo") \/ Queue!EmitNothing
         /\ ~ buffer'.isReading
<1>1. CASE Begin("WriteTo", 0)
  BY <1>1, BeginStep
<1>2. CASE BufLen(buffer) = 0 /\ Do(BufReset(buffer), Called("WriteTo", <<>>), 0, <<>>, "nil")
  <2>1. /\ Unread(buffer) = <<>> /\ Unread(BufReset(buffer)) = <<>>
        /\ ~ BufReset(buffer).isReading
    BY <1>2, KeepFacts, BufResetKeeps
  <2>2. Back(BufReset(buffer)) = <<>>
    BY <2>1 DEF Back
  <2>3. /\ buffer' = BufReset(buffer) /\ Return(Called("WriteTo", <<>>), 0, <<>>, "nil")
        /\ Unread(buffer)' = <<>> /\ Back(buffer)' = <<>> /\ Finished
    BY <1>2, <2>1, <2>2, DoFinishes, Idle
  <2>4. Queue!EmitNothing
    BY <2>1, <2>3, SameCalled DEF Queue!EmitNothing, Queue!Return, Return, Finished, Back
  <2> QED BY <2>1, <2>3, <2>4
<1> QED BY <1>1, <1>2 DEF WriteTo

(* What the writer took is no longer unread, the rest still is.            *)
LEMMA WriteToTurnStep ==
  ASSUME KeepInv, NEW num \in 0 .. MaxAlloc + Slack, NEW err \in StreamErr, WriteToTurn(num, err)
  PROVE  /\ Queue!Emit \/ Queue!Break
         /\ ~ buffer'.isReading
<1> DEFINE q == Unread(buffer)
           g == [buffer EXCEPT !.off = @ + num]
           call == Called("WriteTo", <<>>)
<1>1. /\ stream.op = "WriteTo" /\ stream # NoStream
      /\ [op |-> stream.op, moved |-> stream.moved] # Queue!NoStream
      /\ stream' = NoStream
  BY StreamOpen DEF WriteToTurn, Finish
<1>2. /\ ~ buffer.isReading /\ Ordered(buffer) /\ Back(buffer) = <<>> /\ num \in Nat
      /\ q \in Seq(Item) /\ Len(q) = BufLen(buffer) /\ BufLen(buffer) \in Nat
      /\ [op |-> stream.op, moved |-> stream.moved]' = Queue!NoStream
  BY <1>1, KeepFacts, KeepStreaming, StreamDone, BufferAssumption
<1>3. ASSUME NEW e \in {"nil", "short", "EOF", "fault"}, NEW b, buffer' = b, ~ b.isReading,
             num <= BufLen(buffer), e = "nil" => num = Len(q), e = "short" => num < Len(q),
             Unread(b) = SubSeq(q, num + 1, Len(q)), Return(call, num, SubSeq(q, 1, num), e)
      PROVE  Queue!Emit /\ ~ buffer'.isReading
  <2>1. Back(b) = <<>>
    BY <1>3 DEF Back
  <2>2. Unread(buffer)' = SubSeq(q, num + 1, Len(q)) /\ Back(buffer)' = Back(buffer)
    BY <1>2, <1>3, <2>1 DEF Unread, Back
  <2>3. num \in 0 .. Len(q)
    BY <1>2, <1>3
  <2> HIDE DEF call
  <2>4. Queue!Return(call, num, SubSeq(q, 1, num), e)
    BY <1>3 DEF Queue!Return, Return
  <2> QED BY <1>1, <1>2, <1>3, <2>2, <2>3, <2>4, SameCalled DEF Queue!Emit, Back, call
<1>4. CASE num <= BufLen(buffer)
  <2>1. /\ g \in BufferType /\ g.cells = buffer.cells /\ g.len = buffer.len
        /\ g.made = buffer.made /\ g.off = buffer.off + num /\ (g.isReading <=> buffer.isReading)
    <3>1. buffer \in BufferType /\ buffer.off + num \in Nat
      BY <1>2, OrderedFields DEF Ordered
    <3> QED BY <3>1 DEF BufferType
  <2>2. Unread(g) = SubSeq(q, num + 1, Len(q)) /\ ~ g.isReading
    <3> HIDE DEF g
    <3> QED BY <1>2, <1>4, <2>1, Advanced
  <2>3. CASE num < BufLen(buffer) \/ err # "nil"
    <3>1. buffer' = g /\ \E e \in {"short", "EOF", "fault"} :
            /\ e = "short" => num < Len(q)
            /\ Return(call, num, SubSeq(q, 1, num), e)
      <4>1. CASE err # "nil" /\ buffer' = g /\ Finish(call, num, SubSeq(q, 1, num), err)
        <5> HIDE DEF g, call
        <5> QED BY <4>1 DEF StreamErr, Finish
      <4>2. CASE num < BufLen(buffer) /\ buffer' = g /\ Finish(call, num, SubSeq(q, 1, num), "short")
        <5> HIDE DEF g, call
        <5> QED BY <1>2, <4>2 DEF Finish
      <4>3. ~ (num > BufLen(buffer)) /\ ~ (num = BufLen(buffer) /\ err = "nil")
        BY <1>2, <1>4, <2>3
      <4> QED BY <4>1, <4>2, <4>3 DEF WriteToTurn
    <3> HIDE DEF g, call
    <3> QED BY <1>3, <1>4, <2>2, <3>1
  <2>4. CASE num = BufLen(buffer) /\ err = "nil"
    <3>1. buffer' = BufReset(buffer) /\ Return(call, num, SubSeq(q, 1, num), "nil")
      <4>1. ~ (num > BufLen(buffer)) /\ ~ (num < BufLen(buffer))
        BY <1>2, <2>4
      <4> QED BY <2>4, <4>1 DEF WriteToTurn, Finish
    <3>2. SubSeq(q, num + 1, Len(q)) = <<>>
      BY <1>2, <2>4
    <3>3. Unread(BufReset(buffer)) = <<>> /\ ~ BufReset(buffer).isReading
      BY <1>2, BufResetKeeps
    <3>4. Unread(BufReset(buffer)) = SubSeq(q, num + 1, Len(q)) /\ num = Len(q)
      BY <1>2, <2>4, <3>2, <3>3
    <3> HIDE DEF call, q
    <3> QED BY <1>3, <1>4, <3>1, <3>3, <3>4
  <2> QED BY <1>2, <1>4, <2>3, <2>4
<1>5. CASE ~ (num <= BufLen(buffer))
  <2>1. buffer' = buffer /\ Return(call, 0, <<>>, "write count")
    <3>1. ~ (num < BufLen(buffer)) /\ ~ (num = BufLen(buffer))
      BY <1>2, <1>5
    <3> QED BY <1>5, <3>1 DEF WriteToTurn, Finish
  <2>2. Unread(buffer)' = Unread(buffer) /\ Back(buffer)' = Back(buffer)
    BY <2>1 DEF Unread, Back
  <2>3. Queue!Break
    BY <1>1, <1>2, <2>1, <2>2, SameCalled DEF Queue!Break, Queue!Return, Return, Back
  <2> QED BY <1>2, <2>1, <2>3
<1> QED BY <1>4, <1>5

LEMMA StreamingStep ==
  ASSUME KeepInv, Streaming
  PROVE  [Queue!Next]_(Queue!vars) /\ ~ buffer'.isReading
<1>1. ASSUME NEW length \in Length, ReadFrom(length)
      PROVE  Queue!Begin("ReadFrom") /\ ~ buffer'.isReading
  BY <1>1, BeginStep DEF ReadFrom
<1>2. \/ (Queue!Begin("ReadFrom") \/ Queue!Begin("WriteTo") \/ Queue!Absorb \/ Queue!Emit
          \/ Queue!EmitNothing \/ Queue!Break)
      \/ UNCHANGED Queue!vars
  BY <1>1, ReadFromGrowsStep, ReadFromTurnStep, ReadFromNegativeStep, WriteToStep, WriteToTurnStep
     DEF Streaming
<1>3. ~ buffer'.isReading
  BY <1>1, ReadFromGrowsStep, ReadFromTurnStep, ReadFromNegativeStep, WriteToStep, WriteToTurnStep
     DEF Streaming
<1> QED BY <1>2, <1>3 DEF Queue!Next

-----------------------------------------------------------------------------
(* The refinement.                                                         *)

LEMMA KeepingIsNext == KeepingNext => Next
BY DEF KeepingNext, Next

LEMMA CallStep ==
  ASSUME KeepInv, KeepingNext, ~ Streaming PROVE Queue!Call /\ Holds(buffer')
<1>1. CASE Writing
  BY <1>1, WritingStep
<1>2. CASE Reading
  BY <1>2, ReadStep, NextStep, ReadItemStep, UnreadItemStep, ValueStep DEF Reading
<1>3. CASE Discarding
  BY <1>3, DiscardingStep
<1>4. CASE \/ \E delim \in Delim : FitsReadItems /\ ReadItems(delim)
           \/ \E n \in Room : FitsGrow(n) /\ Grow(n)
  BY <1>4, ReadItemsStep, GrowStep
<1>5. CASE \/ \E k \in Count : Peek(k)
           \/ \E i, k \in Count : FitsPeekFrom /\ PeekFrom(i, k)
           \/ \E i, j, k \in Count : FitsPeekRange(i, j) /\ PeekRange(i, j, k)
  BY <1>5, PeekStep, PeekFromStep, PeekRangeStep
<1> QED BY <1>1, <1>2, <1>3, <1>4, <1>5 DEF KeepingNext

(* Every call that finishes at once begins and ends between two streams.   *)
LEMMA CallEnds ==
  ASSUME KeepingNext, ~ Streaming PROVE stream' = NoStream
<1>1. ASSUME NEW b, NEW call, NEW n, NEW items, NEW err, Leave(b, call, n, items, err)
      PROVE  stream' = NoStream
  BY <1>1 DEF Leave
<1>2. ASSUME NEW b, NEW call, NEW n, NEW items, NEW err, Do(b, call, n, items, err)
      PROVE  stream' = NoStream
  BY <1>1, <1>2 DEF Do
<1>3. CASE Writing
  BY <1>1, <1>2, <1>3 DEF Writing, Write, WriteItem, AppendItems
<1>4. CASE Reading
  BY <1>2, <1>4 DEF Reading, Read, NextItems, ReadItem, UnreadItem, Value
<1>5. CASE Discarding
  BY <1>2, <1>5 DEF Discarding, Reset, Truncate
<1>6. CASE \/ \E delim \in Delim : FitsReadItems /\ ReadItems(delim)
           \/ \E n \in Room : FitsGrow(n) /\ Grow(n)
  BY <1>1, <1>2, <1>6 DEF ReadItems, Grow
<1>7. CASE \/ \E k \in Count : Peek(k)
           \/ \E i, k \in Count : FitsPeekFrom /\ PeekFrom(i, k)
           \/ \E i, j, k \in Count : FitsPeekRange(i, j) /\ PeekRange(i, j, k)
  BY <1>2, <1>7 DEF Peek, PeekFrom, PeekRange, PeekEmpty
<1> QED BY <1>3, <1>4, <1>5, <1>6, <1>7 DEF KeepingNext

LEMMA KeepNext ==
  ASSUME KeepInv, [KeepingNext]_vars
  PROVE  KeepInv' /\ [Queue!Next]_(Queue!vars)
<1>1. CASE UNCHANGED vars
  <2>1. Inv'
    BY <1>1, NextInv DEF KeepInv
  <2>2. UNCHANGED Queue!vars
    BY <1>1 DEF vars, Queue!vars, Unread
  <2> QED BY <1>1, <2>1, <2>2 DEF vars, KeepInv
<1>2. CASE KeepingNext /\ Streaming
  <2>1. Inv'
    BY <1>2, NextInv, KeepingIsNext DEF KeepInv
  <2> QED BY <1>2, <2>1, StreamingStep DEF KeepInv
<1>3. CASE KeepingNext /\ ~ Streaming
  <2>1. Inv'
    BY <1>3, NextInv, KeepingIsNext DEF KeepInv
  <2>2. Queue!Call /\ Holds(buffer')
    BY <1>3, CallStep
  <2>3. stream' = NoStream
    BY <1>3, CallEnds
  <2> QED BY <2>1, <2>2, <2>3 DEF KeepInv, Holds, Queue!Next
<1> QED BY <1>1, <1>2, <1>3

LEMMA KeepInit == ASSUME Init PROVE KeepInv /\ Queue!Init
<1>1. Inv
  BY InitInv
<1>2. ASSUME NEW s \in Seq(Item), NEW made, buffer = NewBuffer(s, made)
      PROVE  Unread(buffer) = s /\ ~ buffer.isReading
  BY <1>2 DEF NewBuffer, Unread
<1>3. <<>> \in Seq(Item) /\ Owned \subseteq Seq(Item)
  BY BufferAssumption
<1>4. Unread(buffer) \in Owned \cup {<<>>} /\ ~ buffer.isReading
  BY <1>2, <1>3 DEF Init
<1>5. Back(buffer) = <<>>
  BY <1>4 DEF Back
<1> QED BY <1>1, <1>4, <1>5 DEF Init, KeepInv, Queue!Init, Queue!NoResult, NoResult,
           Queue!NoStream, NoStream, Back

(* For callers that keep to the contract a Buffer is an ItemQueue: what is *)
(* read is what was written, in order, through every growth, slide, reset  *)
(* and failed transfer of buffer.go; UnreadItem puts back the very item    *)
(* last read; a panic loses nothing.                                       *)
THEOREM RefinesQueue == KeepingSpec => IsItemQueue
<1>1. Init => KeepInv /\ Queue!Init
  BY KeepInit
<1>2. KeepInv /\ [KeepingNext]_vars => KeepInv' /\ [Queue!Next]_(Queue!vars)
  BY KeepNext
<1> QED BY <1>1, <1>2, PTL DEF KeepingSpec, IsItemQueue, Queue!Spec

===============================================================================
