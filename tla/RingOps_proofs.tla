---------------------------- MODULE RingOps_proofs ----------------------------
(***************************************************************************)
(* What the operators of RingOps return, for every ring size and every     *)
(* set of items: each keeps the ring's fields in their ranges, and reads   *)
(* the slice only where it has slots.                                      *)
(***************************************************************************)
EXTENDS RingOps, WellFoundedInduction, TLAPS

-----------------------------------------------------------------------------
(* Arithmetic.                                                             *)

(* An index reduced modulo the length names a slot.                        *)
LEMMA ModInSlot == \A x \in Int : x % N \in Slot
BY RingAssumption DEF Slot

(* One trip round the ring.                                                *)
LEMMA ModOnce ==
  /\ \A x \in Slot : x % N = x
  /\ \A x \in N .. 2 * N - 1 : x % N = x - N
BY RingAssumption DEF Slot

(* Go's % keeps the sign of its left operand.                              *)
LEMMA GoModRange ==
  /\ \A x \in Int : GoMod(x) \in (1 - N) .. (N - 1)
  /\ \A x \in Nat : GoMod(x) \in Slot
BY RingAssumption, ModInSlot DEF GoMod, Slot

LEMMA SlotRange == Slot \subseteq (1 - N) .. (N - 1) /\ Slot \subseteq Int /\ 0 \in Slot
BY RingAssumption DEF Slot

(* The slot d places before the slot w, going round.                       *)
Back(w, d) == IF d <= w THEN w - d ELSE w - d + N

LEMMA ModBack == \A w \in Slot, d \in 1 .. N : (w - d) % N = Back(w, d) /\ Back(w, d) \in Slot
BY RingAssumption DEF Back, Slot

LEMMA Once == \A x \in 0 .. 2 * N - 1 : x % N = IF x < N THEN x ELSE x - N
<1>1. ASSUME NEW x \in 0 .. 2 * N - 1 PROVE x % N = IF x < N THEN x ELSE x - N
  <2>1. CASE x < N
    <3>1. x \in Slot
      BY <2>1, RingAssumption DEF Slot
    <3> QED BY <2>1, <3>1, ModOnce
  <2>2. CASE ~ (x < N)
    <3>1. x \in N .. 2 * N - 1
      BY <2>2, RingAssumption
    <3> QED BY <2>2, <3>1, ModOnce
  <2> QED BY <2>1, <2>2
<1> QED BY <1>1

(* Back from a slot that c places have brought round, and on from there.   *)
On(w, c) == IF w + c < N THEN w + c ELSE w + c - N

LEMMA ModOn ==
  ASSUME NEW w \in Slot, NEW c \in 0 .. N
  PROVE  (w + c) % N = On(w, c)
<1> DEFINE end == w + c
<1>1. end \in 0 .. 2 * N - 1 /\ end \in Int /\ N \in Int
  BY RingAssumption DEF Slot
<1>2. end % N = IF end < N THEN end ELSE end - N
  <2> HIDE DEF end
  <2> QED BY <1>1, Once
<1>3. w \in Int /\ c \in Int
  BY RingAssumption DEF Slot
<1> QED BY <1>1, <1>2, <1>3 DEF On

LEMMA BackOn ==
  ASSUME NEW w \in Slot, NEW c \in 0 .. N, NEW d \in 1 .. N
  PROVE  /\ d <= c => Back(On(w, c), d) = (IF w + c - d < N THEN w + c - d ELSE w + c - d - N)
         /\ d > c => Back(On(w, c), d) = Back(w, d - c)
BY RingAssumption DEF Back, On, Slot

-----------------------------------------------------------------------------
(* Sequences cut out of the slice.                                         *)

(* A slice expression that does not panic holds to - from items, in place. *)
LEMMA SliceType ==
  ASSUME NEW f \in [Slot -> Item], NEW a \in Int, NEW b \in Int, Legal(a, b)
  PROVE  /\ Slice(f, a, b) \in Seq(Item)
         /\ Len(Slice(f, a, b)) = b - a
         /\ \A i \in 1 .. b - a : Slice(f, a, b)[i] = f[a + i - 1]
BY RingAssumption DEF Slice, Legal, Slot

(* copy never copies more than either side holds.                          *)
LEMMA PrefixType ==
  ASSUME NEW s \in Seq(Item), NEW k \in Nat
  PROVE  /\ Prefix(s, k) \in Seq(Item)
         /\ Len(Prefix(s, k)) = IF k < Len(s) THEN k ELSE Len(s)
         /\ \A i \in 1 .. Len(Prefix(s, k)) : Prefix(s, k)[i] = s[i]
BY DEF Prefix

(* A set of natural numbers that is not empty has a least one.             *)
LEMMA LeastNatural ==
  ASSUME NEW T \in SUBSET Nat, T # {}
  PROVE  \E x \in T : \A y \in T : x <= y
<1>1. PICK x \in T : \A y \in T : ~ (<<y, x>> \in OpToRel(<, Nat))
  BY NatLessThanWellFounded, WFMin
<1>2. \A y \in T : ~ (y < x)
  BY <1>1 DEF OpToRel
<1> QED BY <1>2

(* The items before a delimiter are some of the items, from the first on.  *)
LEMMA BeforeType ==
  ASSUME NEW s \in Seq(Item), NEW delim
  PROVE  /\ Before(s, delim) \in Seq(Item)
         /\ Len(Before(s, delim)) \in 0 .. Len(s)
         /\ \A i \in 1 .. Len(Before(s, delim)) : Before(s, delim)[i] = s[i]
<1> DEFINE hits == {i \in 1 .. Len(s) : s[i] \in delim}
           first == CHOOSE i \in hits : \A j \in hits : i <= j
<1>1. CASE hits = {}
  BY <1>1 DEF Before
<1>2. CASE hits # {}
  <2>1. first \in 1 .. Len(s)
    <3>1. hits \in SUBSET Nat
      OBVIOUS
    <3>2. \E i \in hits : \A j \in hits : i <= j
      BY <1>2, <3>1, LeastNatural
    <3> QED BY <3>2
  <2>2. Before(s, delim) = SubSeq(s, 1, first - 1)
    BY <1>2 DEF Before
  <2> QED
    <3> HIDE DEF first
    <3> QED BY <2>1, <2>2
<1> QED BY <1>1, <1>2

-----------------------------------------------------------------------------
(* The ring.                                                               *)

LEMMA RingFields ==
  ASSUME NEW r \in Ring
  PROVE  /\ r.full \in BOOLEAN /\ r.items \in [Slot -> Item]
         /\ r.write \in Slot /\ r.write \in Nat /\ r.write < N
         /\ r.read \in Int /\ 1 - N <= r.read /\ r.read < N
         /\ r.read >= 0 => r.read \in Slot
BY RingAssumption DEF Ring, Slot

LEMMA RingLenType == ASSUME NEW r \in Ring PROVE RingLen(r) \in 0 .. N
<1>1. N + (r.write - r.read) \in Int
  BY RingAssumption DEF Ring, Slot
<1>2. (N + (r.write - r.read)) % N \in Slot
  BY <1>1, ModInSlot
<1> QED BY <1>2, RingAssumption DEF RingLen, Slot

LEMMA WithItems ==
  ASSUME NEW r \in Ring, NEW f \in [Slot -> Item]
  PROVE  [r EXCEPT !.items = f] \in Ring
BY DEF Ring

LEMMA WithRead ==
  ASSUME NEW r \in Ring, NEW full \in BOOLEAN, NEW read \in (1 - N) .. (N - 1)
  PROVE  /\ [r EXCEPT !.read = read] \in Ring
         /\ [r EXCEPT !.full = full, !.read = read] \in Ring
         /\ [r EXCEPT !.read = read, !.full = full] \in Ring
BY DEF Ring

LEMMA NewRingType == NewRing \in Ring
BY RingAssumption, SlotRange DEF NewRing, Ring

LEMMA SettleType ==
  ASSUME NEW r \in Ring, NEW end \in Nat
  PROVE  Settle(r, end) \in Ring
<1>1. CASE end < N
  <2>1. end \in Slot
    BY <1>1, RingAssumption DEF Slot
  <2> QED BY SlotRange, <1>1, <2>1 DEF Settle, SettleWithinBounds, Ring
<1>2. CASE ~ (end < N)
  <2>1. end % N \in Slot
    BY ModInSlot
  <2> QED BY SlotRange, <1>2, <2>1 DEF Settle, SettleWrapped, Ring
<1> QED BY <1>1, <1>2

LEMMA OverwriteType ==
  ASSUME NEW f \in [Slot -> Item], NEW at \in Slot, NEW p \in Seq(Item)
  PROVE  Overwrite(f, at, p) \in [Slot -> Item]
<1>1. ASSUME NEW j \in Slot, at <= j /\ j < at + Len(p)
      PROVE  p[j - at + 1] \in Item
  BY <1>1 DEF Slot
<1> QED BY <1>1 DEF Overwrite

LEMMA StoreType ==
  ASSUME NEW r \in Ring, NEW p \in Seq(Item), Len(p) < N
  PROVE  Store(r, p) \in Ring
<1> DEFINE end == r.write + Len(p)
<1>0. r.write \in Slot /\ r.items \in [Slot -> Item] /\ Len(p) \in Nat
  BY DEF Ring
<1>1. CASE end < N
  BY <1>0, <1>1, OverwriteType, WithItems DEF Store
<1>2. CASE ~ (end < N)
  <2>1. end % N = end - N
    <3>1. end \in N .. 2 * N - 1
      BY <1>0, <1>2, RingAssumption DEF Slot
    <3> QED BY <3>1, ModOnce
  <2>2. ASSUME NEW j \in Slot, j >= r.write
        PROVE  p[j - r.write + 1] \in Item
    BY <1>0, <1>2, <2>2, RingAssumption DEF Slot
  <2>3. ASSUME NEW j \in Slot, j < end % N
        PROVE  p[N - r.write + j + 1] \in Item
    BY <1>0, <2>1, <2>3, RingAssumption DEF Slot
  <2>4. [j \in Slot |-> IF j >= r.write THEN p[j - r.write + 1]
                        ELSE IF j < end % N THEN p[N - r.write + j + 1]
                        ELSE r.items[j]] \in [Slot -> Item]
    BY <1>0, <2>2, <2>3
  <2> QED BY <1>2, <2>4, WithItems DEF Store
<1> QED BY <1>1, <1>2

LEMMA StoreWholeType ==
  ASSUME NEW r \in Ring, NEW p \in Seq(Item), Len(p) >= N
  PROVE  StoreWhole(r, p) \in Ring
<1>1. \A j \in Slot : p[Len(p) - N + j + 1] \in Item
  BY RingAssumption DEF Slot
<1> QED BY <1>1, SlotRange DEF StoreWhole, Ring

LEMMA WrappedType ==
  ASSUME NEW r \in Ring, r.read >= r.write
  PROVE  /\ Wrapped(r) \in Seq(Item)
         /\ Len(Wrapped(r)) = N - r.read + r.write
<1>1. Legal(r.read, N) /\ Legal(0, r.write)
  BY RingAssumption DEF Legal, Ring, Slot
<1>2. /\ Slice(r.items, r.read, N) \in Seq(Item)
      /\ Len(Slice(r.items, r.read, N)) = N - r.read
  BY <1>1, SliceType, RingAssumption DEF Ring
<1>3. /\ Slice(r.items, 0, r.write) \in Seq(Item)
      /\ Len(Slice(r.items, 0, r.write)) = r.write
  BY <1>1, SliceType, RingAssumption DEF Ring, Slot
<1> QED BY <1>2, <1>3 DEF Wrapped

-----------------------------------------------------------------------------
(* The methods.                                                            *)

OutcomeType == [ring : Ring, n : Int, items : Seq(Item), err : CallErr]

LEMMA PanicTyped == ASSUME NEW r \in Ring PROVE Panic(r) \in OutcomeType
BY DEF Panic, Outcome, OutcomeType, CallErr

LEMMA RingWriteType ==
  ASSUME NEW r \in Ring, NEW p \in Seq(Item)
  PROVE  RingWrite(r, p) \in OutcomeType
<1>1. CASE Len(p) < N
  <2>1. Store(r, p) \in Ring
    BY <1>1, StoreType
  <2>2. r.write + Len(p) \in Nat
    BY DEF Ring, Slot
  <2>3. Settle(Store(r, p), r.write + Len(p)) \in Ring
    BY <2>1, <2>2, SettleType
  <2> QED BY <1>1, <2>3 DEF Outcome, OutcomeType, CallErr, RingWrite
<1>2. CASE ~ (Len(p) < N)
  <2>1. StoreWhole(r, p) \in Ring
    BY <1>2, StoreWholeType, RingAssumption
  <2> QED BY <1>2, <2>1, RingAssumption DEF Outcome, OutcomeType, CallErr, RingWrite
<1> QED BY <1>1, <1>2

LEMMA RingWriteItemType ==
  ASSUME NEW r \in Ring, NEW x \in Item
  PROVE  RingWriteItem(r, x) \in OutcomeType
<1>1. (r.write + 1) % N \in Slot
  BY ModInSlot, SMTT(30) DEF Ring, Slot
<1>2. RingWriteItem(r, x).ring \in Ring
  BY <1>1, SlotRange DEF RingWriteItem, Outcome, Ring
<1> QED BY <1>2 DEF RingWriteItem, Outcome, OutcomeType, CallErr

LEMMA RingReadType ==
  ASSUME NEW r \in Ring, NEW k \in Nat
  PROVE  RingRead(r, k) \in OutcomeType
<1>1. CASE k = 0 \/ RingLen(r) = 0
  BY <1>1 DEF Outcome, OutcomeType, CallErr, RingRead
<1>2. CASE ~ (k = 0 \/ RingLen(r) = 0) /\ r.read >= r.write
  <2> DEFINE got == Prefix(Wrapped(r), k)
  <2>1. got \in Seq(Item) /\ Len(got) \in Nat
    BY <1>2, WrappedType, PrefixType
  <2>2. (r.read + Len(got)) % N \in Slot
    BY <2>1, ModInSlot DEF Ring
  <2>3. [r EXCEPT !.full = FALSE, !.read = (r.read + Len(got)) % N] \in Ring
    BY <2>2, SlotRange, WithRead
  <2> HIDE DEF got
  <2>4. Outcome([r EXCEPT !.full = FALSE, !.read = (r.read + Len(got)) % N],
                Len(got), got, "nil") \in OutcomeType
    BY <2>1, <2>3 DEF Outcome, OutcomeType, CallErr
  <2> QED BY <1>2, <2>4 DEF RingRead, got
<1>3. CASE ~ (k = 0 \/ RingLen(r) = 0) /\ ~ (r.read >= r.write)
  <2>1. CASE ~ Legal(r.read, r.write)
    BY <1>3, <2>1, PanicTyped DEF RingRead
  <2>2. CASE Legal(r.read, r.write)
    <3> DEFINE got == Prefix(Slice(r.items, r.read, r.write), k)
    <3>1. /\ Slice(r.items, r.read, r.write) \in Seq(Item)
          /\ Len(Slice(r.items, r.read, r.write)) = r.write - r.read
      BY <2>2, SliceType, RingFields
    <3>2. got \in Seq(Item) /\ Len(got) \in Nat /\ Len(got) <= r.write - r.read
      BY <3>1, PrefixType
    <3>3. r.read + Len(got) \in Slot
      BY <2>2, <3>2, RingAssumption DEF Legal, Ring, Slot
    <3> HIDE DEF got
    <3>4. Outcome([r EXCEPT !.read = r.read + Len(got)], Len(got), got, "nil") \in OutcomeType
      <4>1. [r EXCEPT !.read = r.read + Len(got)] \in Ring
        BY <3>3, SlotRange, WithRead
      <4> QED BY <3>2, <4>1 DEF Outcome, OutcomeType, CallErr
    <3> QED BY <1>3, <2>2, <3>4 DEF RingRead, got
  <2> QED BY <2>1, <2>2
<1> QED BY <1>1, <1>2, <1>3

LEMMA RingReadItemType ==
  ASSUME NEW r \in Ring
  PROVE  RingReadItem(r) \in OutcomeType
<1>1. CASE r.read \in Slot
  <2>1. (r.read + 1) % N \in Slot
    BY ModInSlot, RingFields
  <2>2. [r EXCEPT !.read = (r.read + 1) % N, !.full = FALSE] \in Ring
    BY <2>1, SlotRange, WithRead
  <2>3. <<r.items[r.read]>> \in Seq(Item)
    BY <1>1 DEF Ring
  <2> QED BY <1>1, <2>2, <2>3 DEF Outcome, OutcomeType, CallErr, RingReadItem
<1>2. CASE r.read \notin Slot
  BY <1>2, PanicTyped DEF RingReadItem
<1> QED BY <1>1, <1>2

LEMMA RingValueType ==
  ASSUME NEW r \in Ring
  PROVE  RingValue(r) \in OutcomeType
<1>1. CASE r.read >= r.write
  <2>1. Legal(r.read, N) /\ Legal(0, r.read)
    BY <1>1, RingAssumption DEF Legal, Ring, Slot
  <2>2. /\ Slice(r.items, r.read, N) \in Seq(Item)
        /\ Slice(r.items, 0, r.read) \in Seq(Item)
    BY <2>1, SliceType, RingAssumption DEF Ring
  <2> QED BY <1>1, <2>2, RingAssumption DEF Outcome, OutcomeType, CallErr, RingValue
<1>2. CASE ~ (r.read >= r.write) /\ Legal(r.read, r.write)
  <2>1. /\ Slice(r.items, r.read, r.write) \in Seq(Item)
        /\ Len(Slice(r.items, r.read, r.write)) \in Int
    BY <1>2, SliceType, RingFields
  <2>2. [r EXCEPT !.read = r.write] \in Ring
    BY SlotRange, WithRead DEF Ring
  <2> QED BY <1>2, <2>1, <2>2 DEF Outcome, OutcomeType, CallErr, RingValue
<1>3. CASE ~ (r.read >= r.write) /\ ~ Legal(r.read, r.write)
  BY <1>3, PanicTyped DEF RingValue
<1> QED BY <1>1, <1>2, <1>3

LEMMA RingNextType ==
  ASSUME NEW r \in Ring, NEW n \in Int
  PROVE  RingNext(r, n) \in OutcomeType
<1>1. CASE n <= 0
  BY <1>1 DEF Outcome, OutcomeType, CallErr, RingNext
<1>2. CASE n > 0 /\ n > RingLen(r)
  BY <1>2, RingValueType DEF RingNext
<1>3. CASE n > 0 /\ ~ (n > RingLen(r))
  <2> DEFINE o == RingRead(r, n)
             padded == [i \in 1 .. n |-> IF i <= Len(o.items) THEN o.items[i] ELSE Zero]
             items == IF o.err = "panic" THEN o.items ELSE padded
  <2>1. o \in OutcomeType
    BY <1>3, RingReadType
  <2> HIDE DEF o
  <2>2. o.items \in Seq(Item)
    BY <2>1 DEF OutcomeType
  <2>3. padded \in Seq(Item)
    <3>1. \A i \in 1 .. n : (IF i <= Len(o.items) THEN o.items[i] ELSE Zero) \in Item
      BY <2>2, RingAssumption
    <3> QED BY <1>3, <3>1
  <2>4. [o EXCEPT !.n = n, !.items = items] \in OutcomeType
    <3> HIDE DEF padded
    <3> QED BY <2>1, <2>2, <2>3 DEF OutcomeType
  <2> QED BY <1>3, <2>4 DEF RingNext, o
<1> QED BY <1>1, <1>2, <1>3, RingLenType

LEMMA RingReadItemsType ==
  ASSUME NEW r \in Ring, NEW delim
  PROVE  RingReadItems(r, delim) \in OutcomeType
<1> DEFINE all == IF r.read >= r.write THEN Wrapped(r) ELSE Slice(r.items, 0, r.write)
           line == Before(all, delim)
<1>1. all \in Seq(Item)
  <2>1. Legal(0, r.write)
    BY RingAssumption DEF Legal, Ring, Slot
  <2> QED BY <2>1, WrappedType, SliceType, SlotRange DEF Ring
<1>2. line \in Seq(Item) /\ Len(line) \in Int
  BY <1>1, BeforeType
<1> HIDE DEF all
<1>3. [r EXCEPT !.read = GoMod(r.read + Len(line)), !.full = FALSE] \in Ring
  <2>1. GoMod(r.read + Len(line)) \in (1 - N) .. (N - 1)
    BY <1>2, GoModRange, SlotRange, SMTT(30) DEF Ring
  <2> QED BY <2>1, WithRead
<1> HIDE DEF line
<1>4. Outcome([r EXCEPT !.read = GoMod(r.read + Len(line)), !.full = FALSE],
              Len(line), line, "nil") \in OutcomeType
  BY <1>2, <1>3 DEF Outcome, OutcomeType, CallErr
<1>5. Outcome(r, 0, <<>>, "nil") \in OutcomeType
  BY DEF Outcome, OutcomeType, CallErr
<1> QED BY <1>4, <1>5 DEF RingReadItems, line, all

LEMMA RingUnreadItemType ==
  ASSUME NEW r \in Ring
  PROVE  RingUnreadItem(r) \in OutcomeType
<1>1. [r EXCEPT !.read = GoMod(r.read - 1)] \in Ring
  <2>1. GoMod(r.read - 1) \in (1 - N) .. (N - 1)
    BY GoModRange, RingFields
  <2> QED BY <2>1, WithRead
<1> QED BY <1>1 DEF Outcome, OutcomeType, CallErr, RingUnreadItem

LEMMA RingSeekType ==
  ASSUME NEW r \in Ring, NEW offset \in Int, NEW whence
  PROVE  RingSeek(r, offset, whence) \in OutcomeType
<1>1. /\ GoMod(r.write + offset) \in (1 - N) .. (N - 1)
      /\ GoMod(r.read + offset) \in (1 - N) .. (N - 1)
  BY GoModRange, RingFields
<1>2. /\ [r EXCEPT !.read = GoMod(r.write + offset)] \in Ring
      /\ [r EXCEPT !.read = GoMod(r.read + offset)] \in Ring
  BY <1>1, WithRead
<1>3. GoMod(r.write + offset) \in Int /\ GoMod(r.read + offset) \in Int
  BY <1>1, RingAssumption
<1> QED BY <1>2, <1>3 DEF Outcome, OutcomeType, CallErr, RingSeek

LEMMA RingResetType == ASSUME NEW r \in Ring PROVE RingReset(r) \in Ring
BY SlotRange, RingAssumption DEF RingReset, Ring

LEMMA RingTruncateType ==
  ASSUME NEW r \in Ring, NEW n \in Int
  PROVE  RingTruncate(r, n) \in OutcomeType
<1>1. [r EXCEPT !.items = [j \in Slot |->
         IF r.read <= j /\ j < r.read + n THEN Zero ELSE r.items[j]]] \in Ring
  BY RingAssumption DEF Ring
<1>2. RingClear(r, n) \in OutcomeType
  BY <1>1, PanicTyped DEF Outcome, OutcomeType, CallErr, RingClear
<1> QED BY <1>2, RingResetType DEF Outcome, OutcomeType, CallErr, RingTruncate

LEMMA ReceiveType ==
  ASSUME NEW r \in Ring, NEW chunk \in Seq(Item)
  PROVE  Receive(r, chunk) \in Ring /\ Fill(Receive(r, chunk), Len(chunk)) \in Ring
<1>1. Overwrite(r.items, r.write, chunk) \in [Slot -> Item]
  BY OverwriteType DEF Ring
<1>2. Receive(r, chunk) \in Ring
  BY <1>1 DEF Receive, Ring
<1>3. \A s \in Ring : Fill(s, Len(chunk)) \in Ring
  BY SlotRange DEF Fill, Ring
<1> QED BY <1>2, <1>3

LEMMA AdvanceType ==
  ASSUME NEW r \in Ring, NEW num \in Nat
  PROVE  Advance(r, num) \in Ring
<1>1. (r.write + num) % N \in Slot
  BY ModInSlot, SMTT(30) DEF Ring, Slot
<1> QED BY <1>1, SlotRange DEF Advance, Ring

LEMMA SentType ==
  ASSUME NEW r \in Ring, NEW num \in Nat
  PROVE  Sent(r, num) \in Ring
<1>1. (r.read + num) % N \in Slot
  BY ModInSlot, RingFields
<1> QED BY <1>1, SlotRange, WithRead DEF Sent

-----------------------------------------------------------------------------
(* What a write leaves in the slots, seen back from the write index.       *)

(* The slots before x in g end with p, and before p they hold what f holds *)
(* before w.                                                               *)
Laid(f, w, g, x, p) ==
  /\ \A d \in 1 .. Len(p) : g[Back(x, d)] = p[Len(p) - d + 1]
  /\ \A d \in Len(p) + 1 .. N : g[Back(x, d)] = f[Back(w, d - Len(p))]

(* What slot j holds once p is written from slot w on, going round.        *)
PutAt(f, w, p, j) ==
  IF w <= j /\ j < w + Len(p) THEN p[j - w + 1]
  ELSE IF j + N < w + Len(p) THEN p[j + N - w + 1]
  ELSE f[j]

LEMMA PutLaid ==
  ASSUME NEW f, NEW g, NEW w \in Slot, NEW p \in Seq(Item), Len(p) <= N,
         \A j \in Slot : g[j] = PutAt(f, w, p, j)
  PROVE  Laid(f, w, g, On(w, Len(p)), p)
<1> DEFINE m == Len(p)
<1>1. m \in 0 .. N /\ m \in Nat /\ w \in Int /\ 0 <= w /\ w < N /\ N \in Nat /\ N > 0
  BY RingAssumption DEF Slot
<1>2. ASSUME NEW d \in 1 .. m PROVE g[Back(On(w, m), d)] = p[m - d + 1]
  <2> DEFINE j == Back(On(w, m), d)
  <2>1. j = IF w + m - d < N THEN w + m - d ELSE w + m - d - N
    <3>1. m \in 0 .. N /\ d \in 1 .. N /\ d <= m
      BY <1>1
    <3> HIDE DEF m, j
    <3> QED BY <3>1, BackOn DEF j
  <2> HIDE DEF m, j
  <2>2. CASE w + m - d < N
    <3>1. j \in Slot /\ w <= j /\ j < w + m /\ j - w + 1 = m - d + 1
      BY <1>1, <2>1, <2>2 DEF Slot
    <3> QED BY <3>1 DEF PutAt, m, j
  <2>3. CASE ~ (w + m - d < N)
    <3>1. j \in Slot /\ ~ (w <= j) /\ j + N < w + m /\ j + N - w + 1 = m - d + 1
      BY <1>1, <2>1, <2>3 DEF Slot
    <3> QED BY <3>1 DEF PutAt, m, j
  <2> QED BY <2>2, <2>3 DEF j, m
<1>3. ASSUME NEW d \in m + 1 .. N PROVE g[Back(On(w, m), d)] = f[Back(w, d - m)]
  <2> DEFINE j == Back(w, d - m)
  <2>1. Back(On(w, m), d) = j /\ d - m \in 1 .. N
    <3>1. m \in 0 .. N /\ d \in 1 .. N /\ d > m /\ d - m \in 1 .. N
      BY <1>1
    <3> HIDE DEF m, j
    <3> QED BY <3>1, BackOn DEF j
  <2> HIDE DEF m
  <2>2. /\ j \in Slot /\ ~ (w <= j /\ j < w + m) /\ ~ (j + N < w + m)
    <3>1. d - m \in Nat /\ d - m <= N /\ d <= N /\ d > m /\ d - m > 0 /\ d \in Nat
      BY <1>1, <2>1
    <3>2. CASE d - m <= w
      BY <1>1, <3>1, <3>2 DEF Back, Slot
    <3>3. CASE ~ (d - m <= w)
      BY <1>1, <3>1, <3>3 DEF Back, Slot
    <3> QED BY <3>2, <3>3
  <2> HIDE DEF j
  <2>3. g[j] = f[j]
    BY <2>2 DEF PutAt, m
  <2> QED BY <2>1, <2>3 DEF j
<1> QED BY <1>2, <1>3 DEF Laid

(* The three ways of writing.                                              *)
LEMMA StoreLaid ==
  ASSUME NEW r \in Ring, NEW p \in Seq(Item), Len(p) < N
  PROVE  Laid(r.items, r.write, Store(r, p).items, On(r.write, Len(p)), p)
<1> DEFINE end == r.write + Len(p)
           g == Store(r, p).items
<1>1. /\ r.write \in Slot /\ r.write \in Int /\ 0 <= r.write /\ r.write < N
      /\ Len(p) \in Nat /\ N \in Nat /\ end \in Nat
  BY RingFields, RingAssumption
<1>2. CASE end < N
  <2>1. g = Overwrite(r.items, r.write, p)
    BY <1>2 DEF Store, Ring
  <2> HIDE DEF g
  <2>2. \A j \in Slot : g[j] = PutAt(r.items, r.write, p, j)
    BY <1>1, <1>2, <2>1 DEF Overwrite, PutAt, Slot
  <2> QED BY <1>1, <2>2, PutLaid DEF g
<1>3. CASE ~ (end < N)
  <2>1. end % N = end - N
    <3>1. end \in 0 .. 2 * N - 1
      BY <1>1
    <3> HIDE DEF end
    <3> QED BY <1>3, <3>1, Once
  <2>2. g = [j \in Slot |-> IF j >= r.write THEN p[j - r.write + 1]
                            ELSE IF j < end % N THEN p[N - r.write + j + 1]
                            ELSE r.items[j]]
    BY <1>3 DEF Store, Ring
  <2> HIDE DEF g
  <2>3. ASSUME NEW j \in Slot PROVE g[j] = PutAt(r.items, r.write, p, j)
    <3>1. j \in Int /\ 0 <= j /\ j < N
      BY <1>1 DEF Slot
    <3>2. CASE j >= r.write
      <4>1. r.write <= j /\ j < r.write + Len(p)
        BY <1>1, <1>3, <3>1, <3>2
      <4> QED BY <2>2, <3>2, <4>1 DEF PutAt
    <3>3. CASE ~ (j >= r.write) /\ j < end % N
      <4>1. ~ (r.write <= j) /\ j + N < r.write + Len(p) /\ N - r.write + j + 1 = j + N - r.write + 1
        BY <1>1, <2>1, <3>1, <3>3
      <4> QED BY <2>2, <3>3, <4>1 DEF PutAt
    <3>4. CASE ~ (j >= r.write) /\ ~ (j < end % N)
      <4>1. ~ (r.write <= j) /\ ~ (j + N < r.write + Len(p))
        BY <1>1, <2>1, <3>1, <3>4
      <4> QED BY <2>2, <3>4, <4>1 DEF PutAt
    <3> QED BY <3>2, <3>3, <3>4
  <2> QED BY <1>1, <2>3, PutLaid DEF g
<1> QED BY <1>2, <1>3

LEMMA OverwriteLaid ==
  ASSUME NEW f, NEW w \in Slot, NEW p \in Seq(Item), Len(p) <= N - w
  PROVE  Laid(f, w, Overwrite(f, w, p), On(w, Len(p)), p)
<1>1. w \in Int /\ 0 <= w /\ w < N /\ Len(p) \in Nat /\ N \in Nat /\ Len(p) <= N
  BY RingAssumption DEF Slot
<1>2. \A j \in Slot : Overwrite(f, w, p)[j] = PutAt(f, w, p, j)
  BY <1>1 DEF Overwrite, PutAt, Slot
<1> QED BY <1>1, <1>2, PutLaid

LEMMA WriteItemLaid ==
  ASSUME NEW r \in Ring, NEW x \in Item
  PROVE  Laid(r.items, r.write, [r.items EXCEPT ![r.write] = x], On(r.write, 1), <<x>>)
<1>1. /\ r.write \in Slot /\ r.write \in Int /\ 0 <= r.write /\ r.write < N
      /\ N \in Nat /\ r.items \in [Slot -> Item]
  BY RingFields, RingAssumption
<1>2. <<x>> \in Seq(Item) /\ Len(<<x>>) = 1 /\ <<x>>[1] = x
  OBVIOUS
<1> DEFINE p == <<x>>
           g == [r.items EXCEPT ![r.write] = x]
<1>3. ASSUME NEW j \in Slot PROVE g[j] = PutAt(r.items, r.write, p, j)
  <2>1. j \in Int /\ 0 <= j /\ j < N
    BY <1>1 DEF Slot
  <2>2. CASE j = r.write
    <3>1. r.write <= j /\ j < r.write + Len(p) /\ j - r.write + 1 = 1
      BY <1>1, <1>2, <2>2
    <3> QED BY <1>1, <1>2, <2>2, <3>1 DEF PutAt
  <2>3. CASE j # r.write
    <3>1. ~ (r.write <= j /\ j < r.write + Len(p)) /\ ~ (j + N < r.write + Len(p))
      BY <1>1, <1>2, <2>1, <2>3
    <3> HIDE DEF p
    <3> QED BY <1>1, <2>3, <3>1 DEF PutAt
  <2> QED BY <2>2, <2>3
<1>4. Len(p) <= N
  BY <1>1, <1>2
<1> HIDE DEF g
<1>5. Laid(r.items, r.write, g, On(r.write, Len(p)), p)
  BY <1>1, <1>2, <1>3, <1>4, PutLaid
<1> QED BY <1>2, <1>5 DEF g

=============================================================================
