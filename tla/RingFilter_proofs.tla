-------------------------- MODULE RingFilter_proofs ---------------------------
(***************************************************************************)
(* Theorems about RingFilter, for every ring size, every set of items,     *)
(* every caller the constants describe and every process function that     *)
(* leaves the ring alone; and about FilterPipeline, where that function    *)
(* writes to a RingBuffer and ReadFrom reads from a gbuf.Reader.           *)
(***************************************************************************)
EXTENDS FilterPipeline, RingOps_proofs, SequenceTheorems

Err == CallErr \cup {"fault", "negative", "filter"}

StreamOp == WriteOps \cup {"none", "ReadFrom", "WriteToTail", "WriteToHead"}

CallType == [op : Buf!Op, given : Seq(Item), arg : Int, delim : SUBSET Item,
             n : Int, items : Seq(Item), err : Err]

StreamType == [op : StreamOp, n : Nat, left : Nat, moved : Seq(Item)]

FnType == [busy : BOOLEAN, slice : Seq(Item), fed : Seq(Item)]

(* The calls the actions make are well typed.                              *)
LEMMA CallTypes ==
  /\ Buf!NoResult \in CallType
  /\ Buf!NoStream \in StreamType
  /\ IdleFn \in FnType
  /\ \A op \in Buf!Op : Buf!Called(op) \in CallType
  /\ \A op \in Buf!Op, k \in Int : Buf!With(op, k) \in CallType
  /\ \A op \in Buf!Op, p \in Seq(Item) : [Buf!Called(op) EXCEPT !.given = p] \in CallType
  /\ \A op \in Buf!Op, d \in SUBSET Item : [Buf!Called(op) EXCEPT !.delim = d] \in CallType
<1>1. Buf!NoResult \in CallType
  BY DEF Buf!NoResult, CallType, Buf!Op, CallErr, Err
<1>2. Buf!NoStream \in StreamType
  BY DEF Buf!NoStream, StreamType, StreamOp
<1>3. IdleFn \in FnType
  BY DEF IdleFn, FnType
<1>4. \A op \in Buf!Op : Buf!Called(op) \in CallType
  BY <1>1 DEF Buf!Called, CallType
<1>5. \A op \in Buf!Op, k \in Int : Buf!With(op, k) \in CallType
  BY <1>1 DEF Buf!With, CallType
<1>6. \A op \in Buf!Op, p \in Seq(Item) : [Buf!Called(op) EXCEPT !.given = p] \in CallType
  BY <1>4 DEF CallType
<1>7. \A op \in Buf!Op, d \in SUBSET Item : [Buf!Called(op) EXCEPT !.delim = d] \in CallType
  BY <1>4 DEF CallType
<1> QED BY <1>1, <1>2, <1>3, <1>4, <1>5, <1>6, <1>7

-----------------------------------------------------------------------------
(* RingBuffer's operators on rings are RingFilter's.                       *)

LEMMA SameNewRing == Buf!NewRing = NewRing
BY DEF Buf!NewRing, NewRing, Buf!Slot, Slot

LEMMA SameOutcome ==
  /\ \A r, n, items, err : Buf!Outcome(r, n, items, err) = Outcome(r, n, items, err)
  /\ \A r : Buf!Panic(r) = Panic(r)
BY DEF Buf!Outcome, Outcome, Buf!Panic, Panic

LEMMA SameSlices ==
  /\ \A from, to : Buf!Legal(from, to) <=> Legal(from, to)
  /\ \A items, from, to : Buf!Slice(items, from, to) = Slice(items, from, to)
  /\ \A s, k : Buf!Prefix(s, k) = Prefix(s, k)
  /\ \A s, delim : Buf!Before(s, delim) = Before(s, delim)
  /\ \A a : Buf!GoMod(a) = GoMod(a)
BY DEF Buf!Legal, Legal, Buf!Slice, Slice, Buf!Prefix, Prefix, Buf!Before, Before,
       Buf!GoMod, GoMod

LEMMA SameStreaming ==
  /\ \A r, chunk : Buf!Receive(r, chunk) = Receive(r, chunk)
  /\ \A r, num : Buf!Fill(r, num) = Fill(r, num)
  /\ \A r, num : Buf!Advance(r, num) = Advance(r, num)
  /\ \A r, num : Buf!Sent(r, num) = Sent(r, num)
BY DEF Buf!Receive, Receive, Buf!Overwrite, Overwrite, Buf!Slot, Slot, Buf!Fill, Fill,
       Buf!Advance, Advance, Buf!Sent, Sent

LEMMA SameReads ==
  /\ \A r : Buf!RingLen(r) = RingLen(r)
  /\ \A r, k : Buf!RingRead(r, k) = RingRead(r, k)
  /\ \A r : Buf!RingReadItem(r) = RingReadItem(r)
  /\ \A r : Buf!RingValue(r) = RingValue(r)
  /\ \A r, n : Buf!RingNext(r, n) = RingNext(r, n)
  /\ \A r, delim : Buf!RingReadItems(r, delim) = RingReadItems(r, delim)
  /\ \A r, offset, whence : Buf!RingSeek(r, offset, whence) = RingSeek(r, offset, whence)
<1>1. \A r : Buf!RingLen(r) = RingLen(r)
  BY DEF Buf!RingLen, RingLen
<1>2. \A r : Buf!Wrapped(r) = Wrapped(r)
  BY SameSlices DEF Buf!Wrapped, Wrapped
<1>3. ASSUME NEW r, NEW k PROVE Buf!RingRead(r, k) = RingRead(r, k)
  <2>1. /\ Buf!RingLen(r) = RingLen(r) /\ Buf!Wrapped(r) = Wrapped(r)
        /\ Buf!Legal(r.read, r.write) <=> Legal(r.read, r.write)
        /\ Buf!Slice(r.items, r.read, r.write) = Slice(r.items, r.read, r.write)
        /\ \A s : Buf!Prefix(s, k) = Prefix(s, k)
    BY <1>1, <1>2, SameSlices
  <2> QED BY <2>1, SameOutcome DEF Buf!RingRead, RingRead
<1>4. \A r : Buf!RingReadItem(r) = RingReadItem(r)
  BY SameOutcome DEF Buf!RingReadItem, RingReadItem, Buf!Slot, Slot
<1>5. \A r : Buf!RingValue(r) = RingValue(r)
  BY SameSlices, SameOutcome DEF Buf!RingValue, RingValue
<1>6. \A r, n : Buf!RingNext(r, n) = RingNext(r, n)
  BY <1>1, <1>3, <1>5, SameOutcome DEF Buf!RingNext, RingNext
<1>7. ASSUME NEW r, NEW delim PROVE Buf!RingReadItems(r, delim) = RingReadItems(r, delim)
  <2>1. /\ Buf!Wrapped(r) = Wrapped(r)
        /\ Buf!Slice(r.items, 0, r.write) = Slice(r.items, 0, r.write)
        /\ \A s : Buf!Before(s, delim) = Before(s, delim)
        /\ \A a : Buf!GoMod(a) = GoMod(a)
    BY <1>2, SameSlices
  <2> QED BY <2>1, SameOutcome DEF Buf!RingReadItems, RingReadItems
<1>8. \A r, offset, whence : Buf!RingSeek(r, offset, whence) = RingSeek(r, offset, whence)
  BY SameSlices, SameOutcome DEF Buf!RingSeek, RingSeek
<1> QED BY <1>1, <1>3, <1>4, <1>5, <1>6, <1>7, <1>8

-----------------------------------------------------------------------------
(* While WriteTo is sending the tail, there is a tail.                     *)
TailHeld == stream.op = "WriteToTail" => ring.read >= ring.write

Typed ==
  /\ ring \in Ring /\ result \in CallType /\ stream \in StreamType /\ fn \in FnType

(* Only Write, WriteItem and ReadFrom call fn, and the first two wait for  *)
(* nothing else.                                                           *)
Calls ==
  /\ fn.busy => stream.op \in WriteOps \cup {"ReadFrom"}
  /\ stream.op \in WriteOps => fn.busy

IInv == Typed /\ Calls /\ TailHeld

LEMMA InvImpliesTypeOK == ASSUME IInv PROVE TypeOK
BY DEF IInv, Typed, Calls, TypeOK, CallType, StreamType, FnType, StreamOp, Err

(* A method that runs on the ring alone.                                   *)
LEMMA DoInv ==
  ASSUME IInv, NEW call \in CallType, NEW o \in OutcomeType, Buf!Do(call, o), Unfed
  PROVE  IInv'
<1>1. ring' \in Ring /\ stream' = Buf!NoStream /\ fn' = IdleFn
  BY DEF Buf!Do, Unfed, OutcomeType
<1>2. result' \in CallType
  BY DEF Buf!Do, CallType, OutcomeType, Err
<1>3. stream'.op = "none" /\ fn'.busy = FALSE
  BY <1>1 DEF Buf!NoStream, IdleFn
<1> QED BY <1>1, <1>2, <1>3, CallTypes DEF IInv, Typed, Calls, TailHeld, WriteOps

(* A call in progress returns, and fn is not running any more.             *)
LEMMA FinishInv ==
  ASSUME IInv, NEW call \in CallType, NEW n \in Int, NEW items \in Seq(Item),
         NEW err \in Err \cup {"EOF"}, Buf!Finish(call, n, items, err),
         ring' \in Ring, fn' \in FnType, fn'.busy = FALSE
  PROVE  IInv'
<1>1. result' \in CallType
  BY DEF Buf!Finish, CallType, CallErr, Err
<1>2. stream' = Buf!NoStream /\ stream'.op = "none"
  BY DEF Buf!Finish, Buf!NoStream
<1> QED BY <1>1, <1>2, CallTypes DEF IInv, Typed, Calls, TailHeld, WriteOps

LEMMA ReturnInv ==
  ASSUME IInv, NEW op \in Buf!Op, NEW n \in Int, NEW err \in Err \cup {"EOF"},
         Return(op, n, err), ring' \in Ring, fn' \in FnType, fn'.busy = FALSE
  PROVE  IInv'
<1> DEFINE call == [Buf!Called(op) EXCEPT !.given = stream.moved]
<1>1. call \in CallType
  <2>1. stream.moved \in Seq(Item)
    BY DEF IInv, Typed, StreamType
  <2> QED BY <2>1, CallTypes
<1>2. Buf!Finish(call, n, <<>>, err)
  BY DEF Return
<1>3. <<>> \in Seq(Item)
  OBVIOUS
<1> HIDE DEF call
<1> QED BY <1>1, <1>2, <1>3, FinishInv

LEMMA BeginInv ==
  ASSUME IInv, NEW op \in {"ReadFrom", "WriteToTail", "WriteToHead"},
         NEW length \in Nat, Buf!Begin(op, length), Unfed,
         op = "WriteToTail" => ring.read >= ring.write
  PROVE  IInv'
<1>1. result' \in CallType
  BY CallTypes DEF Buf!Begin
<1>2. stream' \in StreamType /\ stream'.op = op
  BY CallTypes DEF Buf!Begin, StreamType, Buf!NoStream, StreamOp
<1>3. ring' = ring /\ fn' = IdleFn /\ fn'.busy = FALSE
  BY DEF Buf!Begin, Unfed, IdleFn
<1> QED BY <1>1, <1>2, <1>3, CallTypes DEF IInv, Typed, Calls, TailHeld, WriteOps

(* fn has returned.                                                        *)
LEMMA FedType == ASSUME IInv, Fed PROVE fn' \in FnType /\ fn'.busy = FALSE
BY DEF IInv, Typed, FnType, Fed

LEMMA UnfedType == ASSUME Unfed PROVE fn' \in FnType /\ fn'.busy = FALSE /\ fn.busy = FALSE
BY CallTypes DEF Unfed, IdleFn, FnType

LEMMA ChunkType == \A chunk \in Buf!Chunk : chunk \in Seq(Item)
BY RingAssumption DEF Buf!Chunk

-----------------------------------------------------------------------------
(* The steps that feed fn, and those that go on from it.                   *)

LEMMA WritingInv == ASSUME IInv, Writing PROVE IInv'
<1>0. ring \in Ring
  BY DEF IInv, Typed
<1>1. ASSUME NEW op \in WriteOps, NEW p \in Seq(Item), NEW r \in Ring,
             ring' = r, stream' = [Buf!NoStream EXCEPT !.op = op, !.moved = p],
             result' = Buf!NoResult, fn' = [busy |-> TRUE, slice |-> p, fed |-> p]
      PROVE  IInv'
  <2>1. stream' \in StreamType /\ stream'.op = op
    BY <1>1, CallTypes DEF StreamType, StreamOp, Buf!NoStream
  <2>2. fn' \in FnType /\ fn'.busy
    BY <1>1 DEF FnType
  <2> QED BY <1>1, <2>1, <2>2, CallTypes DEF IInv, Typed, Calls, TailHeld, WriteOps
<1>2. ASSUME NEW p \in Input, Write(p) PROVE IInv'
  <2>1. p \in Seq(Item)
    BY FilterAssumption
  <2>2. (IF Len(p) < N THEN Store(ring, p) ELSE StoreWhole(ring, p)) \in Ring
    BY <1>0, <2>1, StoreType, StoreWholeType, RingAssumption
  <2> QED BY <1>1, <1>2, <2>1, <2>2 DEF Write, WriteOps
<1>3. ASSUME NEW x \in Item, WriteItem(x) PROVE IInv'
  <2>1. RingWriteItem(ring, x).ring \in Ring
    BY <1>0, RingWriteItemType DEF OutcomeType
  <2>2. <<x>> \in Seq(Item)
    OBVIOUS
  <2> QED BY <1>1, <1>3, <2>1, <2>2 DEF WriteItem, WriteOps
<1>4. ASSUME NEW err \in FnErr, WriteReturns(err) PROVE IInv'
  <2> DEFINE p == stream.moved
  <2>1. p \in Seq(Item) /\ Len(p) \in Nat /\ N \in Int /\ 0 \in Int
    BY RingAssumption DEF IInv, Typed, StreamType
  <2>2. fn' \in FnType /\ fn'.busy = FALSE
    BY <1>4, FedType DEF WriteReturns
  <2>3. "Write" \in Buf!Op /\ err \in Err \cup {"EOF"}
    BY DEF Buf!Op, FnErr, Err, CallErr
  <2>4. CASE Len(p) < N
    <3>1. ring.write + Len(p) \in Nat
      BY <1>0, <2>1, RingFields
    <3>2. ring' \in Ring /\ Return("Write", Len(p), err)
      BY <1>0, <1>4, <2>4, <3>1, SettleType DEF WriteReturns
    <3>3. Len(p) \in Int
      BY <2>1
    <3> QED BY <2>2, <2>3, <3>2, <3>3, ReturnInv
  <2>5. CASE ~ (Len(p) < N)
    <3>1. ring' \in Ring /\ Return("Write", IF err = "nil" THEN N ELSE 0, err)
      BY <1>0, <1>4, <2>5 DEF WriteReturns
    <3>2. (IF err = "nil" THEN N ELSE 0) \in Int
      BY <2>1
    <3> QED BY <2>2, <2>3, <3>1, <3>2, ReturnInv
  <2> QED BY <2>4, <2>5
<1>5. ASSUME NEW err \in FnErr, WriteItemReturns(err) PROVE IInv'
  <2>1. fn' \in FnType /\ fn'.busy = FALSE
    BY <1>5, FedType DEF WriteItemReturns
  <2>2. "WriteItem" \in Buf!Op /\ err \in Err \cup {"EOF"} /\ 0 \in Int
    BY DEF Buf!Op, FnErr, Err, CallErr
  <2>3. ring' \in Ring /\ Return("WriteItem", 0, err)
    BY <1>0, <1>5 DEF WriteItemReturns
  <2> QED BY <2>1, <2>2, <2>3, ReturnInv
<1> QED BY <1>2, <1>3, <1>4, <1>5 DEF Writing

LEMMA ReadingInv == ASSUME IInv, Reading PROVE IInv'
<1> USE DEF Buf!Op
<1>0. ring \in Ring
  BY DEF IInv, Typed
<1>1. ASSUME NEW k \in Count, Read(k) PROVE IInv'
  <2>1. k \in Nat
    BY <1>1, FilterAssumption DEF Read, Buf!Read
  <2> QED BY <1>0, <1>1, <2>1, CallTypes, SameReads, RingReadType, DoInv DEF Read, Buf!Read
<1>2. ASSUME NEW k \in Count, NextItems(k) PROVE IInv'
  BY <1>0, <1>2, FilterAssumption, CallTypes, SameReads, RingNextType, DoInv DEF NextItems, Buf!NextItems
<1>3. CASE ReadItem
  BY <1>0, <1>3, CallTypes, SameReads, RingReadItemType, DoInv DEF ReadItem, Buf!ReadItem
<1>4. ASSUME NEW delim \in Delim, ReadItems(delim) PROVE IInv'
  <2>1. [Buf!Called("ReadItems") EXCEPT !.delim = delim] \in CallType
    BY FilterAssumption, CallTypes
  <2> QED BY <1>0, <1>4, <2>1, SameReads, RingReadItemsType, DoInv DEF ReadItems, Buf!ReadItems
<1>5. CASE Value
  BY <1>0, <1>5, CallTypes, SameReads, RingValueType, DoInv DEF Value, Buf!Value
<1>6. ASSUME NEW offset \in Offset, NEW whence, Seek(offset, whence) PROVE IInv'
  BY <1>0, <1>6, FilterAssumption, CallTypes, SameReads, RingSeekType, DoInv DEF Seek, Buf!Seek
<1> QED BY <1>1, <1>2, <1>3, <1>4, <1>5, <1>6 DEF Reading

LEMMA RingEmptyType ==
  ASSUME NEW r \in Ring
  PROVE  RingEmpty(r) \in Ring /\ Outcome(RingEmpty(r), 0, <<>>, "nil") \in OutcomeType
<1>1. RingReset(r) \in Ring
  BY RingResetType
<1>2. RingEmpty(r) \in Ring
  BY <1>1 DEF RingEmpty, Ring
<1> QED BY <1>2 DEF Outcome, OutcomeType, CallErr

(* What the two rings do differently.                                      *)
LEMMA ClearingInv ==
  ASSUME IInv, Reset \/ UnreadItem \/ \E n \in Count : Truncate(n)
  PROVE  IInv'
<1> USE DEF Buf!Op
<1>0. ring \in Ring
  BY DEF IInv, Typed
<1>1. CASE Reset
  BY <1>0, <1>1, RingEmptyType, CallTypes, DoInv DEF Reset
<1>2. CASE UnreadItem
  <2>1. [ring EXCEPT !.read = GoMod(ring.read - 1)] \in Ring
    <3>1. GoMod(ring.read - 1) \in (1 - N) .. (N - 1)
      BY <1>0, GoModRange, RingFields
    <3> QED BY <1>0, <3>1, WithRead
  <2>2. (IF ring.read = ring.write THEN Outcome(ring, 0, <<>>, "unread")
         ELSE Outcome([ring EXCEPT !.read = GoMod(ring.read - 1)], 0, <<>>, "nil"))
        \in OutcomeType
    BY <1>0, <2>1 DEF Outcome, OutcomeType, CallErr
  <2>3. Buf!Called("UnreadItem") \in CallType
    BY CallTypes
  <2> QED BY <1>2, <2>2, <2>3, DoInv DEF UnreadItem
<1>3. ASSUME NEW n \in Count, Truncate(n) PROVE IInv'
  <2>1. CASE n <= 0 \/ n > RingLen(ring)
    BY <1>0, <1>3, <2>1, RingEmptyType, FilterAssumption, CallTypes, DoInv DEF Truncate
  <2>2. CASE ~ (n <= 0 \/ n > RingLen(ring))
    <3>1. RingTruncate(ring, n) \in OutcomeType /\ RingTruncate(ring, n) = RingClear(ring, n)
      BY <1>0, <2>2, RingTruncateType, FilterAssumption DEF RingTruncate
    <3> QED BY <1>3, <2>2, <3>1, FilterAssumption, CallTypes, DoInv DEF Truncate
  <2> QED BY <2>1, <2>2
<1> QED BY <1>1, <1>2, <1>3

LEMMA StreamingInv == ASSUME IInv, Streaming PROVE IInv'
<1> USE DEF Buf!Op
<1>0. ring \in Ring /\ stream.n \in Nat /\ stream.moved \in Seq(Item) /\ N \in Int
  BY RingAssumption DEF IInv, Typed, StreamType
<1>1. ASSUME NEW length \in Length, ReadFrom(length) PROVE IInv'
  BY <1>1, FilterAssumption, BeginInv DEF ReadFrom, Buf!ReadFrom
<1>2. CASE WriteTo
  BY <1>2, BeginInv DEF WriteTo, Buf!WriteTo
<1>3. ASSUME NEW chunk \in Buf!Chunk, NEW err \in Buf!ReadErr, ReadFromTurn(chunk, err)
      PROVE  IInv'
  <2>1. chunk \in Seq(Item) /\ Len(chunk) \in Nat
    BY ChunkType
  <2>2. /\ Receive(ring, chunk) \in Ring
        /\ Fill(Receive(ring, chunk), Len(chunk)) \in Ring
    BY <1>0, <2>1, ReceiveType
  <2>3. CASE err = "nil"
    <3>1. ring' \in Ring /\ result' = result
      BY <1>3, <2>2, <2>3 DEF ReadFromTurn
    <3>2. stream' \in StreamType /\ stream'.op = "ReadFrom"
      <4>1. stream.n + Len(chunk) \in Nat /\ stream.left - Len(chunk) \in Nat
        BY <1>3, <2>1 DEF ReadFromTurn, IInv, Typed, StreamType
      <4>2. stream.moved \o chunk \in Seq(Item)
        BY <1>0, <2>1
      <4>3. stream \in StreamType /\ stream.op = "ReadFrom"
        BY <1>3 DEF IInv, Typed, ReadFromTurn
      <4> QED BY <1>3, <2>3, <4>1, <4>2, <4>3 DEF ReadFromTurn, StreamType
    <3>3. fn' \in FnType
      <4>1. fn.fed \o chunk \in Seq(Item)
        BY <2>1 DEF IInv, Typed, FnType
      <4>2. fn' = [busy |-> TRUE, slice |-> chunk, fed |-> fn.fed \o chunk]
        BY <1>3, <2>3 DEF ReadFromTurn, Feed
      <4> QED BY <2>1, <4>1, <4>2 DEF FnType
    <3> QED BY <3>1, <3>2, <3>3 DEF IInv, Typed, Calls, TailHeld, WriteOps
  <2>4. CASE err # "nil"
    <3>1. ring' \in Ring /\ Return("ReadFrom", stream.n, err) /\ fn' = fn /\ fn.busy = FALSE
      BY <1>3, <2>2, <2>4 DEF ReadFromTurn, IInv, Typed, FnType
    <3>2. err \in Err \cup {"EOF"} /\ stream.n \in Int /\ fn \in FnType
      BY <1>0 DEF Buf!ReadErr, Err, CallErr, IInv, Typed
    <3> QED BY <3>1, <3>2, ReturnInv
  <2> QED BY <2>3, <2>4
<1>4. CASE ReadFromGoesOn
  <2>1. Len(fn.slice) \in Nat
    BY DEF IInv, Typed, FnType
  <2>2. ring' \in Ring
    BY <1>0, <1>4, <2>1, AdvanceType DEF ReadFromGoesOn
  <2>3. fn' \in FnType /\ fn'.busy = FALSE
    BY <1>4, FedType DEF ReadFromGoesOn
  <2> QED BY <1>4, <2>2, <2>3 DEF ReadFromGoesOn, IInv, Typed, Calls, TailHeld, WriteOps
<1>5. CASE ReadFromNegative
  <2> DEFINE made == [Buf!Called("ReadFrom") EXCEPT !.given = stream.moved]
  <2>1. made \in CallType
    BY <1>0, CallTypes
  <2>2. Buf!Finish(made, stream.n, <<>>, "negative") /\ ring' = ring /\ fn' = fn
    BY <1>5 DEF ReadFromNegative, Buf!ReadFromNegative, Buf!ReadFromReturns
  <2>3. fn \in FnType /\ fn.busy = FALSE
    BY <1>5 DEF ReadFromNegative, IInv, Typed, FnType
  <2>4. stream.n \in Int /\ <<>> \in Seq(Item) /\ "negative" \in Err \cup {"EOF"}
    BY <1>0 DEF Err
  <2> HIDE DEF made
  <2> QED BY <1>0, <2>1, <2>2, <2>3, <2>4, FinishInv
<1>a. ASSUME NEW n \in Int, NEW moved \in Seq(Item), NEW err \in Err \cup {"EOF"},
             Buf!WriteToReturns(n, moved, err), ring' \in Ring, Unfed
      PROVE  IInv'
  <2>1. Buf!Called("WriteTo") \in CallType
    BY CallTypes
  <2> QED BY <1>a, <2>1, UnfedType, FinishInv DEF Buf!WriteToReturns
<1>6. ASSUME NEW num \in 0 .. N, NEW err \in Buf!ReadErr, WriteToTail(num, err)
      PROVE  IInv'
  <2> DEFINE moved == Slice(ring.items, ring.read, ring.read + num)
  <2>1. moved \in Seq(Item)
    <3>1. Legal(ring.read, ring.read + num) /\ ring.read + num \in Int
      BY <1>0, <1>6, RingFields DEF WriteToTail, Buf!WriteToTail, Legal, TailHeld, IInv
    <3> QED BY <1>0, <3>1, SliceType, RingFields
  <2>2. ring' \in Ring /\ num \in Nat
    BY <1>0, <1>6, SentType, SameStreaming DEF WriteToTail, Buf!WriteToTail
  <2>u. Unfed /\ err \in Err \cup {"EOF"}
    BY <1>6 DEF WriteToTail, Buf!ReadErr, Err, CallErr
  <2> HIDE DEF moved
  <2>3. CASE err = "nil"
    <3>1. stream' = [stream EXCEPT !.op = "WriteToHead", !.n = num, !.moved = moved]
      BY <1>6, <2>3, SameSlices DEF WriteToTail, Buf!WriteToTail, moved
    <3>2. stream' \in StreamType /\ stream'.op = "WriteToHead"
      <4>1. stream \in StreamType
        BY DEF IInv, Typed
      <4> QED BY <2>1, <2>2, <3>1, <4>1 DEF StreamType, StreamOp
    <3>3. result' = result
      BY <1>6, <2>3 DEF WriteToTail, Buf!WriteToTail
    <3> QED BY <2>2, <2>u, <3>2, <3>3, UnfedType DEF IInv, Typed, Calls, TailHeld, WriteOps
  <2>4. CASE err # "nil"
    <3>1. Buf!WriteToReturns(num, moved, err)
      BY <1>6, <2>4, SameSlices DEF WriteToTail, Buf!WriteToTail, moved
    <3>2. num \in Int
      OBVIOUS
    <3> QED BY <1>a, <2>1, <2>2, <2>u, <3>1, <3>2
  <2> QED BY <2>3, <2>4
<1>7. ASSUME NEW num \in 0 .. N, NEW err \in Buf!ReadErr, WriteToHead(num, err)
      PROVE  IInv'
  <2> DEFINE tail == Slice(ring.items, ring.read, ring.read + num)
  <2>1. tail \in Seq(Item)
    <3>1. Legal(ring.read, ring.read + num) /\ ring.read + num \in Int
      BY <1>0, <1>7, RingFields, SameSlices DEF WriteToHead, Buf!WriteToHead, Legal
    <3> QED BY <1>0, <3>1, SliceType, RingFields
  <2>2. ring' \in Ring
    BY <1>0, <1>7, SentType, SameStreaming DEF WriteToHead, Buf!WriteToHead
  <2>u. Unfed /\ err \in Err \cup {"EOF"}
    BY <1>7 DEF WriteToHead, Buf!ReadErr, Err, CallErr
  <2> HIDE DEF tail
  <2>3. stream.moved \o tail \in Seq(Item) /\ stream.n + num \in Int
    BY <1>0, <2>1
  <2>4. Buf!WriteToReturns(stream.n + num, stream.moved \o tail, err)
    BY <1>7, SameSlices DEF WriteToHead, Buf!WriteToHead, tail
  <2> QED BY <1>a, <2>2, <2>u, <2>3, <2>4
<1>8. CASE WriteToPanics
  <2>1. 0 \in Int /\ <<>> \in Seq(Item) /\ "panic" \in Err \cup {"EOF"}
    BY DEF Err, CallErr
  <2> QED BY <1>0, <1>8, <1>a, <2>1 DEF WriteToPanics, Buf!WriteToPanics
<1>9. CASE WriteToNegative
  <2>1. stream.n \in Int /\ stream.moved \in Seq(Item) /\ "negative" \in Err \cup {"EOF"}
    BY <1>0 DEF Err, CallErr
  <2> QED BY <1>0, <1>9, <1>a, <2>1 DEF WriteToNegative, Buf!WriteToNegative
<1> QED BY <1>1, <1>2, <1>3, <1>4, <1>5, <1>6, <1>7, <1>8, <1>9 DEF Streaming

LEMMA FailingInv == ASSUME IInv, ReadFromFails("filter") \/ FnPanics PROVE IInv'
<1>0. ring \in Ring /\ stream.n \in Int
  BY DEF IInv, Typed, StreamType
<1>1. CASE ReadFromFails("filter")
  <2>1. Return("ReadFrom", stream.n, "filter") /\ ring' = ring
    BY <1>1 DEF ReadFromFails
  <2>2. "ReadFrom" \in Buf!Op /\ "filter" \in Err \cup {"EOF"}
    BY DEF Buf!Op, Err
  <2>3. fn' \in FnType /\ fn'.busy = FALSE
    BY <1>1, FedType DEF ReadFromFails
  <2> QED BY <1>0, <2>1, <2>2, <2>3, ReturnInv
<1>2. CASE FnPanics
  <2>1. Return(stream.op, 0, "panic") /\ ring' = ring
    BY <1>2 DEF FnPanics
  <2>2. stream.op \in Buf!Op /\ "panic" \in Err \cup {"EOF"} /\ 0 \in Int
    BY <1>2 DEF Buf!Op, Err, CallErr, FnPanics, Fed, IInv, Calls, WriteOps
  <2>3. fn' \in FnType /\ fn'.busy = FALSE
    BY <1>2, FedType DEF FnPanics
  <2> QED BY <1>0, <2>1, <2>2, <2>3, ReturnInv
<1> QED BY <1>1, <1>2

LEMMA NextInv == ASSUME IInv, [Next]_vars PROVE IInv'
<1>1. CASE UNCHANGED vars
  BY <1>1 DEF vars, IInv, Typed, Calls, TailHeld
<1> QED BY <1>1, ReadingInv, StreamingInv, WritingInv, FailingInv, ClearingInv DEF Next

LEMMA InitInv == ASSUME Init PROVE IInv
<1>1. ring = NewRing /\ result = Buf!NoResult /\ stream = Buf!NoStream /\ fn = IdleFn
  BY SameNewRing DEF Init, Buf!Init
<1>2. stream.op = "none" /\ fn.busy = FALSE
  BY <1>1 DEF Buf!NoStream, IdleFn
<1> QED BY <1>1, <1>2, NewRingType, CallTypes DEF IInv, Typed, Calls, TailHeld, WriteOps

(* Type correctness of RingFilter: whatever any caller, any other end and  *)
(* any process function does, failing and panicking included, the fields   *)
(* stay in range, and only Write, WriteItem and ReadFrom wait for fn.      *)
THEOREM TypeCorrect == Spec => []TypeOK
<1>1. Init => IInv
  BY InitInv
<1>2. IInv /\ [Next]_vars => IInv'
  BY NextInv
<1>3. IInv => TypeOK
  BY InvImpliesTypeOK
<1> QED BY <1>1, <1>2, <1>3, PTL DEF Spec

-----------------------------------------------------------------------------
(* A RingFilter is a RingBuffer, step by step, where the README's sentence *)
(* holds.  First, the operators of the RingBuffer that it is.              *)

LEMMA PlainCalls ==
  /\ Plain!NoStream = Buf!NoStream /\ Plain!NoResult = Buf!NoResult
  /\ \A op : Plain!Called(op) = Buf!Called(op)
  /\ \A op, k : Plain!With(op, k) = Buf!With(op, k)
  /\ Plain!Chunk = Buf!Chunk /\ Plain!ReadErr = Buf!ReadErr
BY DEF Plain!NoStream, Buf!NoStream, Plain!NoResult, Buf!NoResult, Plain!Called,
       Buf!Called, Plain!With, Buf!With, Plain!Chunk, Buf!Chunk, Plain!ReadErr, Buf!ReadErr

LEMMA PlainOutcome ==
  /\ \A r, n, items, err : Plain!Outcome(r, n, items, err) = Outcome(r, n, items, err)
  /\ \A r : Plain!Panic(r) = Panic(r)
BY DEF Plain!Outcome, Outcome, Plain!Panic, Panic

LEMMA PlainSlices ==
  /\ \A from, to : Plain!Legal(from, to) <=> Legal(from, to)
  /\ \A items, from, to : Plain!Slice(items, from, to) = Slice(items, from, to)
  /\ \A s, k : Plain!Prefix(s, k) = Prefix(s, k)
  /\ \A s, delim : Plain!Before(s, delim) = Before(s, delim)
  /\ \A a : Plain!GoMod(a) = GoMod(a)
  /\ \A items, at, p : Plain!Overwrite(items, at, p) = Overwrite(items, at, p)
  /\ Plain!NewRing = NewRing /\ Plain!Slot = Slot
BY DEF Plain!Legal, Legal, Plain!Slice, Slice, Plain!Prefix, Prefix, Plain!Before, Before,
       Plain!GoMod, GoMod, Plain!Overwrite, Overwrite, Plain!NewRing, NewRing,
       Plain!Slot, Slot

LEMMA PlainWrites ==
  /\ \A r, p : Plain!RingWrite(r, p) = RingWrite(r, p)
  /\ \A r, x : Plain!RingWriteItem(r, x) = RingWriteItem(r, x)
<1>1. \A r, end : Plain!Settle(r, end) = Settle(r, end)
  BY DEF Plain!Settle, Settle, Plain!SettleWithinBounds, SettleWithinBounds,
         Plain!SettleWrapped, SettleWrapped
<1>2. \A r, p : Plain!Store(r, p) = Store(r, p)
  BY PlainSlices DEF Plain!Store, Store
<1>3. \A r, p : Plain!StoreWhole(r, p) = StoreWhole(r, p)
  BY PlainSlices DEF Plain!StoreWhole, StoreWhole
<1>4. \A r, p : Plain!RingWrite(r, p) = RingWrite(r, p)
  BY <1>1, <1>2, <1>3, PlainOutcome DEF Plain!RingWrite, RingWrite
<1>5. \A r, x : Plain!RingWriteItem(r, x) = RingWriteItem(r, x)
  BY PlainOutcome DEF Plain!RingWriteItem, RingWriteItem
<1> QED BY <1>4, <1>5

LEMMA PlainReads ==
  /\ \A r, k : Plain!RingRead(r, k) = RingRead(r, k)
  /\ \A r : Plain!RingReadItem(r) = RingReadItem(r)
  /\ \A r : Plain!RingValue(r) = RingValue(r)
  /\ \A r, n : Plain!RingNext(r, n) = RingNext(r, n)
  /\ \A r, delim : Plain!RingReadItems(r, delim) = RingReadItems(r, delim)
  /\ \A r, offset, whence : Plain!RingSeek(r, offset, whence) = RingSeek(r, offset, whence)
  /\ \A r : Plain!RingUnreadItem(r) = RingUnreadItem(r)
  /\ \A r : Plain!RingReset(r) = RingReset(r)
  /\ \A r, n : Plain!RingTruncate(r, n) = RingTruncate(r, n)
<1>1. \A r : Plain!RingLen(r) = RingLen(r)
  BY DEF Plain!RingLen, RingLen
<1>2. \A r : Plain!Wrapped(r) = Wrapped(r)
  BY PlainSlices DEF Plain!Wrapped, Wrapped
<1>3. ASSUME NEW r, NEW k PROVE Plain!RingRead(r, k) = RingRead(r, k)
  <2>1. /\ Plain!RingLen(r) = RingLen(r) /\ Plain!Wrapped(r) = Wrapped(r)
        /\ Plain!Legal(r.read, r.write) <=> Legal(r.read, r.write)
        /\ Plain!Slice(r.items, r.read, r.write) = Slice(r.items, r.read, r.write)
        /\ \A s : Plain!Prefix(s, k) = Prefix(s, k)
    BY <1>1, <1>2, PlainSlices
  <2> QED BY <2>1, PlainOutcome DEF Plain!RingRead, RingRead
<1>4. \A r : Plain!RingReadItem(r) = RingReadItem(r)
  BY PlainSlices, PlainOutcome DEF Plain!RingReadItem, RingReadItem
<1>5. \A r : Plain!RingValue(r) = RingValue(r)
  BY PlainSlices, PlainOutcome DEF Plain!RingValue, RingValue
<1>6. \A r, n : Plain!RingNext(r, n) = RingNext(r, n)
  BY <1>1, <1>3, <1>5, PlainOutcome DEF Plain!RingNext, RingNext
<1>7. ASSUME NEW r, NEW delim PROVE Plain!RingReadItems(r, delim) = RingReadItems(r, delim)
  <2>1. /\ Plain!Wrapped(r) = Wrapped(r)
        /\ Plain!Slice(r.items, 0, r.write) = Slice(r.items, 0, r.write)
        /\ \A s : Plain!Before(s, delim) = Before(s, delim)
        /\ \A a : Plain!GoMod(a) = GoMod(a)
    BY <1>2, PlainSlices
  <2> QED BY <2>1, PlainOutcome DEF Plain!RingReadItems, RingReadItems
<1>8. \A r, offset, whence : Plain!RingSeek(r, offset, whence) = RingSeek(r, offset, whence)
  BY PlainSlices, PlainOutcome DEF Plain!RingSeek, RingSeek
<1>9. \A r : Plain!RingUnreadItem(r) = RingUnreadItem(r)
  BY PlainSlices, PlainOutcome DEF Plain!RingUnreadItem, RingUnreadItem
<1>10. \A r : Plain!RingReset(r) = RingReset(r)
  BY PlainSlices DEF Plain!RingReset, RingReset
<1>11. \A r, n : Plain!RingTruncate(r, n) = RingTruncate(r, n)
  BY <1>1, <1>10, PlainSlices, PlainOutcome
     DEF Plain!RingTruncate, RingTruncate, Plain!RingClear, RingClear
<1> QED BY <1>3, <1>4, <1>5, <1>6, <1>7, <1>8, <1>9, <1>10, <1>11

LEMMA PlainStreaming ==
  /\ \A r, chunk : Plain!Receive(r, chunk) = Receive(r, chunk)
  /\ \A r, num : Plain!Fill(r, num) = Fill(r, num)
  /\ \A r, num : Plain!Advance(r, num) = Advance(r, num)
  /\ \A r, num : Plain!Sent(r, num) = Sent(r, num)
BY PlainSlices DEF Plain!Receive, Receive, Plain!Fill, Fill, Plain!Advance, Advance,
       Plain!Sent, Sent

-----------------------------------------------------------------------------
(* The ring the filter is, while fn is not running.                        *)
LEMMA IdleIsPlain ==
  /\ fn.busy = FALSE => Settled = ring
  /\ fn'.busy = FALSE => Settled' = ring'
  /\ stream.op \notin WriteOps => PlainStream = stream
  /\ stream'.op \notin WriteOps => PlainStream' = stream'
  /\ stream'.op \notin WriteOps /\ result'.op \notin WriteOps => PlainResult' = result'
  /\ stream.op \notin WriteOps /\ stream'.op \notin WriteOps /\ result' = result
       => PlainResult' = PlainResult
BY DEF Settled, PlainStream, PlainResult

LEMMA DoIsPlain ==
  ASSUME NEW call \in CallType, NEW o, Buf!Do(call, o), Unfed, call.op \notin WriteOps
  PROVE  Settled = ring /\ Plain!Do(call, o)
<1>1. stream = Buf!NoStream /\ stream' = Buf!NoStream /\ stream.op = "none"
  BY DEF Buf!Do, Buf!NoStream
<1>2. stream.op \notin WriteOps /\ stream'.op \notin WriteOps
  BY <1>1 DEF WriteOps
<1>3. result'.op \notin WriteOps
  BY DEF Buf!Do, CallType
<1>4. fn.busy = FALSE \/ ~ fn.busy
  BY DEF Unfed
<1>5. Settled = ring /\ Settled' = ring'
  BY <1>4, UnfedType, IdleIsPlain DEF Settled
<1>6. PlainStream = stream /\ PlainStream' = stream' /\ PlainResult' = result'
  BY <1>2, <1>3, IdleIsPlain
<1> QED BY <1>1, <1>5, <1>6, PlainCalls DEF Buf!Do, Plain!Do

LEMMA ReadingIsPlain == ASSUME IInv, Reading PROVE Plain!Next
<1> USE PlainReads, SameReads, PlainCalls DEF Buf!Op
<1>a. \A op : Buf!Called(op).op = op /\ \A k : Buf!With(op, k).op = op
  BY DEF Buf!Called, Buf!With, Buf!NoResult
<1>1. ASSUME NEW k \in Count, Read(k) PROVE Plain!Read(k)
  <2> DEFINE call == Buf!With("Read", k)
             o == RingRead(ring, k)
  <2>1. call \in CallType /\ call.op \notin WriteOps
    BY <1>a, FilterAssumption, CallTypes DEF WriteOps
  <2>2. Buf!Do(call, o) /\ Unfed /\ k >= 0
    BY <1>1 DEF Read, Buf!Read
  <2>3. Settled = ring /\ Plain!Do(call, o)
    <3> HIDE DEF call, o
    <3> QED BY <2>1, <2>2, DoIsPlain
  <2> QED BY <2>2, <2>3 DEF Plain!Read
<1>2. ASSUME NEW k \in Count, NextItems(k) PROVE Plain!NextItems(k)
  <2> DEFINE call == Buf!With("Next", k)
             o == RingNext(ring, k)
  <2>1. call \in CallType /\ call.op \notin WriteOps
    BY <1>a, FilterAssumption, CallTypes DEF WriteOps
  <2>2. Buf!Do(call, o) /\ Unfed
    BY <1>2 DEF NextItems, Buf!NextItems
  <2>3. Settled = ring /\ Plain!Do(call, o)
    <3> HIDE DEF call, o
    <3> QED BY <2>1, <2>2, DoIsPlain
  <2> QED BY <2>3 DEF Plain!NextItems
<1>3. CASE ReadItem
  <2> DEFINE call == Buf!Called("ReadItem")
             o == RingReadItem(ring)
  <2>1. call \in CallType /\ call.op \notin WriteOps
    BY <1>a, CallTypes DEF WriteOps
  <2>2. Buf!Do(call, o) /\ Unfed
    BY <1>3 DEF ReadItem, Buf!ReadItem
  <2>3. Settled = ring /\ Plain!Do(call, o)
    <3> HIDE DEF call, o
    <3> QED BY <2>1, <2>2, DoIsPlain
  <2>4. Plain!ReadItem
    BY <2>3 DEF Plain!ReadItem
  <2> QED BY <2>4 DEF Plain!Next
<1>4. ASSUME NEW delim \in Delim, ReadItems(delim) PROVE Plain!ReadItems(delim)
  <2> DEFINE call == [Buf!Called("ReadItems") EXCEPT !.delim = delim]
             o == RingReadItems(ring, delim)
  <2>1. call \in CallType /\ call.op \notin WriteOps
    <3>1. call \in CallType
      BY FilterAssumption, CallTypes
    <3>2. call.op = "ReadItems"
      BY DEF Buf!Called, Buf!NoResult
    <3> QED BY <3>1, <3>2 DEF WriteOps
  <2>2. Buf!Do(call, o) /\ Unfed
    BY <1>4 DEF ReadItems, Buf!ReadItems
  <2>3. Settled = ring /\ Plain!Do(call, o)
    <3> HIDE DEF call, o
    <3> QED BY <2>1, <2>2, DoIsPlain
  <2> QED BY <2>3 DEF Plain!ReadItems
<1>5. CASE Value
  <2> DEFINE call == Buf!Called("Value")
             o == RingValue(ring)
  <2>1. call \in CallType /\ call.op \notin WriteOps
    BY <1>a, CallTypes DEF WriteOps
  <2>2. Buf!Do(call, o) /\ Unfed
    BY <1>5 DEF Value, Buf!Value
  <2>3. Settled = ring /\ Plain!Do(call, o)
    <3> HIDE DEF call, o
    <3> QED BY <2>1, <2>2, DoIsPlain
  <2>4. Plain!Value
    BY <2>3 DEF Plain!Value
  <2> QED BY <2>4 DEF Plain!Next
<1>6. ASSUME NEW offset \in Offset, NEW whence, Seek(offset, whence)
      PROVE  Plain!Seek(offset, whence)
  <2> DEFINE call == Buf!With("Seek", offset)
             o == RingSeek(ring, offset, whence)
  <2>1. call \in CallType /\ call.op \notin WriteOps
    BY <1>a, FilterAssumption, CallTypes DEF WriteOps
  <2>2. Buf!Do(call, o) /\ Unfed
    BY <1>6 DEF Seek, Buf!Seek
  <2>3. Settled = ring /\ Plain!Do(call, o)
    <3> HIDE DEF call, o
    <3> QED BY <2>1, <2>2, DoIsPlain
  <2> QED BY <2>3 DEF Plain!Seek
<1> QED BY <1>1, <1>2, <1>3, <1>4, <1>5, <1>6 DEF Reading, Plain!Next

(* Where the code differs, it does the same on the rings AlikeNext allows. *)
LEMMA EmptyIsReset ==
  ASSUME NEW r \in Ring, r.full = FALSE
  PROVE  RingEmpty(r) = RingReset(r)
BY DEF RingEmpty, RingReset, Ring

LEMMA FullLen == ASSUME NEW r \in Ring, r.full PROVE RingLen(r) = N
BY DEF RingLen

LEMMA ClearingIsPlain ==
  ASSUME IInv,
         \/ ~ ring.full /\ Reset
         \/ \E n \in Count : (ring.full => n \in 1 .. N) /\ Truncate(n)
         \/ (ring.full <=> ring.read = ring.write) /\ UnreadItem
  PROVE  Plain!Next
<1> USE PlainReads, PlainOutcome, PlainCalls DEF Buf!Op
<1>0. ring \in Ring /\ ring.full \in BOOLEAN
  BY RingFields DEF IInv, Typed
<1>a. \A op : Buf!Called(op).op = op /\ \A k : Buf!With(op, k).op = op
  BY DEF Buf!Called, Buf!With, Buf!NoResult
<1>1. CASE ~ ring.full /\ Reset
  <2> DEFINE call == Buf!Called("Reset")
             o == Outcome(RingReset(ring), 0, <<>>, "nil")
  <2>1. call \in CallType /\ call.op \notin WriteOps
    BY <1>a, CallTypes DEF WriteOps
  <2>2. RingEmpty(ring) = RingReset(ring)
    BY <1>0, <1>1, EmptyIsReset
  <2>3. Buf!Do(call, o) /\ Unfed
    BY <1>1, <2>2 DEF Reset
  <2>4. Settled = ring /\ Plain!Do(call, o)
    <3> HIDE DEF call, o
    <3> QED BY <2>1, <2>3, DoIsPlain
  <2>5. Plain!Reset
    BY <2>4 DEF Plain!Reset
  <2> QED BY <2>5 DEF Plain!Next
<1>2. ASSUME NEW n \in Count, ring.full => n \in 1 .. N, Truncate(n) PROVE Plain!Truncate(n)
  <2> DEFINE call == Buf!With("Truncate", n)
             o == RingTruncate(ring, n)
  <2>1. call \in CallType /\ call.op \notin WriteOps
    BY <1>a, FilterAssumption, CallTypes DEF WriteOps
  <2>2. n <= 0 \/ n > RingLen(ring) => RingEmpty(ring) = RingReset(ring)
    <3>1. CASE ring.full = FALSE
      BY <1>0, <3>1, EmptyIsReset
    <3>2. CASE ring.full
      <4>1. RingLen(ring) = N /\ n \in 1 .. N
        BY <1>0, <1>2, <3>2, FullLen
      <4> QED BY <4>1, RingAssumption
    <3> QED BY <1>0, <3>1, <3>2
  <2>3. Buf!Do(call, o) /\ Unfed
    BY <1>2, <2>2 DEF Truncate, RingTruncate
  <2>4. Settled = ring /\ Plain!Do(call, o)
    <3> HIDE DEF call, o
    <3> QED BY <2>1, <2>3, DoIsPlain
  <2> QED BY <2>4 DEF Plain!Truncate
<1>3. CASE (ring.full <=> ring.read = ring.write) /\ UnreadItem
  <2> DEFINE call == Buf!Called("UnreadItem")
             o == RingUnreadItem(ring)
  <2>1. call \in CallType /\ call.op \notin WriteOps
    BY <1>a, CallTypes DEF WriteOps
  <2>2. Buf!Do(call, o) /\ Unfed
    BY <1>3 DEF UnreadItem, RingUnreadItem
  <2>3. Settled = ring /\ Plain!Do(call, o)
    <3> HIDE DEF call, o
    <3> QED BY <2>1, <2>2, DoIsPlain
  <2>4. Plain!UnreadItem
    BY <2>3 DEF Plain!UnreadItem
  <2> QED BY <2>4 DEF Plain!Next
<1> QED BY <1>1, <1>2, <1>3 DEF Plain!Next

-----------------------------------------------------------------------------
(* Writing: the step that calls fn is the RingBuffer's step, and the one   *)
(* that goes on from fn changes nothing.                                   *)

LEMMA SameCall ==
  ASSUME NEW a \in CallType, NEW b \in CallType, a.op = b.op, a.given = b.given,
         a.arg = b.arg, a.delim = b.delim, a.n = b.n, a.items = b.items, a.err = b.err
  PROVE  a = b
BY DEF CallType

LEMMA WrittenReturns ==
  ASSUME NEW op \in WriteOps, NEW p \in Seq(Item), NEW o \in OutcomeType,
         o.n = IF op = "WriteItem" THEN 0 ELSE IF Len(p) < N THEN Len(p) ELSE N,
         o.items = <<>>, o.err = "nil"
  PROVE  Written(op, p) =
           [[Buf!Called(op) EXCEPT !.given = p] EXCEPT !.n = o.n, !.items = o.items, !.err = o.err]
<1> DEFINE call == [Buf!Called(op) EXCEPT !.given = p]
           a == Written(op, p)
           b == [call EXCEPT !.n = o.n, !.items = o.items, !.err = o.err]
<1>1. Buf!Called(op) \in CallType /\ call \in CallType
  BY CallTypes DEF WriteOps, Buf!Op
<1>2. o.n \in Int /\ o.items \in Seq(Item) /\ o.err \in Err
  BY DEF OutcomeType, Err, CallErr
<1>3. /\ Buf!Called(op).items = <<>> /\ Buf!Called(op).err = "nil"
  BY DEF Buf!Called, Buf!NoResult
<1>4. /\ a \in CallType /\ a.op = Buf!Called(op).op /\ a.given = p
      /\ a.arg = Buf!Called(op).arg /\ a.delim = Buf!Called(op).delim
      /\ a.n = o.n /\ a.items = Buf!Called(op).items /\ a.err = Buf!Called(op).err
  BY <1>1, <1>2 DEF Written, CallType
<1>5. /\ call.op = Buf!Called(op).op /\ call.given = p
      /\ call.arg = Buf!Called(op).arg /\ call.delim = Buf!Called(op).delim
  BY <1>1 DEF CallType
<1>6. /\ b \in CallType /\ b.op = call.op /\ b.given = call.given
      /\ b.arg = call.arg /\ b.delim = call.delim
      /\ b.n = o.n /\ b.items = o.items /\ b.err = o.err
  <2> HIDE DEF call
  <2> QED BY <1>1, <1>2 DEF CallType
<1> HIDE DEF call, a, b
<1>7. a = b
  BY <1>3, <1>4, <1>5, <1>6, SameCall
<1> QED BY <1>7 DEF a, b, call

LEMMA WritingIsPlain == ASSUME IInv, Writing PROVE [Plain!Next]_(Plain!vars)
<1>0. ring \in Ring /\ N \in Nat
  BY RingAssumption DEF IInv, Typed
<1>1. ASSUME NEW p \in Input, Write(p) PROVE Plain!Write(p)
  <2>0. p \in Seq(Item) /\ Len(p) \in Nat
    BY FilterAssumption
  <2>1. /\ stream = Buf!NoStream /\ stream.op \notin WriteOps /\ stream.op = "none"
        /\ stream'.op = "Write" /\ stream'.moved = p /\ fn'.busy = TRUE /\ fn.busy = FALSE
    BY <1>1 DEF Write, Buf!NoStream, WriteOps, IInv, Calls, Typed, FnType
  <2>2. Settled = ring /\ PlainStream = Buf!NoStream /\ PlainStream' = Buf!NoStream
    BY <2>1 DEF Settled, PlainStream, WriteOps
  <2>3. ring'.write = ring.write
    BY <1>0, <1>1 DEF Write, Store, StoreWhole, Ring
  <2>4. Settled' = RingWrite(ring, p).ring
    BY <1>1, <2>1, <2>3 DEF Settled, Write, RingWrite, Outcome
  <2>5. PlainResult' = Written("Write", p)
    BY <2>1 DEF PlainResult, WriteOps
  <2> DEFINE call == [Buf!Called("Write") EXCEPT !.given = p]
             o == RingWrite(ring, p)
  <2>7. Plain!Do(call, o)
    <3>1. PlainResult' = [call EXCEPT !.n = o.n, !.items = o.items, !.err = o.err]
      <4>1. /\ o \in OutcomeType /\ o.items = <<>> /\ o.err = "nil"
            /\ o.n = IF Len(p) < N THEN Len(p) ELSE N
        BY <1>0, <2>0, RingWriteType DEF RingWrite, Outcome
      <4> HIDE DEF o
      <4> QED BY <2>0, <2>5, <4>1, WrittenReturns DEF WriteOps
    <3> HIDE DEF call, o
    <3> QED BY <2>2, <2>4, <3>1, PlainCalls DEF Plain!Do, o
  <2> QED BY <2>2, <2>7, PlainCalls, PlainWrites DEF Plain!Write
<1>2. ASSUME NEW x \in Item, WriteItem(x) PROVE Plain!WriteItem(x)
  <2>1. /\ stream = Buf!NoStream /\ stream.op \notin WriteOps /\ stream.op = "none"
        /\ stream'.op = "WriteItem" /\ stream'.moved = <<x>> /\ fn.busy = FALSE
    BY <1>2 DEF WriteItem, Buf!NoStream, WriteOps, IInv, Calls, Typed, FnType
  <2>2. /\ Settled = ring /\ PlainStream = Buf!NoStream /\ PlainStream' = Buf!NoStream
        /\ Settled' = RingWriteItem(ring, x).ring
    BY <1>2, <2>1 DEF Settled, PlainStream, WriteOps, WriteItem
  <2>3. PlainResult' = Written("WriteItem", <<x>>)
    BY <2>1 DEF PlainResult, WriteOps
  <2> DEFINE call == [Buf!Called("WriteItem") EXCEPT !.given = <<x>>]
             o == RingWriteItem(ring, x)
  <2>5. Plain!Do(call, o)
    <3>1. PlainResult' = [call EXCEPT !.n = o.n, !.items = o.items, !.err = o.err]
      <4>1. o \in OutcomeType /\ o.items = <<>> /\ o.err = "nil" /\ o.n = 0
        BY <1>0, RingWriteItemType DEF RingWriteItem, Outcome
      <4>2. <<x>> \in Seq(Item)
        OBVIOUS
      <4> HIDE DEF o
      <4> QED BY <2>3, <4>1, <4>2, WrittenReturns DEF WriteOps
    <3> HIDE DEF call, o
    <3> QED BY <2>2, <3>1, PlainCalls DEF Plain!Do, o
  <2> QED BY <2>2, <2>5, PlainCalls, PlainWrites DEF Plain!WriteItem
<1>a. ASSUME NEW op \in WriteOps, stream.op = op, NEW n, NEW err, Return(op, n, err)
      PROVE  PlainStream' = PlainStream /\ PlainResult' = PlainResult
  <2>1. stream'.op = "none" /\ stream' = Buf!NoStream
    BY <1>a DEF Return, Buf!Finish, Buf!NoStream
  <2>2. result'.op = op /\ result'.given = stream.moved
    BY <1>a DEF Return, Buf!Finish, Buf!Called, Buf!NoResult
  <2> QED BY <1>a, <2>1, <2>2 DEF PlainStream, PlainResult, WriteOps
<1>3. ASSUME NEW err \in FnErr, WriteReturns(err) PROVE UNCHANGED Plain!vars
  <2>1. stream.op = "Write" /\ fn.busy /\ fn'.busy = FALSE
    BY <1>3, FedType DEF WriteReturns, Fed
  <2>2. Settled' = Settled
    BY <1>3, <2>1, IdleIsPlain DEF WriteReturns, Settled
  <2>3. \E n : Return("Write", n, err)
    BY <1>3 DEF WriteReturns
  <2> QED BY <1>a, <2>1, <2>2, <2>3 DEF Plain!vars, WriteOps
<1>4. ASSUME NEW err \in FnErr, WriteItemReturns(err) PROVE UNCHANGED Plain!vars
  <2>1. stream.op = "WriteItem" /\ fn'.busy = FALSE
    BY <1>4, FedType DEF WriteItemReturns
  <2>2. Settled' = Settled
    BY <1>4, <2>1, IdleIsPlain DEF WriteItemReturns, Settled
  <2> QED BY <1>4, <1>a, <2>1, <2>2 DEF Plain!vars, WriteOps, WriteItemReturns
<1> QED BY <1>1, <1>2, <1>3, <1>4 DEF Writing, Plain!Next

-----------------------------------------------------------------------------
(* Streams: while fn runs inside ReadFrom, the RingBuffer's turn is over.  *)

LEMMA FinishIsPlain ==
  ASSUME NEW call \in CallType, NEW n, NEW items, NEW err,
         Buf!Finish(call, n, items, err), call.op \notin WriteOps
  PROVE  PlainStream' = Plain!NoStream /\ Plain!Finish(call, n, items, err)
<1>1. stream' = Buf!NoStream /\ stream'.op = "none"
  BY DEF Buf!Finish, Buf!NoStream
<1>2. result'.op = call.op
  BY DEF Buf!Finish, CallType
<1>3. stream'.op \notin WriteOps /\ result'.op \notin WriteOps
  BY <1>1, <1>2 DEF WriteOps
<1>4. PlainStream' = stream' /\ PlainResult' = result'
  BY <1>3, IdleIsPlain
<1> QED BY <1>1, <1>4, PlainCalls DEF Plain!Finish, Buf!Finish

LEMMA BeginIsPlain ==
  ASSUME NEW op \in {"ReadFrom", "WriteToTail", "WriteToHead"}, NEW length,
         Buf!Begin(op, length), Unfed
  PROVE  Settled = ring /\ Plain!Begin(op, length)
<1>1. /\ stream = Buf!NoStream /\ stream.op = "none" /\ stream'.op = op
      /\ result' = Buf!NoResult /\ result'.op = "none" /\ ring' = ring
      /\ stream' = [Buf!NoStream EXCEPT !.op = op, !.left = length]
  BY DEF Buf!Begin, Buf!NoStream, Buf!NoResult
<1>2. stream.op \notin WriteOps /\ stream'.op \notin WriteOps /\ result'.op \notin WriteOps
  BY <1>1 DEF WriteOps
<1>3. PlainStream = stream /\ PlainStream' = stream' /\ PlainResult' = result'
  BY <1>2, IdleIsPlain
<1>4. Settled = ring /\ Settled' = ring'
  BY UnfedType, IdleIsPlain
<1> QED BY <1>1, <1>3, <1>4, PlainCalls DEF Plain!Begin

LEMMA ReadFromTurnIsPlain ==
  ASSUME IInv, NEW chunk \in Buf!Chunk, NEW err \in Buf!ReadErr, ReadFromTurn(chunk, err)
  PROVE  Plain!ReadFromTurn(chunk, err)
<1> USE PlainStreaming, PlainCalls DEF Buf!Op
<1>0. stream.op = "ReadFrom" /\ fn.busy = FALSE /\ stream \in StreamType
  BY DEF ReadFromTurn, IInv, Typed, FnType
<1>1. Settled = ring /\ PlainStream = stream
  BY <1>0, IdleIsPlain DEF WriteOps
<1>2. CASE err = "nil"
  <2>1. /\ stream' = [stream EXCEPT !.n = @ + Len(chunk), !.left = @ - Len(chunk),
                                    !.moved = @ \o chunk]
        /\ result' = result /\ fn'.busy = TRUE /\ fn'.slice = chunk
        /\ ring' = Fill(Receive(ring, chunk), Len(chunk))
    BY <1>2 DEF ReadFromTurn, Feed
  <2>2. stream'.op = "ReadFrom"
    BY <1>0, <2>1 DEF StreamType
  <2>3. PlainStream' = stream' /\ PlainResult' = PlainResult
    BY <1>0, <2>1, <2>2, IdleIsPlain DEF WriteOps
  <2>4. Settled' = Advance(Fill(Receive(ring, chunk), Len(chunk)), Len(chunk))
    BY <2>1, <2>2 DEF Settled
  <2> QED BY <1>1, <1>2, <2>1, <2>3, <2>4 DEF Plain!ReadFromTurn, ReadFromTurn
<1>3. CASE err # "nil"
  <2> DEFINE call == [Buf!Called("ReadFrom") EXCEPT !.given = stream.moved]
  <2>1. call \in CallType
    BY <1>0, CallTypes DEF StreamType
  <2>2. call.op \notin WriteOps
    BY DEF Buf!Called, Buf!NoResult, WriteOps
  <2>3. Buf!Finish(call, stream.n, <<>>, err) /\ ring' = Receive(ring, chunk) /\ fn' = fn
    BY <1>3 DEF ReadFromTurn, Return
  <2>4. Plain!Finish(call, stream.n, <<>>, err)
    <3> HIDE DEF call
    <3> QED BY <2>1, <2>2, <2>3, FinishIsPlain
  <2>5. Settled' = ring'
    BY <1>0, <2>3, IdleIsPlain
  <2>6. Plain!ReadFromReturns(err)
    BY <1>1, <2>4 DEF Plain!ReadFromReturns
  <2> QED BY <1>1, <1>3, <2>3, <2>5, <2>6 DEF Plain!ReadFromTurn, ReadFromTurn
<1> QED BY <1>2, <1>3

LEMMA WriteToIsPlain ==
  ASSUME NEW n, NEW moved, NEW err, Buf!WriteToReturns(n, moved, err)
  PROVE  Plain!WriteToReturns(n, moved, err)
<1>1. Buf!Called("WriteTo") \in CallType
  BY CallTypes DEF Buf!Op
<1>2. Buf!Called("WriteTo").op \notin WriteOps
  BY DEF Buf!Called, Buf!NoResult, WriteOps
<1> QED BY <1>1, <1>2, FinishIsPlain, PlainCalls DEF Buf!WriteToReturns, Plain!WriteToReturns

LEMMA StreamingIsPlain == ASSUME IInv, Streaming PROVE [Plain!Next]_(Plain!vars)
<1> USE PlainStreaming, SameStreaming, PlainSlices, SameSlices, PlainCalls DEF Buf!Op
<1>0. ring \in Ring /\ stream \in StreamType
  BY DEF IInv, Typed
<1>1. ASSUME NEW length \in Length, ReadFrom(length) PROVE Plain!ReadFrom(length)
  BY <1>1, BeginIsPlain DEF ReadFrom, Buf!ReadFrom, Plain!ReadFrom
<1>2. CASE WriteTo
  <2>1. Plain!WriteTo
    BY <1>2, BeginIsPlain DEF WriteTo, Buf!WriteTo, Plain!WriteTo
  <2> QED BY <2>1 DEF Plain!Next
<1>3. CASE ReadFromGoesOn
  <2>1. stream.op = "ReadFrom" /\ fn.busy /\ fn'.busy = FALSE
    BY <1>3, FedType DEF ReadFromGoesOn, Fed
  <2>2. Settled = Advance(ring, Len(fn.slice)) /\ Settled' = ring'
    BY <2>1, IdleIsPlain DEF Settled
  <2>3. stream' = stream /\ result' = result /\ ring' = Advance(ring, Len(fn.slice))
    BY <1>3 DEF ReadFromGoesOn
  <2>4. PlainStream' = PlainStream /\ PlainResult' = PlainResult
    BY <2>3 DEF PlainStream, PlainResult
  <2> QED BY <2>2, <2>3, <2>4 DEF Plain!vars
<1>4. CASE ReadFromNegative
  <2> DEFINE call == [Buf!Called("ReadFrom") EXCEPT !.given = stream.moved]
  <2>1. /\ stream.op = "ReadFrom" /\ fn.busy = FALSE /\ fn' = fn /\ ring' = ring
        /\ Buf!Finish(call, stream.n, <<>>, "negative")
    BY <1>4 DEF ReadFromNegative, Buf!ReadFromNegative, Buf!ReadFromReturns, IInv, Typed, FnType
  <2>2. call \in CallType
    BY <1>0, CallTypes DEF StreamType
  <2>3. call.op \notin WriteOps
    BY DEF Buf!Called, Buf!NoResult, WriteOps
  <2>4. Plain!Finish(call, stream.n, <<>>, "negative")
    <3> HIDE DEF call
    <3> QED BY <2>1, <2>2, <2>3, FinishIsPlain
  <2>5. Settled = ring /\ Settled' = ring' /\ PlainStream = stream
    BY <2>1, IdleIsPlain DEF WriteOps
  <2>6. Plain!ReadFromNegative
    BY <2>1, <2>4, <2>5 DEF Plain!ReadFromNegative, Plain!ReadFromReturns
  <2> QED BY <2>6 DEF Plain!Next
<1>a. ASSUME Unfed, stream.op \in {"WriteToTail", "WriteToHead"}
      PROVE  Settled = ring /\ Settled' = ring' /\ PlainStream = stream
  BY <1>a, UnfedType, IdleIsPlain DEF WriteOps
<1>5. ASSUME NEW num \in 0 .. N, NEW err \in Buf!ReadErr, WriteToTail(num, err)
      PROVE  Plain!WriteToTail(num, err)
  <2> DEFINE moved == Slice(ring.items, ring.read, ring.read + num)
  <2>1. stream.op = "WriteToTail" /\ Settled = ring /\ Settled' = ring' /\ PlainStream = stream
    BY <1>5, <1>a DEF WriteToTail, Buf!WriteToTail
  <2>2. CASE err = "nil"
    <3>1. /\ stream' = [stream EXCEPT !.op = "WriteToHead", !.n = num, !.moved = moved]
          /\ result' = result
      BY <1>5, <2>2 DEF WriteToTail, Buf!WriteToTail
    <3>2. stream'.op = "WriteToHead"
      BY <1>0, <3>1 DEF StreamType
    <3>3. PlainStream' = stream' /\ PlainResult' = PlainResult
      BY <2>1, <3>1, <3>2, IdleIsPlain DEF WriteOps
    <3> QED BY <1>5, <2>1, <2>2, <3>1, <3>3 DEF WriteToTail, Buf!WriteToTail, Plain!WriteToTail
  <2>3. CASE err # "nil"
    <3>1. Buf!WriteToReturns(num, moved, err)
      BY <1>5, <2>3 DEF WriteToTail, Buf!WriteToTail
    <3>2. Plain!WriteToReturns(num, moved, err)
      BY <3>1, WriteToIsPlain
    <3> QED BY <1>5, <2>1, <2>3, <3>2 DEF WriteToTail, Buf!WriteToTail, Plain!WriteToTail
  <2> QED BY <2>2, <2>3
<1>6. ASSUME NEW num \in 0 .. N, NEW err \in Buf!ReadErr, WriteToHead(num, err)
      PROVE  Plain!WriteToHead(num, err)
  <2>1. stream.op = "WriteToHead" /\ Settled = ring /\ Settled' = ring' /\ PlainStream = stream
    BY <1>6, <1>a DEF WriteToHead, Buf!WriteToHead
  <2> DEFINE n == stream.n + num
             moved == stream.moved \o Slice(ring.items, ring.read, ring.read + num)
  <2>2. Buf!WriteToReturns(n, moved, err)
    BY <1>6 DEF WriteToHead, Buf!WriteToHead
  <2>3. Plain!WriteToReturns(n, moved, err)
    BY <2>2, WriteToIsPlain
  <2> QED BY <1>6, <2>1, <2>3 DEF WriteToHead, Buf!WriteToHead, Plain!WriteToHead
<1>7. CASE WriteToPanics
  <2>1. stream.op = "WriteToHead" /\ Settled = ring /\ Settled' = ring' /\ PlainStream = stream
    BY <1>7, <1>a DEF WriteToPanics, Buf!WriteToPanics
  <2>2. Plain!WriteToReturns(0, <<>>, "panic")
    BY <1>7, WriteToIsPlain DEF WriteToPanics, Buf!WriteToPanics
  <2>3. Plain!WriteToPanics
    BY <1>7, <2>1, <2>2 DEF WriteToPanics, Buf!WriteToPanics, Plain!WriteToPanics
  <2> QED BY <2>3 DEF Plain!Next
<1>8. CASE WriteToNegative
  <2>1. Settled = ring /\ Settled' = ring' /\ PlainStream = stream
    BY <1>8, <1>a DEF WriteToNegative, Buf!WriteToNegative
  <2>2. Plain!WriteToReturns(stream.n, stream.moved, "negative")
    BY <1>8, WriteToIsPlain DEF WriteToNegative, Buf!WriteToNegative
  <2>3. Plain!WriteToNegative
    BY <1>8, <2>1, <2>2 DEF WriteToNegative, Buf!WriteToNegative, Plain!WriteToNegative
  <2> QED BY <2>3 DEF Plain!Next
<1> QED BY <1>1, <1>2, <1>3, <1>4, <1>5, <1>6, <1>7, <1>8, ReadFromTurnIsPlain
     DEF Streaming, Plain!Next

LEMMA AlikeStep == ASSUME IInv, [AlikeNext]_vars PROVE [Plain!Next]_(Plain!vars)
<1>1. CASE UNCHANGED vars
  <2>1. ring' = ring /\ result' = result /\ stream' = stream /\ fn' = fn
    BY <1>1 DEF vars
  <2>2. Settled' = Settled
    BY <2>1 DEF Settled
  <2>3. PlainResult' = PlainResult /\ PlainStream' = PlainStream
    BY <2>1 DEF PlainResult, PlainStream
  <2> QED BY <2>2, <2>3 DEF Plain!vars
<1> QED BY <1>1, ReadingIsPlain, StreamingIsPlain, WritingIsPlain, ClearingIsPlain DEF AlikeNext

LEMMA AlikeIsNext == [AlikeNext]_vars => [Next]_vars
BY DEF AlikeNext, Next

LEMMA InitIsPlain == ASSUME Init PROVE Plain!Init
<1>1. ring = NewRing /\ result = Buf!NoResult /\ stream = Buf!NoStream /\ fn = IdleFn
  BY SameNewRing DEF Init, Buf!Init
<1>2. stream.op = "none" /\ result.op = "none" /\ fn.busy = FALSE
  BY <1>1 DEF Buf!NoStream, Buf!NoResult, IdleFn
<1>3. Settled = ring /\ PlainStream = stream /\ PlainResult = result
  BY <1>2 DEF Settled, PlainStream, PlainResult, WriteOps
<1> QED BY <1>1, <1>3, PlainCalls, PlainSlices DEF Plain!Init

(* "The buffer still stores the data the exact same way that the           *)
(* RingBuffer does" (README.md:48), away from what AlikeNext leaves out: a *)
(* RingFilter of any size implements a RingBuffer, whatever fn answers in  *)
(* Write and WriteItem.                                                    *)
THEOREM StoresAlike == AlikeSpec => StoresAsRingBuffer
<1>1. Init => IInv /\ Plain!Init
  BY InitInv, InitIsPlain
<1>2. IInv /\ [AlikeNext]_vars => IInv'
  BY NextInv, AlikeIsNext
<1>3. IInv /\ [AlikeNext]_vars => [Plain!Next]_(Plain!vars)
  BY AlikeStep
<1> QED BY <1>1, <1>2, <1>3, PTL DEF AlikeSpec, StoresAsRingBuffer, Plain!Spec

-----------------------------------------------------------------------------
(* What fn was fed is what the ring keeps.                                 *)

Kept(fed) == IF Len(fed) < N THEN Len(fed) ELSE N

(* The newest items before slot w are the last ones of fed.                *)
Sees(items, w, fed) ==
  \A d \in 1 .. Kept(fed) : items[Back(w, d)] = fed[Len(fed) - d + 1]

LEMMA KeptType == \A fed \in Seq(Item) : Kept(fed) \in 0 .. N /\ Kept(fed) <= Len(fed)
BY RingAssumption DEF Kept

LEMMA SeesNewest ==
  ASSUME NEW r \in Ring, NEW fed \in Seq(Item), Sees(r.items, r.write, fed)
  PROVE  [i \in 1 .. Kept(fed) |-> r.items[(r.write - Kept(fed) + i - 1) % N]] =
           LastOf(fed, Kept(fed))
<1> DEFINE k == Kept(fed)
<1>1. k \in 0 .. N /\ k <= Len(fed) /\ k \in Nat /\ Len(fed) \in Nat
  BY KeptType, RingAssumption
<1>2. r.write \in Slot /\ r.write \in Int
  BY RingFields
<1>3. ASSUME NEW i \in 1 .. k
      PROVE  r.items[(r.write - k + i - 1) % N] = fed[Len(fed) - k + i]
  <2>1. k - i + 1 \in 1 .. N /\ k - i + 1 \in 1 .. k
    <3> HIDE DEF k
    <3> QED BY <1>1, RingAssumption
  <2>2. r.write - k + i - 1 = r.write - (k - i + 1)
    BY <1>1, <1>2
  <2>3. (r.write - k + i - 1) % N = Back(r.write, k - i + 1)
    BY <1>2, <2>1, <2>2, ModBack
  <2>4. r.items[Back(r.write, k - i + 1)] = fed[Len(fed) - (k - i + 1) + 1]
    BY <2>1 DEF Sees
  <2>5. Len(fed) - (k - i + 1) + 1 = Len(fed) - k + i
    BY <1>1
  <2> QED BY <2>3, <2>4, <2>5
<1>4. LastOf(fed, k) = [i \in 1 .. k |-> fed[Len(fed) - k + i]]
  <2>1. Len(fed) - k + 1 \in Int /\ Len(fed) - (Len(fed) - k + 1) + 1 = k
    BY <1>1
  <2> HIDE DEF k
  <2> QED BY <1>1, <2>1 DEF LastOf
<1> HIDE DEF k
<1>5. [i \in 1 .. k |-> r.items[(r.write - k + i - 1) % N]] = LastOf(fed, k)
  BY <1>3, <1>4
<1> QED BY <1>5 DEF k

(* What is written behind what was fed before overwrites none of what      *)
(* counts.                                                                 *)
LEMMA LaidSeen ==
  ASSUME NEW f, NEW g, NEW w \in Slot, NEW x \in Slot, NEW fed \in Seq(Item), NEW p \in Seq(Item),
         Sees(f, w, fed), Laid(f, w, g, x, p)
  PROVE  Sees(g, x, fed \o p)
<1> DEFINE c == Len(p)
           every == fed \o p
<1>1. c \in Nat /\ Len(fed) \in Nat /\ N \in Nat
  BY RingAssumption
<1>2. every \in Seq(Item) /\ Len(every) = Len(fed) + c
  OBVIOUS
<1>3. Kept(every) \in 0 .. N /\ Kept(every) <= Len(fed) + c
  <2> HIDE DEF every, c
  <2> QED BY <1>2, KeptType
<1>4. ASSUME NEW d \in 1 .. Kept(every) PROVE g[Back(x, d)] = every[Len(every) - d + 1]
  <2>0. d \in 1 .. N /\ d <= Len(fed) + c
    <3> HIDE DEF every, c
    <3> QED BY <1>1, <1>3
  <2>1. CASE d <= c
    <3>1. /\ d \in 1 .. c /\ Len(every) - d + 1 \in Len(fed) + 1 .. Len(fed) + c
          /\ Len(every) - d + 1 - Len(fed) = c - d + 1
      <4> HIDE DEF every, c
      <4> QED BY <1>1, <1>2, <2>0, <2>1
    <3>2. every[Len(every) - d + 1] = p[c - d + 1]
      BY <3>1
    <3> QED BY <3>1, <3>2 DEF Laid
  <2>2. CASE ~ (d <= c)
    <3>1. /\ d \in c + 1 .. N /\ d - c \in 1 .. Kept(fed)
          /\ Len(every) - d + 1 \in 1 .. Len(fed) /\ Len(every) - d + 1 = Len(fed) - (d - c) + 1
      <4> HIDE DEF every, c
      <4>1. d - c \in Nat /\ d - c >= 1 /\ d - c <= Len(fed) /\ d - c <= N
        BY <1>1, <2>0, <2>2
      <4> QED BY <1>1, <1>2, <2>0, <2>2, <4>1 DEF Kept
    <3>2. every[Len(every) - d + 1] = fed[Len(fed) - (d - c) + 1]
      BY <3>1
    <3> QED BY <3>1, <3>2 DEF Laid, Sees
  <2> QED BY <2>1, <2>2
<1> QED BY <1>4 DEF Sees

LEMMA FirstSeen ==
  ASSUME NEW f, NEW g, NEW w \in Slot, NEW x \in Slot, NEW p \in Seq(Item), Laid(f, w, g, x, p)
  PROVE  Sees(g, x, p)
<1>1. <<>> \in Seq(Item) /\ <<>> \o p = p /\ Kept(<<>>) = 0
  BY RingAssumption DEF Kept
<1>2. Sees(f, w, <<>>)
  BY <1>1 DEF Sees
<1> QED BY <1>1, <1>2, LaidSeen

(* A slice shorter than the ring, copied and settled.                      *)
LEMMA StoreSeen ==
  ASSUME NEW r \in Ring, NEW p \in Seq(Item), Len(p) < N
  PROVE  LET after == Settle(Store(r, p), r.write + Len(p))
         IN  Sees(after.items, after.write, p)
<1> DEFINE end == r.write + Len(p)
           after == Settle(Store(r, p), end)
<1>1. r.write \in Slot /\ Len(p) \in 0 .. N /\ end \in Nat
  BY RingFields, RingAssumption
<1>2. Store(r, p) \in Ring
  BY StoreType
<1>3. after \in Ring
  BY <1>1, <1>2, SettleType
<1>4. after.items = Store(r, p).items
  BY DEF Settle, SettleWithinBounds, SettleWrapped, Store
<1>5. end % N = On(r.write, Len(p))
  BY <1>1, ModOn
<1>6. after.write = On(r.write, Len(p))
  <2>1. after.write = IF end < N THEN end ELSE end % N
    <3> HIDE DEF end
    <3> QED BY <1>2 DEF Settle, SettleWithinBounds, SettleWrapped, Ring
  <2> HIDE DEF after
  <2> QED BY <1>5, <2>1 DEF On
<1>7. Laid(r.items, r.write, after.items, after.write, p)
  <2> HIDE DEF after, end
  <2> QED BY <1>4, <1>6, StoreLaid
<1>8. after.write \in Slot
  BY <1>3, RingFields
<1> HIDE DEF after
<1>9. Sees(after.items, after.write, p)
  BY <1>1, <1>7, <1>8, FirstSeen
<1> QED BY <1>9 DEF after

(* A longer one, laid out from slot 0.                                     *)
LEMMA StoreWholeSeen ==
  ASSUME NEW r \in Ring, NEW p \in Seq(Item), Len(p) >= N, r.write = 0
  PROVE  Sees(StoreWhole(r, p).items, StoreWhole(r, p).write, p)
<1>1. Kept(p) = N /\ Len(p) \in Nat /\ N \in Nat /\ N > 0
  BY RingAssumption DEF Kept
<1>2. StoreWhole(r, p).write = 0 /\ StoreWhole(r, p).items = [j \in Slot |-> p[Len(p) - N + j + 1]]
  BY DEF StoreWhole, Ring
<1>3. ASSUME NEW d \in 1 .. N PROVE StoreWhole(r, p).items[Back(0, d)] = p[Len(p) - d + 1]
  <2>1. Back(0, d) = N - d /\ N - d \in Slot /\ Len(p) - N + (N - d) + 1 = Len(p) - d + 1
    BY <1>1 DEF Back, Slot
  <2> QED BY <1>2, <2>1
<1> QED BY <1>1, <1>2, <1>3 DEF Sees

LEMMA WriteItemSeen ==
  ASSUME NEW r \in Ring, NEW x \in Item
  PROVE  LET after == RingWriteItem(r, x).ring IN Sees(after.items, after.write, <<x>>)
<1> DEFINE after == RingWriteItem(r, x).ring
<1>1. r.write \in Slot /\ 1 \in 0 .. N /\ <<x>> \in Seq(Item)
  BY RingFields, RingAssumption
<1>2. after.write = (r.write + 1) % N /\ after.items = [r.items EXCEPT ![r.write] = x]
  BY DEF RingWriteItem, Outcome
<1>3. after.write = On(r.write, 1) /\ after.write \in Slot
  <2> HIDE DEF after
  <2>1. r.write + 1 \in Int
    BY RingFields
  <2> QED BY <1>1, <1>2, <2>1, ModOn, ModInSlot
<1> HIDE DEF after
<1>4. Laid(r.items, r.write, after.items, after.write, <<x>>)
  BY <1>2, <1>3, WriteItemLaid
<1> QED BY <1>1, <1>3, <1>4, FirstSeen DEF after

(* A chunk of ReadFrom's reader.                                           *)
LEMMA ChunkSeen ==
  ASSUME NEW r \in Ring, NEW fed \in Seq(Item), NEW chunk \in Seq(Item),
         Len(chunk) <= N - r.write, Sees(r.items, r.write, fed)
  PROVE  LET after == Advance(Fill(Receive(r, chunk), Len(chunk)), Len(chunk))
         IN  Sees(after.items, after.write, fed \o chunk)
<1> DEFINE c == Len(chunk)
           after == Advance(Fill(Receive(r, chunk), c), c)
<1>1. r.write \in Slot /\ c \in 0 .. N
  BY RingFields, RingAssumption DEF Slot
<1>2. Receive(r, chunk) \in Ring /\ Fill(Receive(r, chunk), c) \in Ring
  BY ReceiveType
<1>3. Fill(Receive(r, chunk), c).items = Overwrite(r.items, r.write, chunk)
  BY DEF Fill, Receive, Ring
<1>4. Fill(Receive(r, chunk), c).write = r.write
  BY DEF Fill, Receive, Ring
<1>5. after.items = Overwrite(r.items, r.write, chunk) /\ after.write = (r.write + c) % N
  <2> HIDE DEF c
  <2> QED BY <1>2, <1>3, <1>4 DEF Advance, Ring
<1>6. after.write = On(r.write, c) /\ after.write \in Slot
  <2> HIDE DEF after
  <2>1. r.write + c \in Int
    BY RingFields
  <2> HIDE DEF c
  <2> QED BY <1>1, <1>5, <2>1, ModOn, ModInSlot
<1>7. Laid(r.items, r.write, after.items, after.write, chunk)
  <2> HIDE DEF after
  <2> QED BY <1>1, <1>5, <1>6, OverwriteLaid
<1> HIDE DEF after
<1> QED BY <1>1, <1>6, <1>7, LaidSeen DEF after

(* While fn runs or ReadFrom waits for its reader.                         *)
Feeding == stream.op = "ReadFrom" \/ fn.busy

(* A slice that fills the ring, while write is not 0.                      *)
LaidOut == stream.op = "Write" /\ Len(fn.slice) >= N /\ ring.write # 0

(* Between two chunks of ReadFrom too, the ring keeps what fn was fed.     *)
SawInv == Feeding /\ ~ LaidOut => Sees(Settled.items, Settled.write, fn.fed)

LEMMA QuietSaw == ASSUME stream'.op # "ReadFrom", fn'.busy = FALSE PROVE SawInv'
BY DEF SawInv, Feeding

LEMMA SameStream == Buf!NoStream.op = "none"
BY DEF Buf!NoStream

LEMMA WriteSaw == ASSUME IInv, NEW p \in Input, Write(p) PROVE SawInv'
<1>1. /\ fn' = [busy |-> TRUE, slice |-> p, fed |-> p] /\ p \in Seq(Item) /\ ring \in Ring
      /\ stream'.op = "Write" /\ stream'.moved = p
  BY FilterAssumption DEF Write, IInv, Typed, Buf!NoStream
<1>2. fn'.busy = TRUE /\ fn'.slice = p /\ fn'.fed = p
  BY <1>1
<1>3. CASE Len(p) < N
  <2>1. ring' = Store(ring, p) /\ ring'.write = ring.write
    BY <1>1, <1>3 DEF Write, Store, Ring
  <2>2. Settled' = Settle(Store(ring, p), ring.write + Len(p))
    BY <1>1, <1>2, <1>3, <2>1 DEF Settled
  <2> QED BY <1>1, <1>2, <1>3, <2>2, StoreSeen DEF SawInv
<1>4. CASE ~ (Len(p) < N)
  <2>1. ring' = StoreWhole(ring, p) /\ ring'.write = ring.write
    BY <1>1, <1>4 DEF Write, StoreWhole, Ring
  <2>2. Settled' = StoreWhole(ring, p)
    BY <1>1, <1>2, <1>4, <2>1 DEF Settled
  <2>3. CASE ring.write = 0
    <3>1. Len(p) >= N
      BY <1>1, <1>4, RingAssumption
    <3> QED BY <1>1, <1>2, <2>2, <2>3, <3>1, StoreWholeSeen DEF SawInv
  <2>4. CASE ring.write # 0
    <3>1. Len(p) >= N
      BY <1>1, <1>4, RingAssumption
    <3>2. LaidOut'
      BY <1>1, <1>2, <2>1, <2>4, <3>1 DEF LaidOut
    <3> QED BY <3>2 DEF SawInv
  <2> QED BY <2>3, <2>4
<1> QED BY <1>3, <1>4

LEMMA WriteItemSaw == ASSUME IInv, NEW x \in Item, WriteItem(x) PROVE SawInv'
<1>1. /\ fn' = [busy |-> TRUE, slice |-> <<x>>, fed |-> <<x>>] /\ ring \in Ring
      /\ stream'.op = "WriteItem" /\ ring' = RingWriteItem(ring, x).ring
  BY DEF WriteItem, IInv, Typed, Buf!NoStream
<1>2. fn'.busy = TRUE /\ fn'.fed = <<x>>
  BY <1>1
<1>3. Settled' = RingWriteItem(ring, x).ring
  BY <1>1 DEF Settled
<1>4. Sees(RingWriteItem(ring, x).ring.items, RingWriteItem(ring, x).ring.write, <<x>>)
  BY <1>1, WriteItemSeen
<1> QED BY <1>2, <1>3, <1>4 DEF SawInv

(* ReadFrom has fed fn nothing yet.                                        *)
LEMMA BeginSaw == ASSUME IInv, NEW length, ReadFrom(length) PROVE SawInv'
<1>1. fn' = IdleFn /\ fn'.fed = <<>>
  BY DEF ReadFrom, Unfed, IdleFn
<1>2. Kept(<<>>) = 0
  BY RingAssumption DEF Kept
<1>3. \A items, w : Sees(items, w, <<>>)
  BY <1>2 DEF Sees
<1> QED BY <1>1, <1>3 DEF SawInv

LEMMA TurnSaw ==
  ASSUME IInv, SawInv, NEW chunk \in Buf!Chunk, NEW err, ReadFromTurn(chunk, err)
  PROVE  SawInv'
<1>1. CASE err # "nil"
  <2>1. stream' = Buf!NoStream /\ fn' = fn /\ fn.busy = FALSE
    BY <1>1 DEF ReadFromTurn, Return, Buf!Finish, IInv, Typed, FnType
  <2> QED BY <2>1, SameStream, QuietSaw
<1>2. CASE err = "nil"
  <2>1. /\ ring \in Ring /\ chunk \in Seq(Item) /\ fn.fed \in Seq(Item)
        /\ stream \in StreamType /\ stream.op = "ReadFrom" /\ fn.busy = FALSE
        /\ Len(chunk) <= N - ring.write
    BY ChunkType DEF ReadFromTurn, IInv, Typed, FnType
  <2>2. ring' = Fill(Receive(ring, chunk), Len(chunk))
    BY <1>2 DEF ReadFromTurn
  <2>3. fn' = [busy |-> TRUE, slice |-> chunk, fed |-> fn.fed \o chunk]
    BY <1>2 DEF ReadFromTurn, Feed
  <2>4. stream'.op = "ReadFrom"
    BY <1>2, <2>1 DEF ReadFromTurn, StreamType
  <2>5. Settled = ring
    BY <2>1 DEF Settled
  <2>6. Settled' = Advance(Fill(Receive(ring, chunk), Len(chunk)), Len(chunk))
    BY <2>2, <2>3, <2>4 DEF Settled
  <2>7. Sees(ring.items, ring.write, fn.fed)
    BY <2>1, <2>5 DEF SawInv, Feeding, LaidOut
  <2>8. fn'.fed = fn.fed \o chunk
    BY <2>3
  <2> QED BY <2>1, <2>6, <2>7, <2>8, ChunkSeen DEF SawInv
<1> QED BY <1>1, <1>2

LEMMA GoesOnSaw == ASSUME IInv, SawInv, ReadFromGoesOn PROVE SawInv'
<1>1. /\ stream.op = "ReadFrom" /\ fn.busy /\ stream' = stream
      /\ ring' = Advance(ring, Len(fn.slice))
  BY DEF ReadFromGoesOn, Fed
<1>2. fn'.busy = FALSE /\ fn'.fed = fn.fed
  BY DEF ReadFromGoesOn, Fed, IInv, Typed, FnType
<1>3. Settled = ring' /\ Settled' = ring'
  BY <1>1, <1>2 DEF Settled
<1>4. Sees(Settled.items, Settled.write, fn.fed)
  BY <1>1 DEF SawInv, Feeding, LaidOut
<1> QED BY <1>2, <1>3, <1>4 DEF SawInv

(* Every other step leaves no ReadFrom and no fn behind.                   *)
LEMMA DoneSaw ==
  ASSUME IInv, \E op, n, err : Return(op, n, err), Fed PROVE SawInv'
<1>1. fn'.busy = FALSE
  BY FedType
<1>2. stream' = Buf!NoStream
  BY DEF Return, Buf!Finish
<1> QED BY <1>1, <1>2, SameStream, QuietSaw

LEMMA AloneSaw ==
  ASSUME Unfed, stream'.op # "ReadFrom" PROVE SawInv'
BY UnfedType, QuietSaw

LEMMA CallsSaw ==
  ASSUME Reading \/ Reset \/ UnreadItem \/ \E n \in Count : Truncate(n) PROVE SawInv'
<1>1. ASSUME NEW call, NEW o, Buf!Do(call, o) PROVE stream'.op # "ReadFrom"
  BY <1>1, SameStream DEF Buf!Do
<1>2. CASE Reading
  BY <1>1, <1>2, AloneSaw DEF Reading, Read, NextItems, ReadItem, ReadItems, Value, Seek,
     Buf!Read, Buf!NextItems, Buf!ReadItem, Buf!ReadItems, Buf!Value, Buf!Seek
<1>3. CASE Reset \/ UnreadItem \/ \E n \in Count : Truncate(n)
  BY <1>1, <1>3, AloneSaw DEF Reset, UnreadItem, Truncate
<1> QED BY <1>2, <1>3

LEMMA WriteToSaw ==
  ASSUME IInv,
         \/ WriteTo
         \/ \E num \in 0 .. N, err \in Buf!ReadErr : WriteToTail(num, err) \/ WriteToHead(num, err)
         \/ WriteToPanics \/ WriteToNegative
  PROVE  SawInv'
<1>1. ASSUME NEW n, NEW moved, NEW err, Buf!WriteToReturns(n, moved, err)
      PROVE  stream'.op # "ReadFrom"
  BY <1>1, SameStream DEF Buf!WriteToReturns, Buf!Finish
<1>2. CASE WriteTo
  <2>1. stream'.op # "ReadFrom"
    BY <1>2 DEF WriteTo, Buf!WriteTo, Buf!Begin, Buf!NoStream
  <2> QED BY <1>2, <2>1, AloneSaw DEF WriteTo
<1>3. ASSUME NEW num, NEW err, WriteToTail(num, err) PROVE SawInv'
  <2>1. stream'.op # "ReadFrom"
    <3>1. stream \in StreamType
      BY DEF IInv, Typed
    <3> QED BY <1>1, <1>3, <3>1 DEF WriteToTail, Buf!WriteToTail, StreamType
  <2> QED BY <1>3, <2>1, AloneSaw DEF WriteToTail
<1>4. ASSUME NEW num, NEW err, WriteToHead(num, err) PROVE SawInv'
  BY <1>1, <1>4, AloneSaw DEF WriteToHead, Buf!WriteToHead
<1>5. CASE WriteToPanics \/ WriteToNegative
  BY <1>1, <1>5, AloneSaw DEF WriteToPanics, Buf!WriteToPanics, WriteToNegative, Buf!WriteToNegative
<1> QED BY <1>2, <1>3, <1>4, <1>5

LEMMA SawStep == ASSUME IInv, SawInv, [Next]_vars PROVE SawInv'
<1>1. CASE UNCHANGED vars
  BY <1>1 DEF vars, SawInv, Feeding, LaidOut, Settled
<1>2. CASE Writing
  <2>1. ASSUME NEW err \in FnErr, WriteReturns(err) \/ WriteItemReturns(err) PROVE SawInv'
    BY <2>1, DoneSaw DEF WriteReturns, WriteItemReturns
  <2> QED BY <1>2, <2>1, WriteSaw, WriteItemSaw DEF Writing
<1>3. CASE Streaming
  <2>1. CASE ReadFromNegative
    <3>1. stream' = Buf!NoStream /\ fn' = fn /\ fn.busy = FALSE
      BY <2>1 DEF ReadFromNegative, Buf!ReadFromNegative, Buf!ReadFromReturns, Buf!Finish,
                  IInv, Typed, FnType
    <3> QED BY <3>1, SameStream, QuietSaw
  <2> QED BY <1>3, <2>1, BeginSaw, TurnSaw, GoesOnSaw, WriteToSaw DEF Streaming
<1>4. CASE ReadFromFails("filter") \/ FnPanics
  BY <1>4, DoneSaw DEF ReadFromFails, FnPanics
<1> QED BY <1>1, <1>2, <1>3, <1>4, CallsSaw DEF Next

LEMMA SettledType == ASSUME IInv PROVE Settled \in Ring
<1>0. ring \in Ring /\ stream.moved \in Seq(Item) /\ Len(fn.slice) \in Nat
  BY DEF IInv, Typed, StreamType, FnType
<1>1. CASE fn.busy /\ stream.op = "Write" /\ Len(stream.moved) < N
  <2>1. Settled = Settle(ring, ring.write + Len(stream.moved))
    BY <1>1 DEF Settled
  <2>2. ring.write + Len(stream.moved) \in 0 .. 2 * N - 1
    BY <1>0, <1>1, RingFields, RingAssumption
  <2> QED BY <1>0, <2>1, <2>2, SettleType
<1>2. CASE fn.busy /\ stream.op = "ReadFrom"
  BY <1>0, <1>2, AdvanceType DEF Settled
<1>3. CASE ~ (fn.busy /\ stream.op = "Write" /\ Len(stream.moved) < N)
           /\ ~ (fn.busy /\ stream.op = "ReadFrom")
  BY <1>0, <1>3 DEF Settled
<1> QED BY <1>1, <1>2, <1>3

LEMMA SawIsSeen == ASSUME IInv, SawInv PROVE FilterSawNewest
<1> DEFINE k == IF Len(fn.fed) < N THEN Len(fn.fed) ELSE N
<1>1. SUFFICES ASSUME fn.busy, stream.op = "Write" /\ Len(fn.slice) >= N => ring.write = 0
               PROVE  Newest(k) = LastOf(fn.fed, k)
  BY DEF FilterSawNewest
<1>2. Sees(Settled.items, Settled.write, fn.fed)
  BY <1>1 DEF SawInv, Feeding, LaidOut
<1>3. Settled \in Ring
  BY SettledType
<1>4. fn.fed \in Seq(Item)
  BY DEF IInv, Typed, FnType
<1>5. k = Kept(fn.fed)
  BY DEF Kept
<1> HIDE DEF k
<1> QED BY <1>2, <1>3, <1>4, <1>5, SeesNewest DEF Newest

(* What fn sees is what the ring keeps: while fn runs, the newest items of *)
(* the ring are the last ones it was fed, for every N, through every wrap, *)
(* overwrite and partial chunk, whatever state earlier calls, failed       *)
(* filters and interrupted streams have left the ring in.                  *)
THEOREM SawNewest == Spec => []FilterSawNewest
<1>1. Init => IInv /\ SawInv
  <2>1. Init => stream = Buf!NoStream /\ fn = IdleFn
    BY DEF Init, Buf!Init
  <2>2. Init => SawInv
    BY <2>1, SameStream DEF IdleFn, SawInv, Feeding
  <2> QED BY <2>2, InitInv
<1>2. IInv /\ SawInv /\ [Next]_vars => (IInv /\ SawInv)'
  BY NextInv, SawStep
<1>3. IInv /\ SawInv => FilterSawNewest
  BY SawIsSeen
<1> QED BY <1>1, <1>2, <1>3, PTL DEF Spec

-----------------------------------------------------------------------------
(* The pipeline: a ring that is given the filter's slices by Write, beside *)
(* the filter's own.                                                       *)

(* Two rings that write on at the same slot and hold the same items there. *)
Alike(r, s) == r.items = s.items /\ r.write = s.write

(* Write's copy and its write index know nothing else of the ring.         *)
LEMMA WriteAlike ==
  ASSUME NEW r \in Ring, NEW s \in Ring, Alike(r, s), NEW p \in Seq(Item)
  PROVE  Alike(RingWrite(r, p).ring, RingWrite(s, p).ring)
<1>1. r.write = s.write /\ r.items = s.items
  BY DEF Alike
<1>2. CASE Len(p) < N
  <2> DEFINE end == r.write + Len(p)
  <2>1. RingWrite(r, p).ring = Settle(Store(r, p), end)
        /\ RingWrite(s, p).ring = Settle(Store(s, p), end)
    BY <1>1, <1>2 DEF RingWrite, Outcome
  <2>2. Store(r, p).items = Store(s, p).items
    BY <1>1 DEF Store, Ring
  <2>3. Store(r, p) \in Ring /\ Store(s, p) \in Ring
    BY <1>2, StoreType
  <2> HIDE DEF end
  <2>4. \A q \in Ring : /\ Settle(q, end).items = q.items
                        /\ Settle(q, end).write = IF end < N THEN end ELSE end % N
    BY DEF Settle, SettleWithinBounds, SettleWrapped, Ring
  <2> QED BY <2>1, <2>2, <2>3, <2>4 DEF Alike
<1>3. CASE ~ (Len(p) < N)
  BY <1>1, <1>3 DEF RingWrite, Outcome, StoreWhole, Ring, Alike
<1> QED BY <1>2, <1>3

(* WriteItem writes what Write of the one item would.                      *)
LEMMA WriteItemAlike ==
  ASSUME NEW r \in Ring, NEW x \in Item
  PROVE  Alike(RingWriteItem(r, x).ring, RingWrite(r, <<x>>).ring)
<1> DEFINE p == <<x>>
<1>1. p \in Seq(Item) /\ Len(p) = 1 /\ p[1] = x
  OBVIOUS
<1>2. /\ r.write \in Slot /\ r.write \in Int /\ 0 <= r.write /\ r.write < N
      /\ N \in Nat /\ r.items \in [Slot -> Item]
  BY RingFields, RingAssumption
<1>3. /\ RingWriteItem(r, x).ring.write = (r.write + 1) % N
      /\ RingWriteItem(r, x).ring.items = [r.items EXCEPT ![r.write] = x]
  BY DEF RingWriteItem, Outcome
<1> HIDE DEF p
<1>4. CASE N = 1
  <2>1. r.write = 0 /\ (r.write + 1) % N = 0 /\ Slot = {0}
    BY <1>2, <1>4 DEF Slot
  <2>2. RingWrite(r, p).ring = StoreWhole(r, p)
    BY <1>1, <1>4 DEF RingWrite, Outcome
  <2>3. StoreWhole(r, p).write = 0 /\ StoreWhole(r, p).items = [j \in Slot |-> p[1 - N + j + 1]]
    BY <1>1, <2>1 DEF StoreWhole, Ring
  <2>4. \A j \in Slot : 1 - N + j + 1 = 1 /\ j = r.write
    BY <1>4, <2>1
  <2>5. [r.items EXCEPT ![r.write] = x] = [j \in Slot |-> p[1 - N + j + 1]]
    BY <1>1, <1>2, <2>4
  <2> QED BY <1>3, <2>1, <2>2, <2>3, <2>5 DEF Alike, p
<1>5. CASE N > 1
  <2> DEFINE end == r.write + 1
  <2>1. RingWrite(r, p).ring = Settle(Store(r, p), end)
    BY <1>1, <1>5 DEF RingWrite, Outcome
  <2>2. Store(r, p) \in Ring
    BY <1>1, <1>5, StoreType
  <2>3. end \in 1 .. N /\ (end < N => end % N = end) /\ (~ (end < N) => end % N = 0)
    BY <1>2, <1>5
  <2>4. Store(r, p).items = IF end < N THEN Overwrite(r.items, r.write, p)
         ELSE [j \in Slot |-> IF j >= r.write THEN p[j - r.write + 1]
                              ELSE IF j < end % N THEN p[N - r.write + j + 1]
                              ELSE r.items[j]]
    BY <1>1 DEF Store, Ring
  <2>5. Store(r, p).items = [r.items EXCEPT ![r.write] = x]
    <3>1. \A j \in Slot : /\ j >= r.write /\ j < end => j = r.write
                          /\ j = r.write => j - r.write + 1 = 1 /\ j < end
                          /\ ~ (end < N) /\ j >= r.write => j = r.write
                          /\ ~ (j < 0)
      BY <1>2, <2>3 DEF Slot
    <3>2. CASE end < N
      <4>1. Overwrite(r.items, r.write, p)
              = [j \in Slot |-> IF j = r.write THEN x ELSE r.items[j]]
        BY <1>1, <1>2, <3>1 DEF Overwrite, Slot
      <4> QED BY <1>2, <2>4, <3>2, <4>1
    <3>3. CASE ~ (end < N)
      <4>1. \A j \in Slot : /\ (j >= r.write <=> j = r.write)
                            /\ j = r.write => j - r.write + 1 = 1
        BY <1>2, <3>1, <3>3
      <4> HIDE DEF end
      <4>2. Store(r, p).items = [j \in Slot |-> IF j = r.write THEN x ELSE r.items[j]]
        BY <1>1, <2>3, <2>4, <3>1, <3>3, <4>1
      <4> QED BY <1>2, <4>2
    <3> QED BY <3>2, <3>3
  <2> HIDE DEF end
  <2>6. Settle(Store(r, p), end).items = Store(r, p).items
        /\ Settle(Store(r, p), end).write = IF end < N THEN end ELSE end % N
    BY <2>2 DEF Settle, SettleWithinBounds, SettleWrapped, Ring
  <2>7. (IF end < N THEN end ELSE end % N) = (r.write + 1) % N
    BY <2>3 DEF end
  <2> QED BY <1>3, <2>1, <2>5, <2>6, <2>7 DEF Alike, p
<1> QED BY <1>2, <1>4, <1>5

(* A chunk is received where Write of it would store it.                   *)
LEMMA ReceiveAlike ==
  ASSUME NEW r \in Ring, NEW p \in Seq(Item), Len(p) <= N - r.write
  PROVE  Alike(Advance(Fill(Receive(r, p), Len(p)), Len(p)), RingWrite(r, p).ring)
<1> DEFINE m == Len(p)
           end == r.write + m
           after == Advance(Fill(Receive(r, p), m), m)
<1>1. /\ r.write \in Slot /\ r.write \in Int /\ 0 <= r.write /\ r.write < N
      /\ N \in Nat /\ r.items \in [Slot -> Item] /\ m \in Nat
      /\ m <= N - r.write
  BY RingFields, RingAssumption
<1>2. Receive(r, p) \in Ring /\ Fill(Receive(r, p), m) \in Ring
  BY ReceiveType
<1>3. Fill(Receive(r, p), m).items = Overwrite(r.items, r.write, p)
      /\ Fill(Receive(r, p), m).write = r.write
  BY DEF Fill, Receive, Ring
<1>4. after.items = Overwrite(r.items, r.write, p) /\ after.write = (r.write + m) % N
  <2> HIDE DEF m
  <2> QED BY <1>2, <1>3 DEF Advance, Ring
<1> HIDE DEF after
<1>5. CASE m < N
  <2>1. RingWrite(r, p).ring = Settle(Store(r, p), end)
    BY <1>5 DEF RingWrite, Outcome
  <2>2. Store(r, p) \in Ring
    BY <1>5, StoreType
  <2>3. end \in 0 .. N /\ (end < N => end % N = end) /\ (~ (end < N) => end % N = 0)
    <3>1. end \in 0 .. N
      BY <1>1
    <3> HIDE DEF end
    <3>2. end < N => end % N = end
      BY <1>1, <3>1
    <3>3. ~ (end < N) => end % N = 0
      BY <1>1, <3>1
    <3> QED BY <3>1, <3>2, <3>3
  <2>4. Store(r, p).items = IF end < N THEN Overwrite(r.items, r.write, p)
         ELSE [j \in Slot |-> IF j >= r.write THEN p[j - r.write + 1]
                              ELSE IF j < end % N THEN p[N - r.write + j + 1]
                              ELSE r.items[j]]
    BY DEF Store, Ring
  <2>5. Store(r, p).items = Overwrite(r.items, r.write, p)
    <3>1. CASE end < N
      BY <2>4, <3>1
    <3>2. CASE ~ (end < N)
      <4>1. \A j \in Slot : (r.write <= j /\ j < end <=> j >= r.write) /\ ~ (j < 0)
        BY <1>1, <2>3, <3>2 DEF Slot
      <4> HIDE DEF m
      <4>2. \A j \in Slot : (r.write <= j /\ j < r.write + Len(p) <=> j >= r.write)
        BY <4>1 DEF m
      <4>3. Store(r, p).items = [j \in Slot |-> IF j >= r.write THEN p[j - r.write + 1]
                                                ELSE r.items[j]]
        <5> HIDE DEF end
        <5> QED BY <2>3, <2>4, <3>2, <4>1
      <4> QED BY <4>2, <4>3 DEF Overwrite
    <3> QED BY <3>1, <3>2
  <2> HIDE DEF end
  <2>6. Settle(Store(r, p), end).items = Store(r, p).items
        /\ Settle(Store(r, p), end).write = IF end < N THEN end ELSE end % N
    BY <2>2 DEF Settle, SettleWithinBounds, SettleWrapped, Ring
  <2>7. (IF end < N THEN end ELSE end % N) = (r.write + m) % N
    BY <2>3 DEF end
  <2> QED BY <1>4, <2>1, <2>5, <2>6, <2>7 DEF Alike, after, end
<1>6. CASE ~ (m < N)
  <2>1. r.write = 0 /\ m = N
    BY <1>1, <1>6
  <2>2. (r.write + m) % N = 0
    BY <1>1, <2>1
  <2>3. RingWrite(r, p).ring = StoreWhole(r, p)
    BY <1>6 DEF RingWrite, Outcome
  <2>4. StoreWhole(r, p).write = 0
        /\ StoreWhole(r, p).items = [j \in Slot |-> p[Len(p) - N + j + 1]]
    BY <2>1 DEF StoreWhole, Ring
  <2>5. [j \in Slot |-> p[Len(p) - N + j + 1]] = Overwrite(r.items, r.write, p)
    <3>1. \A j \in Slot : Len(p) - N + j + 1 = j - r.write + 1
                          /\ r.write <= j /\ j < r.write + Len(p)
      BY <1>1, <2>1 DEF Slot
    <3> QED BY <3>1 DEF Overwrite
  <2> QED BY <1>4, <2>2, <2>3, <2>4, <2>5 DEF Alike, after
<1> QED BY <1>5, <1>6

(* Nothing received, nothing changed.                                      *)
LEMMA ReceiveNone ==
  ASSUME NEW r \in Ring, NEW p \in Seq(Item), Len(p) = 0
  PROVE  Alike(Receive(r, p), r)
<1>1. r.write \in Int /\ r.items \in [Slot -> Item] /\ \A j \in Slot : j \in Int
  BY RingFields, SlotRange
<1>2. \A j \in Slot : ~ (r.write <= j /\ j < r.write + Len(p))
  BY <1>1
<1>3. Overwrite(r.items, r.write, p) = [j \in Slot |-> r.items[j]]
  BY <1>2 DEF Overwrite
<1> QED BY <1>1, <1>3 DEF Receive, Ring, Alike

(* A read moves the read index only.                                       *)
LEMMA ReadAlike ==
  ASSUME NEW r \in Ring
  PROVE  /\ \A k : Alike(RingRead(r, k).ring, r)
         /\ Alike(RingReadItem(r).ring, r)
         /\ Alike(RingValue(r).ring, r)
         /\ \A k : Alike(RingNext(r, k).ring, r)
         /\ \A d : Alike(RingReadItems(r, d).ring, r)
         /\ \A o, w : Alike(RingSeek(r, o, w).ring, r)
<1>1. \A k : Alike(RingRead(r, k).ring, r)
  BY DEF RingRead, Outcome, Panic, Alike, Ring
<1>2. Alike(RingReadItem(r).ring, r)
  BY DEF RingReadItem, Outcome, Panic, Alike, Ring
<1>3. Alike(RingValue(r).ring, r)
  BY DEF RingValue, Outcome, Panic, Alike, Ring
<1>4. \A k : Alike(RingNext(r, k).ring, r)
  <2>1. Alike(r, r)
    BY DEF Alike
  <2>2. ASSUME NEW k PROVE Alike(RingNext(r, k).ring, r)
    <3>1. \A o, n, items : [o EXCEPT !.n = n, !.items = items].ring = o.ring
      OBVIOUS
    <3> QED BY <1>1, <1>3, <2>1 DEF RingNext, Outcome, RingRead, Panic
  <2> QED BY <2>2
<1>5. \A d : Alike(RingReadItems(r, d).ring, r)
  BY DEF RingReadItems, Outcome, Alike, Ring
<1>6. \A o, w : Alike(RingSeek(r, o, w).ring, r)
  BY DEF RingSeek, Outcome, Alike, Ring
<1> QED BY <1>1, <1>2, <1>3, <1>4, <1>5, <1>6

-----------------------------------------------------------------------------

(* The buffer once the process function has written its slice.             *)
Due == IF fn.busy THEN RingWrite(sink, fn.slice).ring ELSE sink

SourceTyped == reader \in [s : Seq(Item), i : Int]

(* A ReadFrom has fed and counted what the reader has gone past, no more   *)
(* and no less.                                                            *)
Owed ==
  stream.op = "ReadFrom" =>
    reader.i >= 0 /\ fn.fed \o Src!Rest(reader) = whole /\ stream.n = Len(fn.fed)

PInv == IInv /\ sink \in Ring /\ SourceTyped /\ Alike(Due, Settled) /\ Owed

LEMMA RestType ==
  ASSUME NEW r \in [s : Seq(Item), i : Int], r.i >= 0
  PROVE  /\ Src!Rest(r) \in Seq(Item)
         /\ Len(Src!Rest(r)) = Src!LenOf(r)
         /\ Src!LenOf(r) \in Nat
         /\ \A j \in 1 .. Src!LenOf(r) : Src!Rest(r)[j] = r.s[r.i + j]
         /\ Src!AtEnd(r) => Src!Rest(r) = <<>>
<1>1. r.s \in Seq(Item) /\ Len(r.s) \in Nat /\ r.i \in Int
  OBVIOUS
<1> QED BY <1>1 DEF Src!Rest, Src!LenOf, Src!AtEnd

(* Read hands over the first items of the rest, and goes past them.        *)
LEMMA SourceReadRest ==
  ASSUME NEW r \in [s : Seq(Item), i : Int], r.i >= 0, NEW k \in Nat, ~ Src!AtEnd(r)
  PROVE  LET o == Src!SourceRead(r, k)
         IN  /\ o.reader \in [s : Seq(Item), i : Int] /\ o.reader.i >= 0
             /\ o.items \in Seq(Item) /\ Len(o.items) <= k /\ o.err = "nil"
             /\ o.items \o Src!Rest(o.reader) = Src!Rest(r)
<1> DEFINE items == Prefix(Src!Rest(r), k)
           after == [r EXCEPT !.i = r.i + Len(items)]
<1>1. /\ Src!Rest(r) \in Seq(Item) /\ Len(Src!Rest(r)) = Src!LenOf(r) /\ Src!LenOf(r) \in Nat
      /\ \A j \in 1 .. Src!LenOf(r) : Src!Rest(r)[j] = r.s[r.i + j]
  BY RestType
<1>2. /\ items \in Seq(Item)
      /\ Len(items) = IF k < Len(Src!Rest(r)) THEN k ELSE Len(Src!Rest(r))
      /\ \A j \in 1 .. Len(items) : items[j] = Src!Rest(r)[j]
  BY <1>1, PrefixType
<1>3. Src!SourceRead(r, k) = Src!Outcome(after, Len(items), items, "nil")
  BY DEF Src!SourceRead, Src!Prefix, Prefix, Src!At
<1> HIDE DEF items
<1>4. Len(items) \in Nat /\ Len(items) <= k /\ Len(items) <= Src!LenOf(r)
  BY <1>1, <1>2
<1>5. after \in [s : Seq(Item), i : Int] /\ after.i = r.i + Len(items) /\ after.s = r.s /\ after.i >= 0
  <2>1. r.i + Len(items) \in Int /\ r.i + Len(items) >= 0
    BY <1>4
  <2> QED BY <2>1
<1> HIDE DEF after
<1>6. Src!LenOf(after) = Src!LenOf(r) - Len(items)
  <2>1. r.i \in Int /\ Len(r.s) \in Nat /\ Src!LenOf(r) = Len(r.s) - r.i
    BY DEF Src!LenOf, Src!AtEnd
  <2> QED BY <1>4, <1>5, <2>1 DEF Src!LenOf, Src!AtEnd
<1>7. items \o Src!Rest(after) = Src!Rest(r)
  <2> DEFINE rest == Src!Rest(after)
             every == Src!Rest(r)
  <2>1. /\ rest \in Seq(Item) /\ Len(rest) = Src!LenOf(after)
        /\ \A j \in 1 .. Src!LenOf(after) : rest[j] = r.s[r.i + Len(items) + j]
    BY <1>5, RestType
  <2>2. every \in Seq(Item) /\ Len(every) = Len(items) + Len(rest)
        /\ \A j \in 1 .. Len(every) : every[j] = r.s[r.i + j]
    BY <1>1, <1>4, <1>6, <2>1
  <2>3. Len(rest) \in Nat /\ \A j \in 1 .. Len(rest) : rest[j] = r.s[r.i + (Len(items) + j)]
    <3>1. \A j \in 1 .. Len(rest) : r.i + Len(items) + j = r.i + (Len(items) + j)
      BY <1>4, <2>1
    <3> QED BY <2>1, <3>1
  <2> HIDE DEF rest, every
  <2>4. \A j \in 1 .. Len(items) : items[j] = every[j]
    BY <1>2 DEF every
  <2>5. /\ items \o rest \in Seq(Item) /\ Len(items \o rest) = Len(items) + Len(rest)
        /\ \A j \in 1 .. Len(items) + Len(rest) :
             (items \o rest)[j] = IF j <= Len(items) THEN items[j] ELSE rest[j - Len(items)]
    <3>1. rest \in Seq(Item)
      BY <2>1 DEF rest
    <3> QED BY <1>2, <3>1, ConcatProperties
  <2>6. ASSUME NEW j \in 1 .. Len(items) + Len(rest) PROVE (items \o rest)[j] = every[j]
    <3>1. CASE j <= Len(items)
      BY <1>4, <2>4, <2>5, <3>1
    <3>2. CASE ~ (j <= Len(items))
      <4>1. j - Len(items) \in 1 .. Len(rest) /\ Len(items) + (j - Len(items)) = j
        BY <1>4, <2>3, <3>2
      <4>2. rest[j - Len(items)] = r.s[r.i + j]
        BY <2>3, <4>1
      <4>3. (items \o rest)[j] = rest[j - Len(items)]
        BY <2>5, <3>2
      <4> QED BY <2>2, <4>2, <4>3
    <3> QED BY <3>1, <3>2
  <2>7. items \o rest = every
    BY <2>2, <2>5, <2>6, SeqEqual
  <2> QED BY <2>7 DEF rest, every
<1> QED BY <1>2, <1>3, <1>4, <1>5, <1>7 DEF Src!Outcome

-----------------------------------------------------------------------------
(* The reader's own calls.                                                 *)

ReaderType == [s : Seq(Item), i : Int]

(* A call on r that left o, and did not step below the beginning.          *)
Sound(r, o) ==
  o.reader \in ReaderType /\ (r.i >= 0 => o.reader.i >= 0 /\ o.err # "panic")

LEMMA OutcomeSound ==
  ASSUME NEW r \in ReaderType, NEW q \in ReaderType, r.i >= 0 => q.i >= 0,
         NEW n, NEW items, NEW err, err # "panic"
  PROVE  Sound(r, Src!Outcome(q, n, items, err))
BY DEF Sound, Src!Outcome

LEMMA PanicSound ==
  ASSUME NEW r \in ReaderType, r.i < 0 PROVE Sound(r, Src!Panic(r))
BY DEF Sound, Src!Panic, Src!Outcome, ReaderType

LEMMA AtType ==
  ASSUME NEW r \in ReaderType, NEW i \in Int
  PROVE  Src!At(r, i) \in ReaderType /\ Src!At(r, i).i = i
BY DEF Src!At, ReaderType

LEMMA NotPanic ==
  /\ "nil" # "panic" /\ "EOF" # "panic" /\ "whence" # "panic" /\ "fault" # "panic"
  /\ "negative offset" # "panic" /\ "at beginning" # "panic"
  /\ "negative position" # "panic" /\ "negative count" # "panic" /\ "short write" # "panic"
BY Zenon

LEMMA SourceReadSound ==
  ASSUME NEW r \in ReaderType, NEW k \in Nat PROVE Sound(r, Src!SourceRead(r, k))
<1>1. CASE Src!AtEnd(r)
  BY <1>1, OutcomeSound, NotPanic DEF Src!SourceRead
<1>2. CASE ~ Src!AtEnd(r) /\ r.i < 0
  BY <1>2, PanicSound DEF Src!SourceRead
<1>3. CASE ~ Src!AtEnd(r) /\ ~ (r.i < 0)
  <2>1. r.i >= 0
    BY <1>3 DEF ReaderType
  <2> QED BY <1>3, <2>1, SourceReadRest DEF Sound, ReaderType
<1> QED BY <1>1, <1>2, <1>3

LEMMA SourceReadAtSound ==
  ASSUME NEW r \in ReaderType, NEW k, NEW off PROVE Sound(r, Src!SourceReadAt(r, k, off))
<1>1. \A n, items, err : err # "panic" => Sound(r, Src!Outcome(r, n, items, err))
  BY OutcomeSound
<1> QED BY <1>1, NotPanic, Zenon DEF Src!SourceReadAt

LEMMA SourceItemSound ==
  ASSUME NEW r \in ReaderType
  PROVE  Sound(r, Src!SourceReadItem(r)) /\ Sound(r, Src!SourceUnreadItem(r))
<1>1. \A n, items, err : err # "panic" => Sound(r, Src!Outcome(r, n, items, err))
  BY OutcomeSound
<1>2. r.i \in Int /\ r.i + 1 \in Int /\ r.i - 1 \in Int
      /\ (r.i >= 0 => r.i + 1 >= 0) /\ (~ (r.i <= 0) => r.i - 1 >= 0)
  BY DEF ReaderType
<1>3. \A n, items, err : err # "panic" =>
        /\ Sound(r, Src!Outcome(Src!At(r, r.i + 1), n, items, err))
        /\ ~ (r.i <= 0) => Sound(r, Src!Outcome(Src!At(r, r.i - 1), n, items, err))
  BY <1>2, AtType, OutcomeSound
<1>4. Sound(r, Src!SourceReadItem(r))
  BY <1>1, <1>3, PanicSound, NotPanic DEF Src!SourceReadItem
<1>5. Sound(r, Src!SourceUnreadItem(r))
  BY <1>1, <1>3, NotPanic, Zenon DEF Src!SourceUnreadItem
<1> QED BY <1>4, <1>5

LEMMA SourceSeekSound ==
  ASSUME NEW r \in ReaderType, NEW offset \in Int, NEW whence
  PROVE  Sound(r, Src!SourceSeek(r, offset, whence))
<1> DEFINE abs == offset + CASE whence = "start" -> 0 [] whence = "current" -> r.i
                             [] whence = "end" -> Len(r.s) [] OTHER -> 0
<1>1. abs \in Int
  BY DEF ReaderType
<1> HIDE DEF abs
<1>2. \A n, items, err : err # "panic" => Sound(r, Src!Outcome(r, n, items, err))
  BY OutcomeSound
<1>3. \A n, items, err : err # "panic" /\ ~ (abs < 0) =>
        Sound(r, Src!Outcome(Src!At(r, abs), n, items, err))
  BY <1>1, AtType, OutcomeSound
<1>4. Sound(r, IF whence = "bad" THEN Src!Outcome(r, 0, <<>>, "whence")
               ELSE IF abs < 0 THEN Src!Outcome(r, 0, <<>>, "negative position")
               ELSE Src!Outcome(Src!At(r, abs), abs, <<>>, "nil"))
  BY <1>2, <1>3, NotPanic, Zenon
<1> QED BY <1>4, Zenon DEF Src!SourceSeek, abs

LEMMA SourceWriteToSound ==
  ASSUME NEW r \in ReaderType, NEW m \in Int, NEW err \in {"nil", "fault"}
  PROVE  LET o == Src!SourceWriteTo(r, m, err)
         IN  /\ o.reader \in ReaderType /\ (r.i >= 0 => o.err # "panic")
             /\ r.i >= 0 /\ m >= 0 => o.reader.i >= 0
<1> DEFINE Fine(o) == /\ o.reader \in ReaderType /\ (r.i >= 0 => o.err # "panic")
                      /\ r.i >= 0 /\ m >= 0 => o.reader.i >= 0
           took == Len(Src!Rest(r))
           last(e) == IF m # took /\ e = "nil" THEN "short write" ELSE e
<1>1. \A o : Sound(r, o) => Fine(o)
  BY DEF Sound
<1>2. \A n, items, e : e # "panic" => Sound(r, Src!Outcome(r, n, items, e))
  BY OutcomeSound
<1>3. r.i + m \in Int /\ r.i \in Int
  BY DEF ReaderType
<1>4. \A n, items, e : e # "panic" => Fine(Src!Outcome(Src!At(r, r.i + m), n, items, e))
  <2>1. Src!At(r, r.i + m) \in ReaderType /\ Src!At(r, r.i + m).i = r.i + m
    BY <1>3, AtType
  <2>2. r.i >= 0 /\ m >= 0 => r.i + m >= 0
    BY <1>3
  <2> QED BY <2>1, <2>2 DEF Src!Outcome
<1>5. err # "panic"
  BY NotPanic
<1> HIDE DEF Fine, took
<1>6. last(err) # "panic"
  BY <1>5, NotPanic, Zenon
<1> HIDE DEF last
<1>7. Fine(IF Src!AtEnd(r) THEN Src!Outcome(r, 0, <<>>, "nil")
           ELSE IF r.i < 0 THEN Src!Panic(r)
           ELSE IF m > took THEN Src!Outcome(r, 0, <<>>, "negative count")
           ELSE Src!Outcome(Src!At(r, r.i + m), m, SubSeq(Src!Rest(r), 1, m), last(err)))
  BY <1>1, <1>2, <1>4, <1>6, PanicSound, NotPanic, Zenon
<1>8. Fine(Src!SourceWriteTo(r, m, err))
  BY <1>7, Zenon DEF Src!SourceWriteTo, took, last
<1> QED BY <1>8 DEF Fine

(* What BelowOnlyBy says of a step.                                        *)
BelowStep ==
  /\ reader'.i < 0 /\ reader.i >= 0 => got'.op = "WriteTo" /\ got'.arg < 0
  /\ got'.err = "panic" /\ got' # got => reader.i < 0

LEMMA ReaderStep ==
  ASSUME SourceTyped, Src!Next PROVE SourceTyped' /\ BelowStep
<1>0. reader \in ReaderType
  BY DEF SourceTyped, ReaderType
<1>1. ASSUME NEW op, NEW arg, NEW o, Src!Do(op, arg, o), Sound(reader, o)
      PROVE  SourceTyped' /\ BelowStep
  <2>1. reader' = o.reader /\ got'.err = o.err
    BY <1>1 DEF Src!Do
  <2>2. o.reader.i \in Int /\ reader.i \in Int
    BY <1>0, <1>1 DEF Sound, ReaderType
  <2> QED BY <1>0, <1>1, <2>1, <2>2 DEF Sound, SourceTyped, ReaderType, BelowStep
<1>2. ASSUME NEW k \in Room, Src!Do("Read", k, Src!SourceRead(reader, k))
      PROVE  SourceTyped' /\ BelowStep
  <2>1. k \in Nat
    BY SourceAssumption DEF Src!SliceReaderAssumption
  <2> QED BY <1>0, <1>1, <1>2, <2>1, SourceReadSound
<1>3. ASSUME NEW k \in Room, NEW off \in Step,
             Src!Do("ReadAt", k, Src!SourceReadAt(reader, k, off))
      PROVE  SourceTyped' /\ BelowStep
  BY <1>0, <1>1, <1>3, SourceReadAtSound
<1>4. CASE \/ Src!Do("ReadItem", 0, Src!SourceReadItem(reader))
           \/ Src!Do("UnreadItem", 0, Src!SourceUnreadItem(reader))
  BY <1>0, <1>1, <1>4, SourceItemSound
<1>5. ASSUME NEW offset \in Step, NEW whence,
             Src!Do("Seek", offset, Src!SourceSeek(reader, offset, whence))
      PROVE  SourceTyped' /\ BelowStep
  <2>1. offset \in Int
    BY SourceAssumption DEF Src!SliceReaderAssumption
  <2> QED BY <1>0, <1>1, <1>5, <2>1, SourceSeekSound
<1>6. ASSUME NEW m \in -1 .. Src!LenOf(reader) + 1, NEW err \in {"nil", "fault"},
             Src!Do("WriteTo", m, Src!SourceWriteTo(reader, m, err))
      PROVE  SourceTyped' /\ BelowStep
  <2> DEFINE o == Src!SourceWriteTo(reader, m, err)
  <2>1. m \in Int
    BY <1>0 DEF Src!LenOf, ReaderType
  <2>2. /\ o.reader \in ReaderType /\ (reader.i >= 0 => o.err # "panic")
        /\ reader.i >= 0 /\ m >= 0 => o.reader.i >= 0
    BY <1>0, <2>1, SourceWriteToSound
  <2>3. reader' = o.reader /\ got'.err = o.err /\ got'.op = "WriteTo" /\ got'.arg = m
    BY <1>6 DEF Src!Do
  <2> HIDE DEF o
  <2>4. o.reader.i \in Int /\ reader.i \in Int
    BY <1>0, <2>2 DEF ReaderType
  <2> QED BY <2>1, <2>2, <2>3, <2>4 DEF SourceTyped, ReaderType, BelowStep
<1>7. ASSUME NEW s \in Source,
             Src!Do("Reset", 0, Src!Outcome(Src!NewReader(s), 0, <<>>, "nil"))
      PROVE  SourceTyped' /\ BelowStep
  <2>1. Src!NewReader(s) \in ReaderType /\ Src!NewReader(s).i >= 0
    BY SourceAssumption DEF Src!NewReader, ReaderType
  <2> QED BY <1>0, <1>1, <1>7, <2>1, OutcomeSound, NotPanic
<1> QED BY <1>2, <1>3, <1>4, <1>5, <1>6, <1>7 DEF Src!Next

-----------------------------------------------------------------------------
(* Every step of the pipeline.                                             *)

(* Between calls the filter's ring is settled, and the buffer written.     *)
LEMMA Still ==
  ASSUME IInv, stream = Buf!NoStream
  PROVE  fn.busy = FALSE /\ Settled = ring /\ Due = sink /\ stream.op = "none"
<1>1. stream.op = "none"
  BY SameStream
<1>2. fn.busy = FALSE
  BY <1>1 DEF IInv, Typed, Calls, FnType, WriteOps
<1> QED BY <1>1, <1>2 DEF Settled, Due

LEMMA StillAfter ==
  ASSUME stream' = Buf!NoStream, fn'.busy = FALSE
  PROVE  Settled' = ring' /\ Due' = sink' /\ Owed'
<1>1. stream'.op = "none"
  BY SameStream
<1> QED BY <1>1 DEF Settled, Due, Owed

(* The filter reads.                                                       *)
LEMMA ReadingAlike ==
  ASSUME IInv, Reading
  PROVE  /\ stream = Buf!NoStream /\ stream' = Buf!NoStream /\ fn'.busy = FALSE
         /\ Alike(ring', ring)
<1>0. ring \in Ring
  BY DEF IInv, Typed
<1>1. ASSUME NEW call, NEW o, Buf!Do(call, o), Unfed, Alike(o.ring, ring)
      PROVE  /\ stream = Buf!NoStream /\ stream' = Buf!NoStream /\ fn'.busy = FALSE
             /\ Alike(ring', ring)
  BY <1>1, UnfedType DEF Buf!Do
<1>2. ASSUME NEW k, Read(k) \/ NextItems(k)
      PROVE  \E call, o : Buf!Do(call, o) /\ Unfed /\ Alike(o.ring, ring)
  BY <1>0, <1>2, ReadAlike, SameReads DEF Read, NextItems, Buf!Read, Buf!NextItems
<1>3. CASE ReadItem
  BY <1>0, <1>1, <1>3, ReadAlike, SameReads DEF ReadItem, Buf!ReadItem
<1>4. ASSUME NEW d, ReadItems(d)
      PROVE  \E call, o : Buf!Do(call, o) /\ Unfed /\ Alike(o.ring, ring)
  BY <1>0, <1>4, ReadAlike, SameReads DEF ReadItems, Buf!ReadItems
<1>5. CASE Value
  BY <1>0, <1>1, <1>5, ReadAlike, SameReads DEF Value, Buf!Value
<1>6. ASSUME NEW o, NEW w, Seek(o, w)
      PROVE  \E call, out : Buf!Do(call, out) /\ Unfed /\ Alike(out.ring, ring)
  BY <1>0, <1>6, ReadAlike, SameReads DEF Seek, Buf!Seek
<1> QED BY <1>1, <1>2, <1>3, <1>4, <1>5, <1>6 DEF Reading

LEMMA ReadFilterInv == ASSUME PInv, ReadFilter PROVE PInv'
<1>1. IInv /\ Alike(Due, Settled) /\ Reading /\ sink' = sink /\ reader' = reader
  BY DEF PInv, ReadFilter, source
<1>2. IInv'
  BY <1>1, ReadingInv
<1>3. /\ stream = Buf!NoStream /\ stream' = Buf!NoStream /\ fn'.busy = FALSE
      /\ Alike(ring', ring)
  BY <1>1, ReadingAlike
<1>4. Alike(Due', Settled')
  BY <1>1, <1>3, Still, StillAfter DEF Alike
<1> QED BY <1>1, <1>2, <1>3, <1>4, StillAfter DEF PInv, SourceTyped

LEMMA ReadSinkInv ==
  ASSUME PInv, NEW k \in Count, k >= 0, ReadSink(k) PROVE PInv'
<1>1. /\ sink \in Ring /\ k \in Nat /\ stream = Buf!NoStream /\ sink' = RingRead(sink, k).ring
      /\ ring' = ring /\ result' = result /\ stream' = stream /\ fn' = fn /\ reader' = reader
  BY FilterAssumption DEF PInv, ReadSink, filter, source
<1>2. IInv'
  BY <1>1 DEF PInv, IInv, Typed, Calls, TailHeld
<1>3. sink' \in Ring /\ Alike(sink', sink)
  BY <1>1, RingReadType, ReadAlike DEF OutcomeType
<1>4. Alike(Due', Settled')
  BY <1>1, <1>3, Still, StillAfter DEF PInv, Alike
<1> QED BY <1>1, <1>2, <1>3, <1>4, Still, StillAfter DEF PInv, SourceTyped

LEMMA MoveReaderInv == ASSUME PInv, MoveReader PROVE PInv' /\ BelowStep
<1>1. /\ Src!Next /\ stream = Buf!NoStream /\ SourceTyped
      /\ ring' = ring /\ result' = result /\ stream' = stream /\ fn' = fn /\ sink' = sink
  BY DEF PInv, MoveReader, filter
<1>2. IInv'
  BY <1>1 DEF PInv, IInv, Typed, Calls, TailHeld
<1>3. SourceTyped' /\ BelowStep
  BY <1>1, ReaderStep
<1>4. Alike(Due', Settled')
  BY <1>1, Still, StillAfter DEF PInv, Alike
<1> QED BY <1>1, <1>2, <1>3, <1>4, Still, StillAfter DEF PInv

(* The items are in the filter's ring, and on their way to the buffer's.   *)
LEMMA WriteFilterInv == ASSUME PInv, WriteFilter PROVE PInv'
<1>1. /\ IInv /\ sink \in Ring /\ ring \in Ring /\ Alike(Due, Settled)
      /\ sink' = sink /\ reader' = reader /\ SourceTyped
  BY DEF PInv, WriteFilter, source, IInv, Typed
<1>2. IInv'
  BY <1>1, WritingInv DEF WriteFilter, Writing
<1>3. ASSUME NEW p \in Seq(Item), stream = Buf!NoStream,
             fn' = [busy |-> TRUE, slice |-> p, fed |-> p],
             stream'.op \in WriteOps, Alike(Settled', RingWrite(ring, p).ring)
      PROVE  PInv'
  <2>1. Due' = RingWrite(sink, p).ring
    BY <1>1, <1>3 DEF Due
  <2>2. Alike(sink, ring)
    BY <1>1, <1>3, Still
  <2>3. Alike(RingWrite(sink, p).ring, RingWrite(ring, p).ring)
    BY <1>1, <2>2, WriteAlike
  <2>4. Alike(Due', Settled')
    BY <1>3, <2>1, <2>3 DEF Alike
  <2>5. Owed'
    BY <1>3 DEF Owed, WriteOps
  <2> QED BY <1>1, <1>2, <2>4, <2>5 DEF PInv, SourceTyped
<1>4. ASSUME NEW p \in Input, Write(p) PROVE PInv'
  <2>1. /\ p \in Seq(Item) /\ stream = Buf!NoStream
        /\ fn' = [busy |-> TRUE, slice |-> p, fed |-> p]
        /\ stream'.op = "Write" /\ stream'.moved = p
        /\ ring' = IF Len(p) < N THEN Store(ring, p) ELSE StoreWhole(ring, p)
    BY <1>4, FilterAssumption DEF Write, Buf!NoStream
  <2>2. ring'.write = ring.write
    BY <1>1, <2>1 DEF Store, StoreWhole, Ring
  <2>3. fn'.busy = TRUE
    BY <2>1
  <2>4. Settled' = IF Len(p) < N THEN Settle(ring', ring'.write + Len(p)) ELSE ring'
    BY <2>1, <2>3 DEF Settled
  <2>5. Settled' = RingWrite(ring, p).ring
    BY <2>1, <2>2, <2>4 DEF RingWrite, Outcome
  <2> QED BY <1>3, <2>1, <2>5 DEF Alike, WriteOps
<1>5. ASSUME NEW x \in Item, WriteItem(x) PROVE PInv'
  <2>1. /\ <<x>> \in Seq(Item) /\ stream = Buf!NoStream
        /\ fn' = [busy |-> TRUE, slice |-> <<x>>, fed |-> <<x>>]
        /\ stream'.op = "WriteItem" /\ ring' = RingWriteItem(ring, x).ring
    BY <1>5 DEF WriteItem, Buf!NoStream
  <2>2. Settled' = ring'
    BY <2>1 DEF Settled
  <2>3. Alike(Settled', RingWrite(ring, <<x>>).ring)
    BY <1>1, <2>1, <2>2, WriteItemAlike
  <2> QED BY <1>3, <2>1, <2>3 DEF WriteOps
<1> QED BY <1>4, <1>5 DEF WriteFilter

LEMMA PumpInv == ASSUME PInv, Pump PROVE PInv'
<1>1. /\ IInv /\ sink \in Ring /\ SourceTyped /\ Alike(Due, Settled) /\ reader.i >= 0
      /\ ReadFrom(Src!LenOf(reader)) /\ whole' = Src!Rest(reader)
      /\ sink' = sink /\ reader' = reader
  BY DEF PInv, Pump, source
<1>2. /\ stream = Buf!NoStream /\ fn' = IdleFn /\ ring' = ring
      /\ stream'.op = "ReadFrom" /\ stream'.n = 0
  BY <1>1 DEF ReadFrom, Buf!ReadFrom, Buf!Begin, Buf!NoStream, Unfed
<1>3. Src!Rest(reader) \in Seq(Item) /\ Src!LenOf(reader) \in Nat
  BY <1>1, RestType DEF SourceTyped
<1>4. IInv'
  BY <1>1, <1>3, BeginInv DEF ReadFrom, Buf!ReadFrom
<1>5. fn'.busy = FALSE /\ fn'.fed = <<>>
  BY <1>2 DEF IdleFn
<1>6. Settled' = ring /\ Due' = sink
  BY <1>1, <1>2, <1>5 DEF Settled, Due
<1>7. Alike(Due', Settled')
  BY <1>1, <1>2, <1>6, Still
<1>8. <<>> \o Src!Rest(reader) = Src!Rest(reader) /\ Len(<<>>) = 0
  BY <1>3, ConcatEmptySeq
<1>9. Src!Rest(reader)' = Src!Rest(reader)
  BY <1>1 DEF Src!Rest
<1>10. Owed'
  BY <1>1, <1>2, <1>5, <1>8, <1>9 DEF Owed
<1> QED BY <1>1, <1>4, <1>7, <1>10 DEF PInv, SourceTyped

LEMMA FedOn ==
  \A s, t, u \in Seq(Item) : (s \o t) \o u = s \o (t \o u)
BY ConcatAssociative

(* What a turn of ReadFrom's loop finds and does.                          *)
LEMMA TurnFacts ==
  ASSUME PInv, PumpTurn
  PROVE  LET o == Src!SourceRead(reader, N - ring.write)
         IN  /\ IInv /\ ring \in Ring /\ stream.op = "ReadFrom" /\ fn.busy = FALSE
             /\ Owed /\ reader \in [s : Seq(Item), i : Int] /\ reader.i >= 0
             /\ ReadFromTurn(o.items, o.err) /\ reader' = o.reader
             /\ o.items \in Seq(Item) /\ Len(o.items) <= N - ring.write
             /\ Src!AtEnd(reader) => o.err = "EOF" /\ o.items = <<>> /\ o.reader = reader
             /\ ~ Src!AtEnd(reader) =>
                  /\ o.err = "nil" /\ o.reader \in [s : Seq(Item), i : Int] /\ o.reader.i >= 0
                  /\ o.items \o Src!Rest(o.reader) = Src!Rest(reader)
<1> DEFINE k == N - ring.write
           o == Src!SourceRead(reader, k)
<1>1. IInv /\ ring \in Ring /\ Owed /\ reader \in [s : Seq(Item), i : Int]
  BY DEF PInv, IInv, Typed, SourceTyped
<1>2. ReadFromTurn(o.items, o.err) /\ reader' = o.reader
  BY DEF PumpTurn
<1>3. stream.op = "ReadFrom" /\ fn.busy = FALSE
  BY <1>1, <1>2 DEF ReadFromTurn, IInv, Typed, FnType
<1>4. reader.i >= 0
  BY <1>1, <1>3 DEF Owed
<1>5. k \in Nat /\ 0 <= k
  BY <1>1, RingFields, RingAssumption
<1> HIDE DEF k
<1>6. CASE Src!AtEnd(reader)
  <2>1. o = Src!Outcome(reader, 0, <<>>, "EOF")
    BY <1>6 DEF Src!SourceRead
  <2>2. o.items = <<>> /\ o.err = "EOF" /\ o.reader = reader
    BY <2>1 DEF Src!Outcome
  <2>3. o.items \in Seq(Item) /\ Len(o.items) <= k
    BY <1>5, <2>2
  <2> QED BY <1>1, <1>2, <1>3, <1>4, <1>6, <2>2, <2>3 DEF k
<1>7. CASE ~ Src!AtEnd(reader)
  <2>1. /\ o.reader \in [s : Seq(Item), i : Int] /\ o.reader.i >= 0
        /\ o.items \in Seq(Item) /\ Len(o.items) <= k /\ o.err = "nil"
        /\ o.items \o Src!Rest(o.reader) = Src!Rest(reader)
    BY <1>1, <1>4, <1>5, <1>7, SourceReadRest
  <2> QED BY <1>1, <1>2, <1>3, <1>4, <1>7, <2>1 DEF k
<1> QED BY <1>6, <1>7

LEMMA PumpTurnInv == ASSUME PInv, PumpTurn PROVE PInv'
<1> DEFINE o == Src!SourceRead(reader, N - ring.write)
           p == o.items
<1>1. /\ IInv /\ ring \in Ring /\ stream.op = "ReadFrom" /\ fn.busy = FALSE
      /\ Owed /\ reader \in [s : Seq(Item), i : Int] /\ reader.i >= 0
      /\ ReadFromTurn(p, o.err) /\ reader' = o.reader
      /\ p \in Seq(Item) /\ Len(p) <= N - ring.write
      /\ Src!AtEnd(reader) => o.err = "EOF" /\ p = <<>> /\ o.reader = reader
      /\ ~ Src!AtEnd(reader) =>
           /\ o.err = "nil" /\ o.reader \in [s : Seq(Item), i : Int] /\ o.reader.i >= 0
           /\ p \o Src!Rest(o.reader) = Src!Rest(reader)
  BY TurnFacts
<1>2. sink' = sink /\ whole' = whole /\ sink \in Ring /\ Alike(Due, Settled)
  BY DEF PumpTurn, PInv
<1> HIDE DEF o
<1>3. IInv'
  <2>1. p \in Buf!Chunk
    <3>1. Len(p) \in 0 .. N /\ p \in [1 .. Len(p) -> Item]
      BY <1>1, RingFields, RingAssumption
    <3> QED BY <3>1 DEF Buf!Chunk
  <2>2. o.err \in Buf!ReadErr
    BY <1>1 DEF Buf!ReadErr
  <2> QED BY <1>1, <2>1, <2>2, StreamingInv DEF Streaming
<1>4. Alike(sink, ring)
  BY <1>1, <1>2 DEF Due, Settled
<1>5. SourceTyped'
  BY <1>1 DEF SourceTyped
<1>6. CASE Src!AtEnd(reader)
  <2>1. o.err # "nil" /\ Len(p) = 0
    BY <1>1, <1>6
  <2>2. stream' = Buf!NoStream /\ fn' = fn /\ ring' = Receive(ring, p)
    BY <1>1, <2>1 DEF ReadFromTurn, Return, Buf!Finish
  <2>3. Alike(ring', ring)
    BY <1>1, <2>1, <2>2, ReceiveNone
  <2>4. Alike(Due', Settled') /\ Owed'
    BY <1>1, <1>2, <1>4, <2>2, <2>3, StillAfter DEF Alike
  <2> QED BY <1>2, <1>3, <1>5, <2>4 DEF PInv
<1>7. CASE ~ Src!AtEnd(reader)
  <2>1. /\ ring' = Fill(Receive(ring, p), Len(p))
        /\ stream' = [stream EXCEPT !.n = @ + Len(p), !.left = @ - Len(p), !.moved = @ \o p]
        /\ fn' = [busy |-> TRUE, slice |-> p, fed |-> fn.fed \o p]
    BY <1>1, <1>7 DEF ReadFromTurn, Feed
  <2>2. stream'.op = "ReadFrom" /\ stream'.n = stream.n + Len(p)
    BY <1>1, <2>1 DEF IInv, Typed, StreamType
  <2>3. fn'.busy = TRUE /\ fn'.slice = p /\ fn'.fed = fn.fed \o p
    BY <2>1
  <2>4. Due' = RingWrite(sink, p).ring
    BY <1>2, <2>3 DEF Due
  <2>5. Settled' = Advance(Fill(Receive(ring, p), Len(p)), Len(p))
    BY <2>1, <2>2, <2>3 DEF Settled
  <2>6. Alike(Due', Settled')
    BY <1>1, <1>2, <1>4, <2>4, <2>5, WriteAlike, ReceiveAlike DEF Alike
  <2>7. fn.fed \in Seq(Item) /\ stream.n \in Nat
    BY <1>1 DEF IInv, Typed, FnType, StreamType
  <2>8. (fn.fed \o p) \o Src!Rest(o.reader) = whole
    <3> DEFINE rest == Src!Rest(o.reader)
    <3>1. rest \in Seq(Item)
      BY <1>1, <1>7, RestType
    <3>2. p \o rest = Src!Rest(reader) /\ fn.fed \o Src!Rest(reader) = whole
      BY <1>1, <1>7 DEF Owed
    <3> HIDE DEF rest, p
    <3>3. p \in Seq(Item) /\ fn.fed \in Seq(Item)
      BY <1>1, <2>7
    <3>4. (fn.fed \o p) \o rest = fn.fed \o (p \o rest)
      BY <3>1, <3>3, FedOn
    <3> QED BY <3>2, <3>4 DEF rest, p
  <2>9. stream'.n = Len(fn'.fed)
    <3>1. stream.n = Len(fn.fed) /\ Len(fn.fed \o p) = Len(fn.fed) + Len(p)
      BY <1>1, <2>7, ConcatProperties DEF Owed
    <3> QED BY <2>2, <2>3, <3>1
  <2>10. Src!Rest(reader)' = Src!Rest(o.reader) /\ reader'.i >= 0
    BY <1>1, <1>7 DEF Src!Rest
  <2>11. Owed'
    BY <1>2, <2>2, <2>3, <2>8, <2>9, <2>10 DEF Owed
  <2> QED BY <1>2, <1>3, <1>5, <2>6, <2>11 DEF PInv
<1> QED BY <1>6, <1>7

(* The buffer catches up, and the filter's indices with it.                *)
LEMMA FnRunsInv == ASSUME PInv, FnRuns PROVE PInv'
<1>1. /\ IInv /\ fn.busy /\ sink \in Ring /\ SourceTyped /\ Alike(Due, Settled) /\ Owed
      /\ sink' = Due /\ reader' = reader /\ whole' = whole
  BY DEF PInv, FnRuns, FnWrites, Due, source
<1>2. IInv'
  <2>1. "nil" \in FnErr
    BY DEF FnErr
  <2> QED BY <1>1, <2>1, WritingInv, StreamingInv DEF FnRuns, Writing, Streaming
<1>3. /\ fn'.busy = FALSE /\ fn'.fed = fn.fed
  BY <1>1 DEF FnRuns, WriteReturns, WriteItemReturns, ReadFromGoesOn, Fed, IInv, Typed, FnType
<1>4. ring' = Settled
  BY <1>1 DEF FnRuns, WriteReturns, WriteItemReturns, ReadFromGoesOn, Settled
<1>5. Settled' = ring' /\ Due' = sink'
  BY <1>3 DEF Settled, Due
<1>6. sink' \in Ring
  <2>1. fn.slice \in Seq(Item)
    BY <1>1 DEF IInv, Typed, FnType
  <2> QED BY <1>1, <2>1, RingWriteType DEF Due, OutcomeType
<1>7. Owed'
  <2>1. CASE ReadFromGoesOn
    <3>1. stream' = stream
      BY <2>1 DEF ReadFromGoesOn
    <3> QED BY <1>1, <1>3, <3>1 DEF Owed, Src!Rest
  <2>2. CASE ~ ReadFromGoesOn
    <3>1. stream' = Buf!NoStream
      BY <2>2 DEF FnRuns, WriteReturns, WriteItemReturns, Return, Buf!Finish
    <3> QED BY <3>1, SameStream DEF Owed
  <2> QED BY <2>1, <2>2
<1> QED BY <1>1, <1>2, <1>4, <1>5, <1>6, <1>7 DEF PInv, SourceTyped

LEMMA PipelineInv == ASSUME PInv, [PipelineNext]_all PROVE PInv'
<1>1. CASE UNCHANGED all
  BY <1>1 DEF all, filter, source, PInv, IInv, Typed, Calls, TailHeld, SourceTyped, Alike,
              Due, Settled, Owed, Src!Rest
<1> QED BY <1>1, ReadFilterInv, ReadSinkInv, MoveReaderInv, WriteFilterInv, PumpInv,
           PumpTurnInv, FnRunsInv DEF PipelineNext

LEMMA PipelineStarts == ASSUME PipelineInit PROVE PInv
<1>1. IInv /\ stream = Buf!NoStream /\ ring = NewRing /\ sink = NewRing
  BY InitInv, SameNewRing DEF PipelineInit, Init, Buf!Init
<1>2. SourceTyped
  BY SourceAssumption DEF PipelineInit, Src!Init, Src!NewReader, SourceTyped
<1>3. Owed
  BY <1>1, SameStream DEF Owed
<1>4. Alike(Due, Settled)
  BY <1>1, Still DEF Alike
<1> QED BY <1>1, <1>2, <1>3, <1>4, NewRingType DEF PInv

(* A buffer that the process function writes to mirrors the filter's ring, *)
(* for every length, every slice and every reader: what Write makes of a   *)
(* slice depends on nothing in which the two differ, and WriteItem and     *)
(* ReadFrom leave what Write of the same slice would.                      *)
THEOREM Mirroring == PipelineSpec => []Mirrored
<1>1. PInv => Mirrored
  <2>1. ASSUME PInv, ~ fn.busy PROVE sink.items = ring.items /\ sink.write = ring.write
    BY <2>1 DEF PInv, Alike, Due, Settled
  <2> QED BY <2>1 DEF Mirrored
<1> QED BY <1>1, PipelineInv, PipelineStarts, PTL DEF PipelineSpec

(* What DrainsAll says of a step.                                          *)
DrainStep ==
  stream.op = "ReadFrom" /\ stream' = Buf!NoStream =>
    /\ result'.err = "nil" /\ result'.n = Len(whole) /\ fn.fed = whole
    /\ Src!AtEnd(reader')

LEMMA EndsDrained == ASSUME PInv, [PipelineNext]_all PROVE DrainStep
<1>1. SUFFICES ASSUME stream.op = "ReadFrom", stream' = Buf!NoStream
               PROVE  /\ result'.err = "nil" /\ result'.n = Len(whole) /\ fn.fed = whole
                      /\ Src!AtEnd(reader')
  BY DEF DrainStep
<1>2. stream # Buf!NoStream /\ stream' # stream /\ IInv
  BY <1>1, SameStream DEF PInv
<1>3. PumpTurn
  <2>1. ~ ReadFilter
    BY <1>2, ReadingAlike DEF ReadFilter
  <2>2. ~ FnRuns
    BY <1>1, <1>2 DEF FnRuns, WriteReturns, WriteItemReturns, ReadFromGoesOn
  <2> QED BY <1>2, <2>1, <2>2 DEF PipelineNext, MoveReader, ReadSink, WriteFilter, Write,
          WriteItem, Pump, ReadFrom, Buf!ReadFrom, Buf!Begin, all, filter
<1> DEFINE o == Src!SourceRead(reader, N - ring.write)
<1>4. /\ Owed /\ reader \in [s : Seq(Item), i : Int] /\ reader.i >= 0
      /\ ReadFromTurn(o.items, o.err) /\ reader' = o.reader
      /\ Src!AtEnd(reader) => o.err = "EOF" /\ o.items = <<>> /\ o.reader = reader
      /\ ~ Src!AtEnd(reader) => o.err = "nil"
  BY <1>3, TurnFacts
<1> HIDE DEF o
<1>5. o.err # "nil"
  <2>1. SUFFICES ASSUME o.err = "nil" PROVE FALSE
    OBVIOUS
  <2>2. stream'.op = "ReadFrom"
    BY <1>1, <1>2, <1>4, <2>1 DEF ReadFromTurn, IInv, Typed, StreamType
  <2> QED BY <1>1, <2>2, SameStream
<1>6. Src!AtEnd(reader) /\ o.err = "EOF" /\ reader' = reader
  BY <1>4, <1>5
<1>7. result'.err = "nil" /\ result'.n = stream.n
  <2>1. Return("ReadFrom", stream.n, "EOF")
    BY <1>4, <1>5, <1>6 DEF ReadFromTurn
  <2>2. [Buf!Called("ReadFrom") EXCEPT !.given = stream.moved] \in CallType
    BY <1>2, CallTypes DEF IInv, Typed, StreamType, Buf!Op
  <2> QED BY <2>1, <2>2 DEF Return, Buf!Finish, CallType
<1>8. Src!Rest(reader) = <<>>
  BY <1>4, <1>6, RestType
<1>9. fn.fed = whole /\ stream.n = Len(whole)
  <2>1. fn.fed \in Seq(Item)
    BY <1>2 DEF IInv, Typed, FnType
  <2> QED BY <1>1, <1>4, <1>8, <2>1, ConcatEmptySeq DEF Owed
<1>10. Src!AtEnd(reader')
  BY <1>6
<1> QED BY <1>7, <1>9, <1>10

(* A ReadFrom from a gbuf.Reader counts and feeds all there was to read,   *)
(* once and in order, for every reader, ring and process function that     *)
(* writes to a buffer, and leaves the reader at its end.                   *)
THEOREM Draining == PipelineSpec => DrainsAll
<1>1. PInv /\ [PipelineNext]_all => DrainStep
  BY EndsDrained
<1> QED BY <1>1, PipelineInv, PipelineStarts, PTL DEF PipelineSpec, DrainsAll, DrainStep

LEMMA StaysSound ==
  ASSUME PInv, [PipelineNext]_all PROVE [BelowStep]_(<<reader, got>>)
<1>1. CASE PumpTurn
  <2>1. got' = got /\ reader.i >= 0
    BY <1>1, TurnFacts DEF PumpTurn
  <2>2. reader'.i \in Int /\ reader'.i >= 0
    BY <1>1, TurnFacts
  <2>3. ~ (reader'.i < 0)
    BY <2>2
  <2> QED BY <2>1, <2>3 DEF BelowStep
<1>2. CASE MoveReader
  BY <1>2, MoveReaderInv
<1>3. CASE ~ PumpTurn /\ ~ MoveReader
  <2>1. reader' = reader /\ got' = got
    BY <1>3 DEF PipelineNext, ReadFilter, ReadSink, WriteFilter, Pump, FnRuns, all, source
  <2> QED BY <2>1
<1> QED BY <1>1, <1>2, <1>3

(* No call but WriteTo with a negative count brings the reader's index     *)
(* below 0, and no call panics before one has: also when it is the filter  *)
(* that reads.                                                             *)
THEOREM StaysInSlice == PipelineSpec => BelowOnlyBy
<1>1. PInv /\ [PipelineNext]_all => [BelowStep]_(<<reader, got>>)
  BY StaysSound
<1> QED BY <1>1, PipelineInv, PipelineStarts, PTL
        DEF PipelineSpec, BelowOnlyBy, Src!BelowOnlyBy, BelowStep

=============================================================================
