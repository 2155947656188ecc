-------------------------- MODULE RingBuffer_proofs ---------------------------
(***************************************************************************)
(* Theorems about RingBuffer, for every ring size, every set of items and  *)
(* every caller the constants describe; then about one whose caller keeps  *)
(* to RingBufferContract.                                                  *)
(***************************************************************************)
EXTENDS RingBufferContract, RingOps_proofs, SequenceTheorems

CallType == [op : Op, given : Seq(Item), arg : Int, delim : SUBSET Item,
             n : Int, items : Seq(Item), err : CallErr \cup {"fault", "negative"}]

StreamType == [op : {"none", "ReadFrom", "WriteToTail", "WriteToHead"},
               n : Nat, left : Nat, moved : Seq(Item)]

(* The calls the actions make are well typed.                              *)
LEMMA CallTypes ==
  /\ NoResult \in CallType
  /\ NoStream \in StreamType
  /\ \A op \in Op : Called(op) \in CallType
  /\ \A op \in Op, k \in Int : With(op, k) \in CallType
  /\ \A op \in Op, p \in Seq(Item) : [Called(op) EXCEPT !.given = p] \in CallType
  /\ \A op \in Op, d \in SUBSET Item : [Called(op) EXCEPT !.delim = d] \in CallType
<1>1. NoResult \in CallType
  BY DEF NoResult, CallType, Op, CallErr
<1>2. NoStream \in StreamType
  BY DEF NoStream, StreamType
<1>3. \A op \in Op : Called(op) \in CallType
  BY <1>1 DEF Called, CallType
<1>4. \A op \in Op, k \in Int : With(op, k) \in CallType
  BY <1>1 DEF With, CallType
<1>5. ASSUME NEW op \in Op, NEW p \in Seq(Item)
      PROVE  [Called(op) EXCEPT !.given = p] \in CallType
  <2>1. Called(op) \in CallType
    BY <1>3
  <2> QED BY <2>1, SMTT(30) DEF CallType
<1>6. ASSUME NEW op \in Op, NEW d \in SUBSET Item
      PROVE  [Called(op) EXCEPT !.delim = d] \in CallType
  <2>1. Called(op) \in CallType
    BY <1>3
  <2> QED BY <2>1, SMTT(30) DEF CallType
<1> QED BY <1>1, <1>2, <1>3, <1>4, <1>5, <1>6

LEMMA ReturnType ==
  ASSUME NEW call \in CallType, NEW n \in Int, NEW items \in Seq(Item), NEW err \in CallErr
  PROVE  [call EXCEPT !.n = n, !.items = items, !.err = err] \in CallType
BY DEF CallType

(* A method that runs on the ring alone keeps the types of its outcome.    *)
LEMMA DoType ==
  ASSUME NEW call \in CallType, NEW o \in OutcomeType, TypeOK, Do(call, o)
  PROVE  TypeOK'
BY DEF TypeOK, Do, CallType, OutcomeType

LEMMA FinishType ==
  ASSUME NEW call \in CallType, NEW n \in Int, NEW items \in Seq(Item),
         NEW err \in CallErr \cup {"EOF", "fault", "negative"},
         Finish(call, n, items, err), ring' \in Ring
  PROVE  TypeOK'
<1>1. result' \in CallType
  BY DEF Finish, CallType, CallErr
<1>2. stream' \in StreamType
  BY CallTypes DEF Finish
<1> QED BY <1>1, <1>2 DEF TypeOK, CallType, StreamType

StreamErr == {"EOF", "nil", "fault", "negative", "panic"}

LEMMA ReadFromReturnsType ==
  ASSUME TypeOK, NEW err \in StreamErr, ReadFromReturns(err), ring' \in Ring
  PROVE  TypeOK'
<1> DEFINE call == [Called("ReadFrom") EXCEPT !.given = stream.moved]
<1>1. call \in CallType
  BY CallTypes DEF TypeOK, Op
<1>2. stream.n \in Int /\ <<>> \in Seq(Item)
  BY DEF TypeOK
<1>3. Finish(call, stream.n, <<>>, err)
  BY DEF ReadFromReturns
<1>4. err \in CallErr \cup {"EOF", "fault", "negative"}
  BY DEF StreamErr, CallErr
<1> HIDE DEF call
<1> QED BY <1>1, <1>2, <1>3, <1>4, FinishType

LEMMA WriteToReturnsType ==
  ASSUME NEW n \in Int, NEW moved \in Seq(Item), NEW err \in StreamErr,
         WriteToReturns(n, moved, err), ring' \in Ring
  PROVE  TypeOK'
<1>1. Called("WriteTo") \in CallType
  BY CallTypes DEF Op
<1>2. err \in CallErr \cup {"EOF", "fault", "negative"}
  BY DEF StreamErr, CallErr
<1> QED BY <1>1, <1>2, FinishType DEF WriteToReturns

LEMMA ChunkType == \A chunk \in Chunk : chunk \in Seq(Item)
BY RingAssumption DEF Chunk

LEMMA BeginType ==
  ASSUME TypeOK, NEW op \in {"ReadFrom", "WriteToTail", "WriteToHead"},
         NEW length \in Nat, Begin(op, length)
  PROVE  TypeOK'
<1>1. result' \in CallType
  BY CallTypes DEF Begin
<1>2. stream' \in StreamType
  BY CallTypes DEF Begin, StreamType
<1> QED BY <1>1, <1>2 DEF TypeOK, Begin, CallType, StreamType

(* While WriteTo is sending the tail, there is a tail: nothing moves the    *)
(* indices between the switch and the writer's return.                     *)
TailHeld == stream.op = "WriteToTail" => ring.read >= ring.write

IInv == TypeOK /\ TailHeld

LEMMA NextTail ==
  ASSUME IInv, [Next]_vars
  PROVE  TailHeld'
<1> USE DEF TailHeld
<1>1. ASSUME NEW call, NEW o, Do(call, o) PROVE TailHeld'
  BY <1>1 DEF Do, NoStream
<1>2. ASSUME NEW call, NEW n, NEW items, NEW err, Finish(call, n, items, err)
      PROVE  TailHeld'
  BY <1>2 DEF Finish, NoStream
<1>3. ASSUME NEW length, ReadFrom(length) PROVE TailHeld'
  BY <1>3 DEF ReadFrom, Begin, NoStream
<1>4. CASE WriteTo
  BY <1>4 DEF WriteTo, Begin, NoStream
<1>5. ASSUME NEW chunk, NEW err, ReadFromTurn(chunk, err) PROVE TailHeld'
  BY <1>2, <1>5 DEF ReadFromTurn, ReadFromReturns, IInv, TypeOK
<1>6. ASSUME NEW num, NEW err, WriteToTail(num, err) PROVE TailHeld'
  BY <1>2, <1>6 DEF WriteToTail, WriteToReturns, IInv, TypeOK
<1>7. CASE UNCHANGED vars
  BY <1>7 DEF vars, IInv
<1> QED BY <1>1, <1>2, <1>3, <1>4, <1>5, <1>6, <1>7
     DEF Next, Write, WriteItem, Read, ReadItem, ReadItems, NextItems, Value, UnreadItem,
         Seek, Truncate, Reset, ReadFromNegative, ReadFromReturns, WriteToHead,
         WriteToPanics, WriteToNegative, WriteToReturns

(* Every call, whoever makes it, keeps the fields in their ranges.         *)
LEMMA NextType ==
  ASSUME TypeOK, TailHeld, [Next]_vars
  PROVE  TypeOK'
<1> USE DEF Op
<1>0. ring \in Ring
  BY DEF TypeOK
<1>1. ASSUME NEW p \in Input, Write(p) PROVE TypeOK'
  <2>1. p \in Seq(Item)
    BY CallAssumption
  <2> QED BY <1>0, <1>1, <2>1, CallTypes, RingWriteType, DoType DEF Write
<1>2. ASSUME NEW x \in Item, WriteItem(x) PROVE TypeOK'
  <2>1. [Called("WriteItem") EXCEPT !.given = <<x>>] \in CallType
    <3>1. <<x>> \in Seq(Item)
      OBVIOUS
    <3> QED BY <3>1, CallTypes
  <2> QED BY <1>0, <1>2, <2>1, RingWriteItemType, DoType DEF WriteItem
<1>3. ASSUME NEW k \in Count, Read(k) PROVE TypeOK'
  <2>1. k \in Nat
    BY <1>3, CallAssumption DEF Read
  <2> QED BY <1>0, <1>3, <2>1, CallTypes, RingReadType, DoType DEF Read
<1>4. ASSUME NEW k \in Count, NextItems(k) PROVE TypeOK'
  BY <1>0, <1>4, CallAssumption, CallTypes, RingNextType, DoType DEF NextItems
<1>5. ASSUME NEW k \in Count, Truncate(k) PROVE TypeOK'
  BY <1>0, <1>5, CallAssumption, CallTypes, RingTruncateType, DoType DEF Truncate
<1>6. CASE ReadItem
  BY <1>0, <1>6, CallTypes, RingReadItemType, DoType DEF ReadItem
<1>7. ASSUME NEW delim \in Delim, ReadItems(delim) PROVE TypeOK'
  <2>1. [Called("ReadItems") EXCEPT !.delim = delim] \in CallType
    BY CallAssumption, CallTypes
  <2> QED BY <1>0, <1>7, <2>1, RingReadItemsType, DoType DEF ReadItems
<1>8. CASE Value
  BY <1>0, <1>8, CallTypes, RingValueType, DoType DEF Value
<1>9. CASE UnreadItem
  BY <1>0, <1>9, CallTypes, RingUnreadItemType, DoType DEF UnreadItem
<1>10. ASSUME NEW offset \in Offset, NEW whence, Seek(offset, whence) PROVE TypeOK'
  BY <1>0, <1>10, CallAssumption, CallTypes, RingSeekType, DoType DEF Seek
<1>11. CASE Reset
  <2>1. Outcome(RingReset(ring), 0, <<>>, "nil") \in OutcomeType
    BY <1>0, RingResetType DEF Outcome, OutcomeType, CallErr
  <2> QED BY <1>11, <2>1, CallTypes, DoType DEF Reset
<1>12. ASSUME NEW length \in Length, ReadFrom(length) PROVE TypeOK'
  BY <1>12, CallAssumption, BeginType DEF ReadFrom
<1>13. ASSUME NEW chunk \in Chunk, NEW err \in ReadErr, ReadFromTurn(chunk, err)
       PROVE  TypeOK'
  <2>1. chunk \in Seq(Item) /\ Len(chunk) \in Nat
    BY ChunkType
  <2>2. /\ Receive(ring, chunk) \in Ring
        /\ Fill(Receive(ring, chunk), Len(chunk)) \in Ring
    BY <1>0, <2>1, ReceiveType
  <2>3. CASE err = "nil"
    <3>1. ring' \in Ring
      BY <1>13, <2>1, <2>2, <2>3, AdvanceType DEF ReadFromTurn
    <3>2. stream' \in StreamType
      <4>1. stream.n + Len(chunk) \in Nat /\ stream.left - Len(chunk) \in Nat
        BY <1>13, <2>1 DEF ReadFromTurn, TypeOK
      <4>2. stream.moved \o chunk \in Seq(Item)
        BY <2>1 DEF TypeOK
      <4> QED BY <1>13, <2>3, <4>1, <4>2 DEF ReadFromTurn, TypeOK, StreamType
    <3> QED BY <1>13, <2>3, <3>1, <3>2 DEF ReadFromTurn, TypeOK, StreamType
  <2>4. CASE err # "nil"
    <3>1. ring' \in Ring /\ ReadFromReturns(err)
      BY <1>13, <2>2, <2>4 DEF ReadFromTurn
    <3>2. err \in StreamErr
      BY DEF ReadErr, StreamErr
    <3> QED BY <3>1, <3>2, ReadFromReturnsType
  <2> QED BY <2>3, <2>4
<1>14. CASE ReadFromNegative
  BY <1>0, <1>14, ReadFromReturnsType DEF ReadFromNegative, StreamErr
<1>15. CASE WriteTo
  BY <1>15, BeginType DEF WriteTo
<1>16. ASSUME NEW num \in 0 .. N, NEW err \in ReadErr, WriteToTail(num, err)
       PROVE  TypeOK'
  <2> DEFINE moved == Slice(ring.items, ring.read, ring.read + num)
  <2>1. moved \in Seq(Item)
    <3>1. Legal(ring.read, ring.read + num) /\ ring.read + num \in Int
      BY <1>0, <1>16, RingFields, RingAssumption DEF WriteToTail, Legal, TailHeld
    <3> QED BY <1>0, <3>1, SliceType, RingFields
  <2>2. ring' \in Ring
    BY <1>0, <1>16, SentType, RingAssumption DEF WriteToTail
  <2> HIDE DEF moved
  <2>3. CASE err = "nil"
    <3>1. stream' = [stream EXCEPT !.op = "WriteToHead", !.n = num, !.moved = moved]
      BY <1>16, <2>3 DEF WriteToTail, moved
    <3>2. stream' \in StreamType
      <4>1. num \in Nat
        BY RingAssumption
      <4>2. stream \in StreamType
        BY DEF TypeOK, StreamType
      <4> QED BY <2>1, <3>1, <4>1, <4>2 DEF StreamType
    <3> QED BY <1>16, <2>2, <2>3, <3>2 DEF WriteToTail, TypeOK, StreamType
  <2>4. CASE err # "nil"
    <3>1. WriteToReturns(num, moved, err)
      BY <1>16, <2>4 DEF WriteToTail, moved
    <3> QED BY <2>1, <2>2, <3>1, WriteToReturnsType, RingAssumption DEF ReadErr, StreamErr
  <2> QED BY <2>3, <2>4
<1>17. ASSUME NEW num \in 0 .. N, NEW err \in ReadErr, WriteToHead(num, err)
       PROVE  TypeOK'
  <2> DEFINE tail == Slice(ring.items, ring.read, ring.read + num)
  <2>1. tail \in Seq(Item)
    <3>1. Legal(ring.read, ring.read + num) /\ ring.read + num \in Int
      BY <1>0, <1>17, RingFields, RingAssumption DEF WriteToHead, Legal
    <3> QED BY <1>0, <3>1, SliceType, RingFields
  <2>2. ring' \in Ring
    BY <1>0, <1>17, SentType, RingAssumption DEF WriteToHead
  <2> HIDE DEF tail
  <2>3. stream.moved \o tail \in Seq(Item) /\ stream.n + num \in Int
    BY <2>1, RingAssumption DEF TypeOK
  <2>4. WriteToReturns(stream.n + num, stream.moved \o tail, err)
    BY <1>17 DEF WriteToHead, tail
  <2>5. err \in StreamErr
    BY DEF ReadErr, StreamErr
  <2> QED BY <2>2, <2>3, <2>4, <2>5, WriteToReturnsType
<1>18. CASE WriteToPanics
  <2>1. Called("WriteTo") \in CallType /\ <<>> \in Seq(Item)
    BY CallTypes
  <2>2. result' = [Called("WriteTo") EXCEPT !.n = 0, !.items = <<>>, !.err = "panic"]
    BY <1>18 DEF WriteToPanics, WriteToReturns, Finish
  <2>3. result' \in CallType
    <3>1. \A n \in Int, items \in Seq(Item), err \in CallErr :
            [Called("WriteTo") EXCEPT !.n = n, !.items = items, !.err = err] \in CallType
      BY <2>1, ReturnType
    <3>2. 0 \in Int /\ "panic" \in CallErr
      BY DEF CallErr
    <3> QED BY <2>1, <2>2, <3>1, <3>2
  <2>4. stream' \in StreamType
    BY <1>18, CallTypes DEF WriteToPanics, WriteToReturns, Finish
  <2> QED BY <1>0, <1>18, <2>3, <2>4 DEF WriteToPanics, TypeOK, CallType, StreamType
<1>19. CASE WriteToNegative
  <2>1. stream.n \in Int /\ stream.moved \in Seq(Item) /\ "negative" \in StreamErr
    BY DEF TypeOK, StreamErr
  <2> QED BY <1>0, <1>19, <2>1, WriteToReturnsType DEF WriteToNegative
<1>20. CASE UNCHANGED vars
  BY <1>20 DEF TypeOK, vars
<1> QED BY <1>1, <1>2, <1>3, <1>4, <1>5, <1>6, <1>7, <1>8, <1>9, <1>10, <1>11, <1>12,
           <1>13, <1>14, <1>15, <1>16, <1>17, <1>18, <1>19, <1>20 DEF Next

LEMMA InitType == ASSUME Init PROVE TypeOK
BY NewRingType, CallTypes DEF Init, TypeOK, CallType, StreamType

(* Type correctness of RingBuffer: whatever any caller does, write indexes *)
(* a slot, read is at worst a remainder of the wrong sign, and a stream    *)
(* never moves more than the other end had.                                *)
THEOREM TypeCorrect == Spec => []TypeOK
<1>1. Init => IInv
  BY InitType DEF Init, NoStream, IInv, TailHeld
<1>2. IInv /\ [Next]_vars => IInv'
  BY NextType, NextTail DEF IInv
<1>3. IInv => TypeOK
  BY DEF IInv
<1> QED BY <1>1, <1>2, <1>3, PTL DEF Spec

-----------------------------------------------------------------------------
(* Where a call can panic.                                                 *)

(* The methods that never panic, and the index that makes the others do.   *)
LEMMA CallPanics ==
  ASSUME NEW r \in Ring
  PROVE  /\ \A p \in Seq(Item) : RingWrite(r, p).err # "panic"
         /\ \A x \in Item : RingWriteItem(r, x).err # "panic"
         /\ \A delim : RingReadItems(r, delim).err # "panic"
         /\ RingUnreadItem(r).err # "panic"
         /\ \A offset, whence : RingSeek(r, offset, whence).err # "panic"
         /\ \A k \in Nat : RingRead(r, k).err = "panic" => r.read < 0
         /\ RingReadItem(r).err = "panic" => r.read < 0
         /\ RingValue(r).err = "panic" => r.read < 0
         /\ \A n \in Int : RingTruncate(r, n).err = "panic" =>
              r.read < 0 \/ r.read + n > N
<1> USE DEF Outcome, Panic
<1>1. \A p \in Seq(Item) : RingWrite(r, p).err # "panic"
  BY DEF RingWrite
<1>2. \A x \in Item : RingWriteItem(r, x).err # "panic"
  BY DEF RingWriteItem
<1>3. \A delim : RingReadItems(r, delim).err # "panic"
  BY DEF RingReadItems
<1>4. RingUnreadItem(r).err # "panic"
  BY DEF RingUnreadItem
<1>5. \A offset, whence : RingSeek(r, offset, whence).err # "panic"
  BY DEF RingSeek
<1>6. ~ Legal(r.read, r.write) /\ ~ (r.read >= r.write) => r.read < 0
  BY RingFields, RingAssumption DEF Legal
<1>7. \A k \in Nat : RingRead(r, k).err = "panic" => r.read < 0
  BY <1>6 DEF RingRead
<1>8. RingReadItem(r).err = "panic" => r.read < 0
  BY RingFields DEF RingReadItem
<1>9. RingValue(r).err = "panic" => r.read < 0
  BY <1>6 DEF RingValue
<1>10. ASSUME NEW n \in Int, RingTruncate(r, n).err = "panic"
       PROVE  r.read < 0 \/ r.read + n > N
  BY <1>10, RingFields, RingAssumption, RingLenType DEF RingTruncate, RingClear, Legal
<1> QED BY <1>1, <1>2, <1>3, <1>4, <1>5, <1>7, <1>8, <1>9, <1>10

(* Next reads, or returns what Value returns.                              *)
LEMMA NextPanics ==
  ASSUME NEW r \in Ring, NEW n \in Int, RingNext(r, n).err = "panic"
  PROVE  r.read < 0
<1>1. CASE n <= 0
  BY <1>1 DEF RingNext, Outcome
<1>2. CASE n > 0 /\ n > RingLen(r)
  BY <1>2, CallPanics DEF RingNext
<1>3. CASE n > 0 /\ ~ (n > RingLen(r))
  <2> DEFINE o == RingRead(r, n)
  <2>1. o \in OutcomeType
    BY <1>3, RingReadType
  <2>2. o.err = "panic" => r.read < 0
    BY <1>3, CallPanics
  <2>3. RingNext(r, n).err = o.err
    <3> HIDE DEF o
    <3> QED BY <1>3, <2>1 DEF RingNext, OutcomeType, o
  <2> QED BY <2>2, <2>3
<1> QED BY <1>1, <1>2, <1>3, RingLenType

(* What a step that ends in a panic has found.                             *)
PanicStep ==
  result'.err = "panic" /\ result' # result =>
    \/ ring.read < 0
    \/ result'.op = "Truncate" /\ ring.read + result'.arg > N
    \/ stream.op = "WriteToHead" /\ ring.read \in ring.write + 1 .. N - 1

LEMMA NextPanicStep ==
  ASSUME TypeOK, Next
  PROVE  PanicStep
<1>0. ring \in Ring
  BY DEF TypeOK
<1>a. ASSUME NEW call \in CallType, NEW o, Do(call, o), o.err # "panic" PROVE PanicStep
  BY <1>a DEF Do, PanicStep, CallType
<1>b. ASSUME NEW call \in CallType, NEW o, Do(call, o), o.err = "panic" => ring.read < 0
      PROVE  PanicStep
  BY <1>b DEF Do, PanicStep, CallType
<1>c. ASSUME NEW call \in CallType, NEW n, NEW items, NEW err,
             Finish(call, n, items, err), err # "panic"
      PROVE  PanicStep
  BY <1>c DEF Finish, PanicStep, CallType
<1> USE CallTypes DEF Op
<1>1. ASSUME NEW p \in Input, Write(p) PROVE PanicStep
  <2>1. p \in Seq(Item)
    BY CallAssumption
  <2> QED BY <1>0, <1>1, <1>a, <2>1, CallPanics DEF Write
<1>2. ASSUME NEW x \in Item, WriteItem(x) PROVE PanicStep
  <2>1. <<x>> \in Seq(Item)
    OBVIOUS
  <2>2. [Called("WriteItem") EXCEPT !.given = <<x>>] \in CallType
    BY <2>1
  <2> QED BY <1>0, <1>2, <1>a, <2>2, CallPanics DEF WriteItem
<1>3. ASSUME NEW k \in Count, Read(k) PROVE PanicStep
  BY <1>0, <1>3, <1>b, CallPanics, CallAssumption DEF Read
<1>4. ASSUME NEW k \in Count, NextItems(k) PROVE PanicStep
  BY <1>0, <1>4, <1>b, NextPanics, CallAssumption DEF NextItems
<1>5. ASSUME NEW k \in Count, Truncate(k) PROVE PanicStep
  <2>1. k \in Int
    BY CallAssumption
  <2>2. /\ result'.err = RingTruncate(ring, k).err
        /\ result'.op = "Truncate" /\ result'.arg = k
    BY <1>5 DEF Truncate, Do, With, NoResult
  <2> QED BY <1>0, <2>1, <2>2, CallPanics DEF PanicStep
<1>6. CASE ReadItem
  BY <1>0, <1>6, <1>b, CallPanics DEF ReadItem
<1>7. ASSUME NEW delim \in Delim, ReadItems(delim) PROVE PanicStep
  <2>1. [Called("ReadItems") EXCEPT !.delim = delim] \in CallType
    BY CallAssumption
  <2> QED BY <1>0, <1>7, <1>a, <2>1, CallPanics DEF ReadItems
<1>8. CASE Value
  BY <1>0, <1>8, <1>b, CallPanics DEF Value
<1>9. CASE UnreadItem
  BY <1>0, <1>9, <1>a, CallPanics DEF UnreadItem
<1>10. ASSUME NEW offset \in Offset, NEW whence, Seek(offset, whence) PROVE PanicStep
  BY <1>0, <1>10, <1>a, CallPanics, CallAssumption DEF Seek
<1>11. CASE Reset
  BY <1>0, <1>11, <1>a DEF Reset, Outcome
<1>12. CASE (\E length \in Length : ReadFrom(length)) \/ WriteTo
  <2>1. result' = NoResult
    BY <1>12 DEF ReadFrom, WriteTo, Begin
  <2>2. NoResult.err # "panic"
    BY DEF NoResult
  <2> QED BY <2>1, <2>2 DEF PanicStep
<1>13. ASSUME NEW chunk \in Chunk, NEW err \in ReadErr, ReadFromTurn(chunk, err)
       PROVE  PanicStep
  <2>1. [Called("ReadFrom") EXCEPT !.given = stream.moved] \in CallType
    BY DEF TypeOK
  <2> QED BY <1>13, <1>c, <2>1 DEF ReadFromTurn, ReadFromReturns, ReadErr, PanicStep
<1>14. CASE ReadFromNegative
  <2>1. [Called("ReadFrom") EXCEPT !.given = stream.moved] \in CallType
    BY DEF TypeOK
  <2> QED BY <1>14, <1>c, <2>1 DEF ReadFromNegative, ReadFromReturns
<1>15. ASSUME NEW num \in 0 .. N, NEW err \in ReadErr,
              WriteToTail(num, err) \/ WriteToHead(num, err)
       PROVE  PanicStep
  BY <1>15, <1>c DEF WriteToTail, WriteToHead, WriteToReturns, ReadErr, PanicStep
<1>16. CASE WriteToPanics
  BY <1>0, <1>16, RingFields, RingAssumption DEF WriteToPanics, Legal, PanicStep
<1>17. CASE WriteToNegative
  BY <1>17, <1>c DEF WriteToNegative, WriteToReturns
<1> QED BY <1>1, <1>2, <1>3, <1>4, <1>5, <1>6, <1>7, <1>8, <1>9, <1>10, <1>11, <1>12,
           <1>13, <1>14, <1>15, <1>16, <1>17 DEF Next

(* A method panics only on a negative read index, on a Truncate across the *)
(* end of the slice, or after a writer that took less of the tail than it  *)
(* was handed; every other index of ringbuffer.go is in bounds.            *)
THEOREM PanicsOnlyWhen == Spec => PanicOnlyWhen
<1>1. TypeOK /\ [Next]_vars => [PanicStep]_vars
  BY NextPanicStep
<1> QED BY <1>1, TypeCorrect, PTL DEF Spec, PanicOnlyWhen, PanicStep

-----------------------------------------------------------------------------
(* A caller that keeps to the contract is a caller.                        *)
LEMMA KeepingIsNext == KeepingNext => Next
BY DEF KeepingNext, Next

THEOREM KeepingRefinesAny == KeepingSpec => Spec
BY KeepingIsNext, PTL DEF KeepingSpec, Spec

-----------------------------------------------------------------------------
(* The parts of a ring, and of an outcome, that Consistent speaks of.      *)

Sane(r) == r.read >= 0 /\ (r.full => r.read = r.write)

(* Len without the modulo.                                                 *)
LEMMA LenOfSane ==
  ASSUME NEW r \in Ring, Sane(r)
  PROVE  RingLen(r) = IF r.full THEN N
                      ELSE IF r.read <= r.write THEN r.write - r.read
                      ELSE N - r.read + r.write
<1>0. r.read \in Slot /\ r.write \in Slot /\ r.read \in Int /\ r.write \in Int
  BY RingFields DEF Sane
<1>1. CASE ~ r.full /\ r.read <= r.write
  <2>1. N + (r.write - r.read) \in N .. 2 * N - 1
    BY <1>0, <1>1, RingAssumption DEF Slot
  <2> QED BY <1>0, <1>1, <2>1, ModOnce, RingAssumption DEF RingLen
<1>2. CASE ~ r.full /\ ~ (r.read <= r.write)
  <2>1. N + (r.write - r.read) \in Slot
    BY <1>0, <1>2, RingAssumption DEF Slot
  <2> QED BY <1>0, <1>2, <2>1, ModOnce, RingAssumption DEF RingLen
<1>3. CASE r.full
  BY <1>3 DEF RingLen
<1> QED BY <1>1, <1>2, <1>3

(* What is left in the slots when items have been taken: the last one is   *)
(* in the slot before the read index, unless that is slot 0.               *)
Taken(o) ==
  o.items # <<>> /\ o.ring.read > 0 /\ ~ o.ring.full =>
    o.ring.items[o.ring.read - 1] = o.items[Len(o.items)]

(* The i-th unread item of a wrapped ring.                                 *)
LEMMA WrappedAt ==
  ASSUME NEW r \in Ring, r.read >= r.write, NEW i \in 1 .. Len(Wrapped(r))
  PROVE  Wrapped(r)[i] = r.items[IF r.read + i - 1 < N THEN r.read + i - 1
                                 ELSE r.read + i - 1 - N]
<1> DEFINE tail == Slice(r.items, r.read, N)
           head == Slice(r.items, 0, r.write)
<1>0. /\ r.items \in [Slot -> Item] /\ r.read \in Int /\ r.write \in Int
      /\ 0 <= r.write /\ r.read < N /\ N \in Int
  BY RingFields, RingAssumption
<1>1. Legal(r.read, N) /\ Legal(0, r.write)
  BY <1>0 DEF Legal
<1>2. /\ tail \in Seq(Item) /\ Len(tail) = N - r.read
      /\ \A j \in 1 .. N - r.read : tail[j] = r.items[r.read + j - 1]
  BY <1>0, <1>1, SliceType
<1>3. /\ head \in Seq(Item) /\ Len(head) = r.write
      /\ \A j \in 1 .. r.write : head[j] = r.items[j - 1]
  <2>1. \A from \in Int : Legal(from, r.write) =>
          LET s == Slice(r.items, from, r.write)
          IN  /\ s \in Seq(Item) /\ Len(s) = r.write - from
              /\ \A j \in 1 .. r.write - from : s[j] = r.items[from + j - 1]
    BY <1>0, SliceType
  <2> QED BY <1>0, <1>1, <2>1
<1> HIDE DEF tail, head
<1>4. Wrapped(r) = tail \o head
  BY DEF Wrapped, tail, head
<1>5. CASE i <= N - r.read
  BY <1>0, <1>2, <1>3, <1>4, <1>5, SMTT(30)
<1>6. CASE i > N - r.read
  <2>1. i - (N - r.read) \in 1 .. r.write
    BY <1>0, <1>2, <1>3, <1>4, <1>6
  <2>2. Wrapped(r)[i] = head[i - (N - r.read)]
    BY <1>0, <1>2, <1>3, <1>4, <1>6
  <2>3. head[i - (N - r.read)] = r.items[i - (N - r.read) - 1]
    BY <1>3, <2>1
  <2>4. i \in Int /\ ~ (r.read + i - 1 < N)
        /\ i - (N - r.read) - 1 = r.read + i - 1 - N
    BY <1>0, <1>6
  <2> QED BY <2>2, <2>3, <2>4
<1> QED BY <1>0, <1>5, <1>6

-----------------------------------------------------------------------------
(* What each method leaves when it finds the ring sane and its caller keeps *)
(* to the contract.                                                         *)

LEMMA WriteSane ==
  ASSUME NEW r \in Ring, Sane(r), NEW p \in Seq(Item)
  PROVE  Sane(RingWrite(r, p).ring)
<1>0. r.write \in Nat /\ r.read \in Int /\ Len(p) \in Nat /\ r.full \in BOOLEAN
  BY RingFields
<1>1. CASE Len(p) < N
  <2> DEFINE end == r.write + Len(p)
             s == Store(r, p)
  <2>1. s \in Ring /\ s.full = r.full /\ s.read = r.read /\ s.write = r.write
    BY <1>1, StoreType DEF Store, Ring
  <2>2. end \in Nat /\ end % N >= 0
    <3>1. end \in Nat
      BY <1>0
    <3> HIDE DEF end
    <3>2. end % N \in Slot
      BY <3>1, ModInSlot
    <3> QED BY <3>1, <3>2, RingAssumption DEF Slot
  <2> HIDE DEF s, end
  <2>3. Sane(Settle(s, end))
    <3>1. CASE end < N
      BY <2>1, <2>2, <3>1, <1>0 DEF Settle, SettleWithinBounds, Sane, Ring
    <3>2. CASE ~ (end < N)
      BY <2>1, <2>2, <3>2, <1>0 DEF Settle, SettleWrapped, Sane, Ring
    <3> QED BY <3>1, <3>2
  <2> QED BY <1>1, <2>3 DEF RingWrite, Outcome, s, end
<1>2. CASE ~ (Len(p) < N)
  <2>1. RingWrite(r, p).ring = StoreWhole(r, p)
    BY <1>2 DEF RingWrite, Outcome
  <2>2. StoreWhole(r, p).read = r.write
    BY DEF StoreWhole, Ring
  <2>3. StoreWhole(r, p).write = r.write
    BY DEF StoreWhole, Ring
  <2> QED BY <1>0, <2>1, <2>2, <2>3 DEF Sane
<1> QED BY <1>1, <1>2

LEMMA WriteItemSane ==
  ASSUME NEW r \in Ring, Sane(r), NEW x \in Item
  PROVE  Sane(RingWriteItem(r, x).ring)
<1>1. (r.write + 1) % N >= 0
  <2>1. (r.write + 1) % N \in Slot
    BY RingFields, ModInSlot
  <2> QED BY <2>1, RingAssumption DEF Slot
<1> QED BY <1>1, RingFields DEF RingWriteItem, Outcome, Sane

LEMMA ReadSane ==
  ASSUME NEW r \in Ring, Sane(r), NEW k \in Nat
  PROVE  Sane(RingRead(r, k).ring) /\ Taken(RingRead(r, k))
<1>0. /\ r.items \in [Slot -> Item] /\ r.write \in Nat /\ r.read \in Nat
      /\ r.read < N /\ N \in Nat /\ r.full \in BOOLEAN
  BY RingFields, RingAssumption DEF Sane
<1>1. CASE k = 0 \/ RingLen(r) = 0
  BY <1>1 DEF RingRead, Outcome, Sane, Taken
<1>2. CASE ~ (k = 0 \/ RingLen(r) = 0) /\ r.read >= r.write
  <2> DEFINE got == Prefix(Wrapped(r), k)
             o == Outcome([r EXCEPT !.full = FALSE, !.read = (r.read + Len(got)) % N],
                          Len(got), got, "nil")
  <2>1. /\ Len(got) \in Nat /\ Len(got) <= N - r.read + r.write
        /\ Len(got) <= Len(Wrapped(r))
        /\ \A i \in 1 .. Len(got) : got[i] = Wrapped(r)[i]
    BY <1>0, <1>2, WrappedType, PrefixType
  <2>2. (r.read + Len(got)) % N >= 0
    BY <1>0, <2>1, ModInSlot DEF Slot
  <2>3. RingRead(r, k) = o
    BY <1>2 DEF RingRead
  <2> HIDE DEF got
  <2>4. /\ o.ring.full = FALSE /\ o.ring.read = (r.read + Len(got)) % N
        /\ o.ring.items = r.items /\ o.items = got
    BY DEF Outcome, Ring
  <2> HIDE DEF o
  <2>5. Sane(o.ring)
    BY <2>2, <2>4 DEF Sane
  <2>6. ASSUME got # <<>>, o.ring.read > 0
        PROVE  r.items[o.ring.read - 1] = got[Len(got)]
    <3>1. Len(got) \in 1 .. Len(Wrapped(r)) /\ Len(got) \in 1 .. Len(got)
      <4>1. got \in Seq(Item)
        BY <1>2, WrappedType, PrefixType DEF got
      <4>2. Len(Wrapped(r)) \in Nat
        BY <1>2, WrappedType
      <4> QED BY <2>1, <2>6, <4>1, <4>2
    <3>2. got[Len(got)] = r.items[IF r.read + Len(got) - 1 < N THEN r.read + Len(got) - 1
                                  ELSE r.read + Len(got) - 1 - N]
      <4>1. got[Len(got)] = Wrapped(r)[Len(got)]
        BY <2>1, <3>1
      <4> QED BY <1>2, <3>1, <4>1, WrappedAt
    <3>3. CASE r.read + Len(got) < N
      <4>1. o.ring.read = r.read + Len(got)
        BY <1>0, <2>1, <2>4, <3>3, ModOnce, SMTT(30) DEF Slot
      <4> QED BY <1>0, <2>1, <3>2, <3>3, <4>1
    <3>4. CASE r.read + Len(got) >= N
      <4>1. r.read + Len(got) \in N .. 2 * N - 1
        BY <1>0, <2>1, <3>4, RingFields
      <4>2. o.ring.read = r.read + Len(got) - N
        <5>1. (r.read + Len(got)) % N = r.read + Len(got) - N
        BY <1>0, <2>1, <4>1, ModOnce
      <5> QED BY <2>4, <5>1
      <4>3. r.read + Len(got) # N
        <5>1. r.read \in Nat /\ Len(got) \in Nat /\ N \in Nat
          BY <1>0, <2>1
        <5>2. o.ring.read > 0
          BY <2>6
        <5> QED BY <4>2, <5>1, <5>2
      <4>4. o.ring.read - 1 = r.read + Len(got) - 1 - N /\ ~ (r.read + Len(got) - 1 < N)
        BY <1>0, <4>1, <4>2, <4>3
      <4> QED BY <3>2, <4>4
    <3> QED BY <1>0, <2>1, <3>3, <3>4
  <2>7. Taken(o)
    BY <2>4, <2>6 DEF Taken
  <2> QED BY <2>3, <2>5, <2>7
<1>3. CASE ~ (k = 0 \/ RingLen(r) = 0) /\ ~ (r.read >= r.write)
  <2>1. Legal(r.read, r.write)
    BY <1>0, <1>3, RingFields DEF Legal
  <2> DEFINE all == Slice(r.items, r.read, r.write)
             got == Prefix(all, k)
             o == Outcome([r EXCEPT !.read = r.read + Len(got)], Len(got), got, "nil")
  <2>2. /\ all \in Seq(Item) /\ Len(all) = r.write - r.read
        /\ \A i \in 1 .. r.write - r.read : all[i] = r.items[r.read + i - 1]
    <3>1. r.read \in Int /\ r.write \in Int
      BY <1>0
    <3> QED BY <1>0, <2>1, <3>1, SliceType
  <2>3. RingRead(r, k) = o
    BY <1>3, <2>1 DEF RingRead
  <2> HIDE DEF all
  <2>4. /\ got \in Seq(Item) /\ Len(got) \in Nat /\ Len(got) <= r.write - r.read
        /\ \A i \in 1 .. Len(got) : got[i] = all[i]
    <3>1. /\ got \in Seq(Item) /\ Len(got) = IF k < Len(all) THEN k ELSE Len(all)
          /\ \A i \in 1 .. Len(got) : got[i] = all[i]
      BY <2>2, PrefixType
    <3> HIDE DEF got
    <3> QED BY <1>0, <1>3, <2>2, <3>1
  <2> HIDE DEF got
  <2>5. /\ o.ring.full = r.full /\ o.ring.read = r.read + Len(got)
        /\ o.ring.items = r.items /\ o.items = got
    BY DEF Outcome, Ring
  <2> HIDE DEF o
  <2>6. Sane(o.ring)
    BY <1>0, <1>3, <2>4, <2>5 DEF Sane
  <2>7. ASSUME got # <<>> PROVE r.items[o.ring.read - 1] = got[Len(got)]
    <3>1. Len(got) \in 1 .. Len(got) /\ Len(got) \in 1 .. r.write - r.read
      BY <1>0, <2>4, <2>7
    <3>2. got[Len(got)] = r.items[r.read + Len(got) - 1]
      BY <2>2, <2>4, <3>1
    <3> QED BY <1>0, <2>4, <2>5, <3>2
  <2>8. Taken(o)
    BY <2>5, <2>7 DEF Taken
  <2> QED BY <2>3, <2>6, <2>8
<1> QED BY <1>1, <1>2, <1>3

LEMMA ReadItemSane ==
  ASSUME NEW r \in Ring, Sane(r)
  PROVE  Sane(RingReadItem(r).ring) /\ Taken(RingReadItem(r))
<1> DEFINE o == Outcome([r EXCEPT !.read = (r.read + 1) % N, !.full = FALSE],
                        1, <<r.items[r.read]>>, "nil")
<1>0. r.read \in Slot /\ r.read \in Nat /\ r.read < N /\ N \in Nat
  BY RingFields, RingAssumption DEF Sane
<1>1. RingReadItem(r) = o
  BY <1>0 DEF RingReadItem
<1>2. /\ o.ring.full = FALSE /\ o.ring.read = (r.read + 1) % N
      /\ o.ring.items = r.items /\ o.items = <<r.items[r.read]>>
  BY DEF Outcome, Ring
<1> HIDE DEF o
<1>3. (r.read + 1) % N = IF r.read + 1 < N THEN r.read + 1 ELSE 0
  BY <1>0, ModOnce DEF Slot
<1>4. Sane(o.ring)
  BY <1>0, <1>2, <1>3 DEF Sane
<1>5. Taken(o)
  BY <1>0, <1>2, <1>3 DEF Taken
<1> QED BY <1>1, <1>4, <1>5

(* The scan starts at the read index where FitsReadItems holds.            *)
LEMMA ReadItemsSane ==
  ASSUME NEW r \in Ring, Sane(r), NEW delim, r.read < r.write => r.read = 0
  PROVE  Sane(RingReadItems(r, delim).ring) /\ Taken(RingReadItems(r, delim))
<1> DEFINE all == IF r.read >= r.write THEN Wrapped(r) ELSE Slice(r.items, 0, r.write)
           line == Before(all, delim)
           o == Outcome([r EXCEPT !.read = GoMod(r.read + Len(line)), !.full = FALSE],
                        Len(line), line, "nil")
<1>0. /\ r.items \in [Slot -> Item] /\ r.write \in Nat /\ r.write < N /\ r.read \in Nat
      /\ r.read < N /\ N \in Nat /\ r.full \in BOOLEAN
  BY RingFields, RingAssumption DEF Sane
<1>1. /\ all \in Seq(Item) /\ Len(all) <= N - r.read + r.write
      /\ \A i \in 1 .. Len(all) :
           all[i] = r.items[IF r.read + i - 1 < N THEN r.read + i - 1
                            ELSE r.read + i - 1 - N]
  <2>1. CASE r.read >= r.write
    <3>1. all = Wrapped(r)
      BY <2>1
    <3> HIDE DEF all
    <3>2. all \in Seq(Item) /\ Len(all) = N - r.read + r.write
      BY <2>1, <3>1, WrappedType
    <3>3. \A i \in 1 .. Len(all) :
            all[i] = r.items[IF r.read + i - 1 < N THEN r.read + i - 1
                             ELSE r.read + i - 1 - N]
      BY <2>1, <3>1, WrappedAt
    <3> QED BY <1>0, <3>2, <3>3
  <2>2. CASE ~ (r.read >= r.write)
    <3>1. all = Slice(r.items, r.read, r.write) /\ r.read = 0
      BY <1>0, <2>2
    <3>2. Legal(r.read, r.write) /\ r.read \in Int /\ r.write \in Int
      BY <1>0, <2>2 DEF Legal
    <3> HIDE DEF all
    <3>3. /\ all \in Seq(Item) /\ Len(all) = r.write - r.read
          /\ \A i \in 1 .. r.write - r.read : all[i] = r.items[r.read + i - 1]
      <4> DEFINE cut == Slice(r.items, r.read, r.write)
      <4>1. /\ cut \in Seq(Item) /\ Len(cut) = r.write - r.read
            /\ \A i \in 1 .. r.write - r.read : cut[i] = r.items[r.read + i - 1]
        BY <1>0, <3>2, SliceType
      <4>2. all = cut
        BY <3>1
      <4> HIDE DEF cut
      <4> QED BY <4>1, <4>2
    <3> QED BY <1>0, <3>1, <3>3
  <2> QED BY <2>1, <2>2
<1> HIDE DEF all
<1>2. /\ line \in Seq(Item) /\ Len(line) \in 0 .. Len(all)
      /\ \A i \in 1 .. Len(line) : line[i] = all[i]
  BY <1>1, BeforeType
<1>3. RingReadItems(r, delim) = IF line = <<>> THEN Outcome(r, 0, <<>>, "nil") ELSE o
  BY DEF RingReadItems, all
<1> HIDE DEF line
<1>4. CASE line = <<>>
  BY <1>3, <1>4 DEF Outcome, Sane, Taken
<1>5. CASE line # <<>>
  <2>1. /\ o.ring.full = FALSE /\ o.ring.read = GoMod(r.read + Len(line))
        /\ o.ring.items = r.items /\ o.items = line
    BY DEF Outcome, Ring
  <2> HIDE DEF o
  <2>2. /\ Len(line) \in Nat /\ Len(line) \in 1 .. Len(line) /\ Len(line) \in 1 .. Len(all)
        /\ Len(line) <= N - r.read + r.write
    BY <1>0, <1>1, <1>2, <1>5
  <2>3. r.items[IF r.read + Len(line) - 1 < N THEN r.read + Len(line) - 1
                ELSE r.read + Len(line) - 1 - N] = line[Len(line)]
    BY <1>1, <1>2, <2>2
  <2>4. /\ o.ring.read >= 0
        /\ o.ring.read > 0 =>
             o.ring.read - 1 = IF r.read + Len(line) - 1 < N THEN r.read + Len(line) - 1
                               ELSE r.read + Len(line) - 1 - N
    <3> DEFINE at == r.read + Len(line)
    <3>1. at \in Nat /\ (at \in Slot \/ at \in N .. 2 * N - 1)
      BY <1>0, <2>2 DEF Slot
    <3> HIDE DEF at
    <3>2. o.ring.read = at % N
      BY <2>1, <3>1 DEF GoMod, at
    <3>3. CASE at \in Slot
      <4>1. o.ring.read = at /\ at < N
        BY <1>0, <3>1, <3>2, <3>3, ModOnce DEF Slot
      <4> QED BY <1>0, <3>1, <4>1 DEF at
    <3>4. CASE at \in N .. 2 * N - 1
      <4>1. o.ring.read = at - N
        BY <1>0, <3>1, <3>2, <3>4, ModOnce
      <4> QED BY <1>0, <3>1, <3>4, <4>1 DEF at
    <3> QED BY <3>1, <3>3, <3>4
  <2>5. Sane(o.ring)
    BY <2>1, <2>4 DEF Sane
  <2>6. Taken(o)
    BY <2>1, <2>3, <2>4 DEF Taken
  <2> QED BY <1>3, <1>5, <2>5, <2>6
<1> QED BY <1>4, <1>5

LEMMA ValueSane ==
  ASSUME NEW r \in Ring, Sane(r), Whole(r)
  PROVE  Sane(RingValue(r).ring) /\ Taken(RingValue(r))
<1>0. /\ r.items \in [Slot -> Item] /\ r.write \in Nat /\ r.write < N /\ N \in Nat
      /\ r.read \in Nat /\ r.full \in BOOLEAN
  BY RingFields, RingAssumption DEF Sane
<1>1. CASE r.read >= r.write
  BY <1>0, <1>1 DEF RingValue, Outcome, Sane, Taken, Whole
<1>2. CASE ~ (r.read >= r.write)
  <2> DEFINE all == Slice(r.items, r.read, r.write)
             o == Outcome([r EXCEPT !.read = r.write], Len(all), all, "nil")
  <2>1. Legal(r.read, r.write) /\ r.read \in Int /\ r.write \in Int
    BY <1>0, <1>2 DEF Legal
  <2>2. /\ all \in Seq(Item) /\ Len(all) = r.write - r.read
        /\ \A i \in 1 .. r.write - r.read : all[i] = r.items[r.read + i - 1]
    BY <1>0, <2>1, SliceType
  <2>3. RingValue(r) = o
    BY <1>2, <2>1 DEF RingValue
  <2> HIDE DEF all
  <2>4. /\ o.ring.full = r.full /\ o.ring.read = r.write /\ o.ring.write = r.write
        /\ o.ring.items = r.items /\ o.items = all
    BY DEF Outcome, Ring
  <2> HIDE DEF o
  <2>5. all[Len(all)] = r.items[r.write - 1]
    BY <1>0, <1>2, <2>2
  <2> QED BY <1>0, <2>3, <2>4, <2>5 DEF Sane, Taken
<1> QED BY <1>1, <1>2

(* Read fills a slice no longer than what is unread.                       *)
LEMMA ReadFills ==
  ASSUME NEW r \in Ring, Sane(r), NEW n \in 1 .. RingLen(r)
  PROVE  /\ RingRead(r, n).items \in Seq(Item) /\ Len(RingRead(r, n).items) = n
         /\ RingRead(r, n).err # "panic"
<1>0. /\ r.items \in [Slot -> Item] /\ r.write \in Nat /\ r.read \in Nat
      /\ r.read < N /\ N \in Nat /\ r.full \in BOOLEAN /\ n \in Nat /\ n > 0
      /\ RingLen(r) \in 0 .. N /\ RingLen(r) # 0
  BY RingFields, RingAssumption, RingLenType DEF Sane
<1>1. CASE r.read >= r.write
  <2>1. /\ Wrapped(r) \in Seq(Item) /\ n <= Len(Wrapped(r)) /\ Len(Wrapped(r)) \in Nat
    BY <1>0, <1>1, WrappedType, LenOfSane DEF Sane
  <2>2. Prefix(Wrapped(r), n) \in Seq(Item) /\ Len(Prefix(Wrapped(r), n)) = n
    BY <1>0, <2>1, PrefixType
  <2> QED BY <1>0, <1>1, <2>2 DEF RingRead, Outcome
<1>2. CASE ~ (r.read >= r.write)
  <2> DEFINE all == Slice(r.items, r.read, r.write)
  <2>1. Legal(r.read, r.write) /\ r.read \in Int /\ r.write \in Int
    BY <1>0, <1>2, RingFields DEF Legal
  <2>2. all \in Seq(Item) /\ Len(all) = r.write - r.read
    BY <1>0, <2>1, SliceType
  <2>3. n <= r.write - r.read
    BY <1>0, <1>2, LenOfSane DEF Sane
  <2> HIDE DEF all
  <2>4. Prefix(all, n) \in Seq(Item) /\ Len(Prefix(all, n)) = n
    BY <1>0, <2>2, <2>3, PrefixType
  <2> QED BY <1>0, <1>2, <2>1, <2>4 DEF RingRead, Outcome, all
<1> QED BY <1>0, <1>1, <1>2

LEMMA NextSane ==
  ASSUME NEW r \in Ring, Sane(r), NEW n \in Int, n > RingLen(r) => Whole(r)
  PROVE  Sane(RingNext(r, n).ring) /\ Taken(RingNext(r, n))
<1>1. CASE n <= 0
  BY <1>1 DEF RingNext, Outcome, Sane, Taken
<1>2. CASE n > 0 /\ n > RingLen(r)
  BY <1>2, ValueSane DEF RingNext
<1>3. CASE n > 0 /\ ~ (n > RingLen(r))
  <2> DEFINE o == RingRead(r, n)
             padded == [i \in 1 .. n |-> IF i <= Len(o.items) THEN o.items[i] ELSE Zero]
  <2>1. n \in 1 .. RingLen(r) /\ n \in Nat
    BY <1>3, RingLenType
  <2>2. o \in OutcomeType /\ Sane(o.ring) /\ Taken(o)
    BY <2>1, ReadSane, RingReadType
  <2>3. o.items \in Seq(Item) /\ Len(o.items) = n /\ o.err # "panic"
    BY <2>1, ReadFills
  <2>4. RingNext(r, n) = [o EXCEPT !.n = n, !.items = IF o.err = "panic" THEN @ ELSE padded]
    BY <1>3 DEF RingNext
  <2> HIDE DEF o
  <2>5. padded = o.items
    BY <2>1, <2>3
  <2> HIDE DEF padded
  <2>6. RingNext(r, n).ring = o.ring /\ RingNext(r, n).items = o.items
    BY <2>2, <2>4, <2>5 DEF OutcomeType
  <2> QED BY <2>2, <2>6 DEF Taken
<1> QED BY <1>1, <1>2, <1>3, RingLenType

LEMMA UnreadItemSane ==
  ASSUME NEW r \in Ring, Sane(r), r.full \/ r.read > 0
  PROVE  Sane(RingUnreadItem(r).ring)
<1>0. r.read \in Nat /\ r.full \in BOOLEAN
  BY RingFields DEF Sane
<1>1. CASE r.full
  BY <1>1 DEF RingUnreadItem, Outcome
<1>2. CASE ~ r.full
  <2>1. GoMod(r.read - 1) >= 0
    <3>1. GoMod(r.read - 1) \in Slot
      BY <1>0, <1>2, GoModRange
    <3> QED BY <3>1, RingAssumption DEF Slot
  <2>2. /\ RingUnreadItem(r).ring.read = GoMod(r.read - 1)
        /\ RingUnreadItem(r).ring.full = r.full
    BY <1>2 DEF RingUnreadItem, Outcome, Ring
  <2> QED BY <1>2, <2>1, <2>2 DEF Sane
<1> QED BY <1>1, <1>2

LEMMA SeekSane ==
  ASSUME NEW r \in Ring, Sane(r), NEW offset \in Int, NEW whence,
         whence # "bad" =>
           /\ ~ r.full
           /\ IF whence = "end" THEN r.write + offset >= 0 ELSE offset >= 0
  PROVE  Sane(RingSeek(r, offset, whence).ring)
<1>0. r.read \in Nat /\ r.write \in Nat /\ r.full \in BOOLEAN
  BY RingFields DEF Sane
<1>1. \A x \in Nat : GoMod(x) >= 0
  BY GoModRange, RingAssumption DEF Slot
<1>2. CASE whence = "end"
  <2>1. /\ RingSeek(r, offset, whence).ring.read = GoMod(r.write + offset)
        /\ RingSeek(r, offset, whence).ring.full = r.full
    BY <1>2 DEF RingSeek, Outcome, Ring
  <2>2. r.write + offset \in Nat
    BY <1>0, <1>2
  <2> QED BY <1>1, <1>2, <2>1, <2>2 DEF Sane
<1>3. CASE whence \in {"start", "current"}
  <2>1. /\ RingSeek(r, offset, whence).ring.read = GoMod(r.read + offset)
        /\ RingSeek(r, offset, whence).ring.full = r.full
    BY <1>3 DEF RingSeek, Outcome, Ring
  <2>2. r.read + offset \in Nat
    BY <1>0, <1>3
  <2> QED BY <1>1, <1>3, <2>1, <2>2 DEF Sane
<1>4. CASE whence \notin {"end", "start", "current"}
  BY <1>4 DEF RingSeek, Outcome
<1> QED BY <1>2, <1>3, <1>4

LEMMA TruncateSane ==
  ASSUME NEW r \in Ring, Sane(r), NEW n \in Int
  PROVE  Sane(RingTruncate(r, n).ring)
BY DEF RingTruncate, RingClear, RingReset, Outcome, Panic, Sane, Ring

-----------------------------------------------------------------------------
(* The inductive invariant.  No call has returned since a stream began, so *)
(* UnreadItem may not follow one: what the stream does to the slots behind *)
(* the read index does not matter.                                         *)
NothingReturned == stream.op # "none" => result.op = "none"

KeepInv == TypeOK /\ Consistent /\ NothingReturned

LEMMA SaneRing == Consistent => Sane(ring)
BY DEF Consistent, FullFollows, ReadInBounds, Sane

(* Calls that run on the ring alone.                                       *)
LEMMA DoKeeps ==
  ASSUME NEW call \in CallType, NEW o \in OutcomeType, TypeOK, Do(call, o), Sane(o.ring),
         call.op \in TakingOps => Taken(o)
  PROVE  Consistent' /\ NothingReturned'
<1>1. /\ ring' = o.ring /\ stream' = NoStream
      /\ result' = [call EXCEPT !.n = o.n, !.items = o.items, !.err = o.err]
  BY DEF Do
<1>2. result'.op = call.op /\ result'.items = o.items
  BY <1>1 DEF CallType
<1>3. PartsInOrder' /\ NothingReturned'
  BY <1>1 DEF PartsInOrder, NothingReturned, NoStream
<1>4. Sane(ring)'
  BY <1>1 DEF Sane
<1>5. (result.op \in TakingOps =>
         (result.items # <<>> /\ ring.read > 0 /\ ~ ring.full =>
            ring.items[ring.read - 1] = result.items[Len(result.items)]))'
  BY <1>1, <1>2 DEF Taken
<1> QED BY <1>3, <1>4, <1>5 DEF Consistent, FullFollows, ReadInBounds, LastTakenIsBehind,
     FitsUnreadItem, Sane

(* Returns of a streaming call.                                            *)
LEMMA FinishKeeps ==
  ASSUME NEW call \in CallType, NEW n, NEW items, NEW err, Finish(call, n, items, err),
         call.op \notin TakingOps, Sane(ring)'
  PROVE  Consistent' /\ NothingReturned'
<1>1. result'.op = call.op /\ stream' = NoStream
  BY DEF Finish, CallType
<1> QED BY <1>1 DEF Consistent, FullFollows, ReadInBounds, LastTakenIsBehind, FitsUnreadItem,
     PartsInOrder, NothingReturned, NoStream, Sane

(* Turns of a streaming call.                                              *)
LEMMA TurnKeeps ==
  ASSUME result'.op = "none", Sane(ring)', PartsInOrder'
  PROVE  Consistent' /\ NothingReturned'
BY DEF Consistent, FullFollows, ReadInBounds, LastTakenIsBehind, FitsUnreadItem, TakingOps,
     NothingReturned, Sane

LEMMA KeepingKeeps ==
  ASSUME KeepInv, [KeepingNext]_vars
  PROVE  Consistent' /\ NothingReturned'
<1> USE CallTypes DEF Op, TakingOps
<1>0. ring \in Ring /\ Sane(ring) /\ TypeOK
  BY SaneRing DEF KeepInv, TypeOK
<1>a. /\ \A op \in Op : Called(op).op = op
      /\ \A op \in Op : \A k : With(op, k).op = op
  BY DEF Called, With, NoResult
<1>1. ASSUME NEW p \in Input, Write(p) PROVE Consistent' /\ NothingReturned'
  <2> DEFINE call == [Called("Write") EXCEPT !.given = p]
  <2>1. p \in Seq(Item)
    BY CallAssumption
  <2>2. call \in CallType /\ call.op \notin TakingOps
    BY <2>1 DEF Called, NoResult
  <2>3. Do(call, RingWrite(ring, p))
    BY <1>1 DEF Write
  <2> HIDE DEF call
  <2> QED BY <1>0, <2>1, <2>2, <2>3, RingWriteType, WriteSane, DoKeeps
<1>2. ASSUME NEW x \in Item, WriteItem(x) PROVE Consistent' /\ NothingReturned'
  <2> DEFINE call == [Called("WriteItem") EXCEPT !.given = <<x>>]
  <2>1. call \in CallType /\ call.op \notin TakingOps
    <3>1. <<x>> \in Seq(Item)
      OBVIOUS
    <3> QED BY <3>1 DEF Called, NoResult
  <2>2. Do(call, RingWriteItem(ring, x))
    BY <1>2 DEF WriteItem
  <2> HIDE DEF call
  <2> QED BY <1>0, <2>1, <2>2, RingWriteItemType, WriteItemSane, DoKeeps
<1>3. ASSUME NEW k \in Count, Read(k) PROVE Consistent' /\ NothingReturned'
  <2>1. k \in Nat
    BY <1>3, CallAssumption DEF Read
  <2> QED BY <1>0, <1>3, <2>1, RingReadType, ReadSane, DoKeeps DEF Read
<1>4. ASSUME NEW k \in Count, FitsNext(k), NextItems(k)
      PROVE  Consistent' /\ NothingReturned'
  BY <1>0, <1>4, CallAssumption, RingNextType, NextSane, DoKeeps DEF NextItems, FitsNext
<1>5. ASSUME NEW k \in Count, Truncate(k) PROVE Consistent' /\ NothingReturned'
  BY <1>0, <1>5, <1>a, CallAssumption, RingTruncateType, TruncateSane, DoKeeps DEF Truncate
<1>6. CASE ReadItem
  BY <1>0, <1>6, RingReadItemType, ReadItemSane, DoKeeps DEF ReadItem
<1>7. ASSUME NEW delim \in Delim, FitsReadItems, ReadItems(delim)
      PROVE  Consistent' /\ NothingReturned'
  <2> DEFINE call == [Called("ReadItems") EXCEPT !.delim = delim]
  <2>1. call \in CallType
    BY CallAssumption
  <2>2. Do(call, RingReadItems(ring, delim))
    BY <1>7 DEF ReadItems
  <2> HIDE DEF call
  <2> QED BY <1>0, <1>7, <2>1, <2>2, RingReadItemsType, ReadItemsSane, DoKeeps
       DEF FitsReadItems
<1>8. CASE Whole(ring) /\ Value
  BY <1>0, <1>8, RingValueType, ValueSane, DoKeeps DEF Value
<1>9. CASE FitsUnreadItem /\ UnreadItem
  BY <1>0, <1>9, <1>a, RingUnreadItemType, UnreadItemSane, DoKeeps DEF UnreadItem, FitsUnreadItem
<1>10. ASSUME NEW offset \in Offset, NEW whence, FitsSeek(offset, whence), Seek(offset, whence)
       PROVE  Consistent' /\ NothingReturned'
  <2>1. /\ offset \in Int
        /\ whence # "bad" =>
             /\ ~ ring.full
             /\ IF whence = "end" THEN ring.write + offset >= 0 ELSE offset >= 0
    BY <1>0, <1>10, CallAssumption, RingLenType, RingAssumption DEF FitsSeek
  <2> QED BY <1>0, <1>10, <1>a, <2>1, RingSeekType, SeekSane, DoKeeps DEF Seek
<1>11. CASE Reset
  <2>1. Outcome(RingReset(ring), 0, <<>>, "nil") \in OutcomeType
    BY <1>0, RingResetType DEF Outcome, OutcomeType, CallErr
  <2>2. Sane(Outcome(RingReset(ring), 0, <<>>, "nil").ring)
    <3>1. RingReset(ring).full = FALSE
      BY <1>0 DEF RingReset, Ring
    <3>2. RingReset(ring).read = 0
      BY <1>0 DEF RingReset, Ring
    <3>3. Outcome(RingReset(ring), 0, <<>>, "nil").ring = RingReset(ring)
      BY DEF Outcome
    <3> QED BY <3>1, <3>2, <3>3 DEF Sane
  <2> QED BY <1>0, <1>11, <1>a, <2>1, <2>2, DoKeeps DEF Reset
<1>12. ASSUME NEW length \in Length, ReadFrom(length) PROVE Consistent' /\ NothingReturned'
  <2>1. result'.op = "none" /\ ring' = ring /\ stream'.op = "ReadFrom"
    BY <1>12 DEF ReadFrom, Begin, NoResult, NoStream
  <2> QED BY <1>0, <2>1, TurnKeeps DEF PartsInOrder, Sane
<1>13. ASSUME NEW chunk \in Chunk, NEW err \in ReadErr, FitsReader(chunk, err),
              ReadFromTurn(chunk, err)
       PROVE  Consistent' /\ NothingReturned'
  <2>1. chunk \in Seq(Item) /\ Len(chunk) \in Nat
    BY ChunkType
  <2> DEFINE r == Fill(Receive(ring, chunk), Len(chunk))
  <2>2. Receive(ring, chunk) \in Ring /\ r \in Ring
    BY <1>0, <2>1, ReceiveType
  <2>3. CASE err = "nil"
    <3>1. r.read >= 0
      BY <1>0, <2>2, RingFields DEF Fill, Receive, Ring, Sane
    <3> HIDE DEF r
    <3>2. (r.write + Len(chunk)) % N >= 0
      <4>1. (r.write + Len(chunk)) % N \in Slot
        BY <2>1, <2>2, RingFields, ModInSlot
      <4> QED BY <4>1, RingAssumption DEF Slot
    <3>3. /\ Advance(r, Len(chunk)).full = r.full
          /\ Advance(r, Len(chunk)).write = (r.write + Len(chunk)) % N
          /\ Advance(r, Len(chunk)).read =
               IF r.full THEN (r.write + Len(chunk)) % N ELSE r.read
      BY <2>2 DEF Advance, Ring
    <3>4. Sane(Advance(r, Len(chunk)))
      BY <3>1, <3>2, <3>3 DEF Sane
    <3>5. ring' = Advance(r, Len(chunk)) /\ result' = result /\ stream'.op = "ReadFrom"
      BY <1>0, <1>13, <2>3 DEF ReadFromTurn, r, TypeOK
    <3>6. result.op = "none"
      BY <1>13 DEF KeepInv, NothingReturned, ReadFromTurn
    <3> QED BY <3>4, <3>5, <3>6, TurnKeeps DEF PartsInOrder, Sane
  <2>4. CASE err # "nil"
    <3> DEFINE call == [Called("ReadFrom") EXCEPT !.given = stream.moved]
    <3>1. ring' = Receive(ring, chunk) /\ Finish(call, stream.n, <<>>, err) /\ chunk = <<>>
      BY <1>13, <2>4 DEF ReadFromTurn, ReadFromReturns, FitsReader
    <3>2. call \in CallType /\ call.op = "ReadFrom"
      BY <1>0, <1>a DEF TypeOK, Called, NoResult
    <3>3. Sane(ring)'
      BY <1>0, <3>1, RingFields DEF Receive, Sane
    <3> HIDE DEF call
    <3> QED BY <3>1, <3>2, <3>3, FinishKeeps
  <2> QED BY <2>3, <2>4
<1>14. CASE ReadFromNegative
  <2> DEFINE call == [Called("ReadFrom") EXCEPT !.given = stream.moved]
  <2>1. Finish(call, stream.n, <<>>, "negative") /\ ring' = ring
    BY <1>14 DEF ReadFromNegative, ReadFromReturns
  <2>2. call \in CallType /\ call.op = "ReadFrom"
    BY <1>0, <1>a DEF TypeOK, Called, NoResult
  <2> HIDE DEF call
  <2> QED BY <1>0, <2>1, <2>2, FinishKeeps DEF Sane
<1>b. Called("WriteTo") \in CallType /\ Called("WriteTo").op \notin TakingOps
  BY <1>a
<1>15. CASE WriteTo
  <2>1. /\ result'.op = "none" /\ ring' = ring
        /\ stream'.op = IF ring.read >= ring.write THEN "WriteToTail" ELSE "WriteToHead"
        /\ stream'.moved = <<>>
    BY <1>15 DEF WriteTo, Begin, NoResult, NoStream
  <2>2. PartsInOrder'
    BY <1>0, <2>1, RingFields DEF PartsInOrder, Sane
  <2> QED BY <1>0, <2>1, <2>2, TurnKeeps DEF Sane
<1>c. ASSUME NEW num \in 0 .. N, ring' = Sent(ring, num) PROVE Sane(ring)' /\ ~ ring'.full
  <2>1. (ring.read + num) % N \in Slot
    BY <1>0, RingFields, RingAssumption, ModInSlot
  <2>2. ring'.full = FALSE /\ ring'.read = (ring.read + num) % N
    BY <1>0, <1>c DEF Sent, Ring
  <2> QED BY <2>1, <2>2, RingAssumption DEF Sane, Slot
<1>16. ASSUME NEW num \in 0 .. N, NEW err \in ReadErr, FitsWriter(num, N - ring.read, err),
              WriteToTail(num, err)
       PROVE  Consistent' /\ NothingReturned'
  <2>1. ring' = Sent(ring, num) /\ num <= N - ring.read
    BY <1>16 DEF WriteToTail
  <2>2. CASE err = "nil"
    <3>1. num = N - ring.read
      BY <1>0, <1>16, <2>1, <2>2, RingFields, RingAssumption DEF FitsWriter
    <3>2. ring'.read = 0 /\ ring'.write = ring.write
      <4>1. N % N = 0
        BY RingAssumption, ModOnce
      <4>2. ring.read + num = N
        BY <1>0, <3>1, RingFields, RingAssumption
      <4> QED BY <1>0, <2>1, <4>1, <4>2 DEF Sent, Ring
    <3>3. stream'.op = "WriteToHead" /\ result' = result
      BY <1>0, <1>16, <2>2 DEF WriteToTail, TypeOK
    <3>4. result.op = "none"
      BY <1>16 DEF KeepInv, NothingReturned, WriteToTail
    <3>5. PartsInOrder'
      BY <1>0, <1>c, <2>1, <3>2, <3>3, RingFields DEF PartsInOrder
    <3> QED BY <1>c, <2>1, <3>3, <3>4, <3>5, TurnKeeps
  <2>3. CASE err # "nil"
    <3>1. \E moved : Finish(Called("WriteTo"), num, moved, err)
      BY <1>16, <2>3 DEF WriteToTail, WriteToReturns
    <3> QED BY <1>b, <1>c, <2>1, <3>1, FinishKeeps
  <2> QED BY <2>2, <2>3
<1>17. ASSUME NEW num \in 0 .. N, NEW err \in ReadErr, WriteToHead(num, err)
       PROVE  Consistent' /\ NothingReturned'
  <2>1. /\ ring' = Sent(ring, num)
        /\ \E n, moved : Finish(Called("WriteTo"), n, moved, err)
    BY <1>17 DEF WriteToHead, WriteToReturns
  <2> QED BY <1>b, <1>c, <2>1, FinishKeeps
<1>18. CASE WriteToNegative
  <2>1. /\ ring' = ring
        /\ Finish(Called("WriteTo"), stream.n, stream.moved, "negative")
    BY <1>18 DEF WriteToNegative, WriteToReturns
  <2> QED BY <1>0, <1>b, <2>1, FinishKeeps DEF Sane
<1>19. CASE UNCHANGED vars
  BY <1>19 DEF vars, KeepInv, Consistent, FullFollows, ReadInBounds, PartsInOrder,
     LastTakenIsBehind, FitsUnreadItem, NothingReturned
<1> QED BY <1>1, <1>2, <1>3, <1>4, <1>5, <1>6, <1>7, <1>8, <1>9, <1>10, <1>11, <1>12,
           <1>13, <1>14, <1>15, <1>16, <1>17, <1>18, <1>19 DEF KeepingNext

LEMMA KeepInit == ASSUME Init PROVE KeepInv
<1>1. Sane(ring) /\ PartsInOrder /\ NothingReturned /\ ~ FitsUnreadItem
  BY DEF Init, NewRing, NoStream, NoResult, Sane, PartsInOrder, NothingReturned,
     FitsUnreadItem, TakingOps
<1> QED BY <1>1, InitType DEF KeepInv, Consistent, FullFollows, ReadInBounds,
     LastTakenIsBehind, Sane

(* For callers that keep to the contract the three fields stay consistent  *)
(* with each other, and the item UnreadItem would put back is still in its *)
(* slot, whatever the ring size and whatever was read, written, overwritten *)
(* or streamed before.                                                     *)
THEOREM StaysConsistent == KeepingSpec => []Consistent
<1>1. Init => KeepInv
  BY KeepInit
<1>2. KeepInv /\ [KeepingNext]_vars => KeepInv'
  <2> SUFFICES ASSUME KeepInv, [KeepingNext]_vars PROVE KeepInv'
    OBVIOUS
  <2>1. [Next]_vars
    BY KeepingIsNext
  <2>2. TailHeld
    BY DEF KeepInv, Consistent, PartsInOrder, TailHeld
  <2> QED BY <2>1, <2>2, NextType, KeepingKeeps DEF KeepInv
<1>3. KeepInv => Consistent
  BY DEF KeepInv
<1> QED BY <1>1, <1>2, <1>3, PTL DEF KeepingSpec

-----------------------------------------------------------------------------
(* A RingBuffer whose caller keeps to RingBufferContract is a              *)
(* SlidingWindow.                                                          *)

(* The unread items of a sane ring.                                        *)

(* The write index is as many slots on from the read index as there are    *)
(* unread items.                                                           *)
LEMMA SaneLen ==
  ASSUME NEW r \in Ring, Sane(r)
  PROVE  /\ r.read \in Slot /\ r.write \in Slot /\ RingLen(r) \in 0 .. N
         /\ r.write = On(r.read, RingLen(r))
         /\ r.full <=> RingLen(r) = N
<1>1. r.read \in Slot /\ r.write \in Slot /\ RingLen(r) \in 0 .. N
  BY RingFields, RingLenType DEF Sane
<1>2. RingLen(r) = IF r.full THEN N
                   ELSE IF r.read <= r.write THEN r.write - r.read
                   ELSE N - r.read + r.write
  BY LenOfSane
<1>3. CASE r.full
  BY <1>1, <1>2, <1>3, RingAssumption DEF Sane, On, Slot
<1>4. CASE ~ r.full
  BY <1>1, <1>2, <1>4, RingAssumption DEF On, Slot
<1> QED BY <1>1, <1>3, <1>4

(* And that says how many there are.                                       *)
LEMMA LenSane ==
  ASSUME NEW r \in Ring, Sane(r), NEW len \in 0 .. N,
         r.write = On(r.read, len), r.full <=> len = N
  PROVE  RingLen(r) = len
<1>1. r.read \in Slot /\ r.write \in Slot
  BY RingFields DEF Sane
<1>2. RingLen(r) = IF r.full THEN N
                   ELSE IF r.read <= r.write THEN r.write - r.read
                   ELSE N - r.read + r.write
  BY LenOfSane
<1> QED BY <1>1, <1>2, RingAssumption DEF On, Slot

LEMMA OnType == \A w \in Slot, c \in 0 .. N : On(w, c) \in Slot /\ On(w, 0) = w
BY RingAssumption DEF On, Slot

LEMMA OnOn ==
  \A w \in Slot, c \in 0 .. N, d \in 0 .. N : c + d <= N => On(On(w, c), d) = On(w, c + d)
BY RingAssumption DEF On, Slot

LEMMA UnreadIs ==
  ASSUME NEW r \in Ring, Sane(r)
  PROVE  /\ Unread(r) \in Seq(Item) /\ Len(Unread(r)) = RingLen(r)
         /\ \A i \in 1 .. RingLen(r) : Unread(r)[i] = r.items[On(r.read, i - 1)]
<1>1. r.read \in Slot /\ RingLen(r) \in 0 .. N /\ r.items \in [Slot -> Item] /\ N \in Nat
  BY SaneLen, RingFields, RingAssumption
<1>2. ASSUME NEW i \in 1 .. RingLen(r)
      PROVE  (r.read + i - 1) % N = On(r.read, i - 1) /\ On(r.read, i - 1) \in Slot
  <2>1. i - 1 \in 0 .. N /\ r.read + i - 1 = r.read + (i - 1)
    BY <1>1 DEF Slot
  <2>2. (r.read + (i - 1)) % N = On(r.read, i - 1)
    BY <1>1, <2>1, ModOn
  <2> QED BY <1>1, <2>1, <2>2, OnType
<1>3. Unread(r) = [i \in 1 .. RingLen(r) |-> r.items[On(r.read, i - 1)]]
  BY <1>2 DEF Unread
<1>4. RingLen(r) \in Nat
  BY <1>1
<1> QED BY <1>1, <1>2, <1>3, <1>4

(* The last items before slot w are those of s.                            *)
Ends(f, w, s) == \A d \in 1 .. Len(s) : f[Back(w, d)] = s[Len(s) - d + 1]

LEMMA OnBack ==
  ASSUME NEW w \in Slot, NEW len \in 0 .. N, NEW d \in 1 .. len
  PROVE  Back(On(w, len), d) = On(w, len - d)
BY RingAssumption DEF Back, On, Slot

(* What is unread ends at the write index, and nothing else of its length  *)
(* does.                                                                   *)
LEMMA UnreadEnds ==
  ASSUME NEW r \in Ring, Sane(r)
  PROVE  Ends(r.items, r.write, Unread(r))
<1>1. /\ r.read \in Slot /\ RingLen(r) \in 0 .. N /\ r.write = On(r.read, RingLen(r))
      /\ Len(Unread(r)) = RingLen(r)
      /\ \A i \in 1 .. RingLen(r) : Unread(r)[i] = r.items[On(r.read, i - 1)]
  BY SaneLen, UnreadIs
<1>2. ASSUME NEW d \in 1 .. RingLen(r)
      PROVE  r.items[Back(r.write, d)] = Unread(r)[RingLen(r) - d + 1]
  <2>1. RingLen(r) - d + 1 \in 1 .. RingLen(r) /\ (RingLen(r) - d + 1) - 1 = RingLen(r) - d
    BY <1>1
  <2>2. Back(r.write, d) = On(r.read, RingLen(r) - d)
    BY <1>1, OnBack
  <2> QED BY <1>1, <2>1, <2>2
<1> QED BY <1>1, <1>2 DEF Ends

LEMMA EndsUnread ==
  ASSUME NEW r \in Ring, Sane(r), NEW s \in Seq(Item), Len(s) = RingLen(r),
         Ends(r.items, r.write, s)
  PROVE  Unread(r) = s
<1>1. /\ RingLen(r) \in 0 .. N /\ Unread(r) \in Seq(Item) /\ Len(Unread(r)) = RingLen(r)
      /\ Ends(r.items, r.write, Unread(r))
  BY SaneLen, UnreadIs, UnreadEnds
<1>2. ASSUME NEW i \in 1 .. RingLen(r) PROVE Unread(r)[i] = s[i]
  <2>1. RingLen(r) - i + 1 \in 1 .. RingLen(r) /\ RingLen(r) - (RingLen(r) - i + 1) + 1 = i
    BY <1>1
  <2> QED BY <1>1, <2>1 DEF Ends
<1> QED BY <1>1, <1>2, SeqEqual

-----------------------------------------------------------------------------
(* Writing and taking, seen as what they do to the unread items.           *)

LEMMA NewestIs ==
  ASSUME NEW s \in Seq(Item)
  PROVE  /\ Window!Newest(s) \in Seq(Item)
         /\ Len(Window!Newest(s)) = IF Len(s) <= N THEN Len(s) ELSE N
         /\ \A d \in 1 .. Len(Window!Newest(s)) :
              Window!Newest(s)[Len(Window!Newest(s)) - d + 1] = s[Len(s) - d + 1]
<1>1. CASE Len(s) <= N
  BY <1>1 DEF Window!Newest
<1>2. CASE ~ (Len(s) <= N)
  <2> DEFINE t == SubSeq(s, Len(s) - N + 1, Len(s))
  <2>1. /\ t \in Seq(Item) /\ Len(t) = N /\ N \in Nat
        /\ \A i \in 1 .. N : t[i] = s[Len(s) - N + i]
    BY <1>2, RingAssumption
  <2>2. Window!Newest(s) = t
    BY <1>2 DEF Window!Newest
  <2> HIDE DEF t
  <2>3. ASSUME NEW d \in 1 .. N PROVE t[N - d + 1] = s[Len(s) - d + 1]
    <3>1. N - d + 1 \in 1 .. N /\ Len(s) - N + (N - d + 1) = Len(s) - d + 1
      BY <2>1
    <3> QED BY <2>1, <3>1
  <2> QED BY <1>2, <2>1, <2>2, <2>3
<1> QED BY <1>1, <1>2

(* A write of no more than the ring holds.                                 *)
LEMMA Grown ==
  ASSUME NEW r \in Ring, Sane(r), NEW a \in Ring, NEW p \in Seq(Item), Len(p) <= N,
         a.write = On(r.write, Len(p)), a.full <=> RingLen(r) + Len(p) >= N,
         a.read = IF a.full THEN a.write ELSE r.read,
         Laid(r.items, r.write, a.items, a.write, p)
  PROVE  Unread(a) = Window!Newest(Unread(r) \o p)
<1> DEFINE q == Unread(r)
           all == q \o p
           new == Window!Newest(all)
           len == RingLen(r)
           c == Len(p)
<1>1. /\ r.read \in Slot /\ r.write \in Slot /\ len \in 0 .. N /\ c \in 0 .. N /\ c \in Nat
      /\ r.write = On(r.read, len) /\ a.write \in Slot /\ a.write \in Int /\ r.read >= 0
      /\ N \in Nat /\ N > 0 /\ len \in Nat
  BY SaneLen, RingFields, RingAssumption DEF Sane
<1>2. Sane(a)
  BY <1>1, RingFields DEF Sane, Slot
<1>3. RingLen(a) = IF len + c <= N THEN len + c ELSE N
  <2>1. CASE len + c >= N
    <3>1. a.full /\ a.write = On(a.read, N)
      <4>1. a.full /\ a.read = a.write
        BY <2>1
      <4> QED BY <1>1, <4>1 DEF On, Slot
    <3>2. N \in 0 .. N
      BY <1>1
    <3>3. RingLen(a) = N
      BY <1>2, <3>1, <3>2, LenSane
    <3> HIDE DEF len, c
    <3> QED BY <1>1, <2>1, <3>3
  <2>2. CASE ~ (len + c >= N)
    <3>1. ~ a.full /\ a.read = r.read
      BY <2>2
    <3> HIDE DEF len, c
    <3>2. len + c \in 0 .. N /\ len + c <= N /\ len + c # N
      BY <1>1, <2>2
    <3>3. On(On(r.read, len), c) = On(r.read, len + c)
      BY <1>1, <3>2, OnOn
    <3>4. a.write = On(a.read, len + c)
      BY <1>1, <3>1, <3>3 DEF c
    <3> QED BY <1>2, <3>1, <3>2, <3>4, LenSane
  <2> QED BY <2>1, <2>2
<1>4. /\ q \in Seq(Item) /\ Len(q) = len /\ Ends(r.items, r.write, q)
  BY UnreadIs, UnreadEnds
<1> HIDE DEF q, len
<1>5. /\ all \in Seq(Item) /\ Len(all) = len + c
      /\ \A i \in 1 .. len + c : all[i] = IF i <= len THEN q[i] ELSE p[i - len]
  BY <1>4, ConcatProperties
<1> HIDE DEF all
<1>6. /\ new \in Seq(Item) /\ Len(new) = RingLen(a)
      /\ \A d \in 1 .. Len(new) : new[Len(new) - d + 1] = all[Len(all) - d + 1]
  BY <1>3, <1>5, NewestIs
<1> HIDE DEF new
<1>7. ASSUME NEW d \in 1 .. Len(new) PROVE a.items[Back(a.write, d)] = new[Len(new) - d + 1]
  <2> HIDE DEF c
  <2>1. d \in 1 .. N /\ d \in Nat /\ d <= len + c
    BY <1>1, <1>3, <1>6
  <2>2. all[len + c - d + 1] = a.items[Back(a.write, d)]
    <3>1. CASE d <= c
      <4>1. /\ len + c - d + 1 \in 1 .. len + c /\ ~ (len + c - d + 1 <= len)
            /\ (len + c - d + 1) - len = c - d + 1 /\ d \in 1 .. c
        BY <1>1, <2>1, <3>1
      <4> QED BY <1>5, <4>1 DEF Laid, c
    <3>2. CASE ~ (d <= c)
      <4>1. /\ len + c - d + 1 \in 1 .. len + c /\ len + c - d + 1 <= len
            /\ len + c - d + 1 = len - (d - c) + 1 /\ d \in c + 1 .. N /\ d - c \in 1 .. len
        BY <1>1, <2>1, <3>2
      <4>2. all[len + c - d + 1] = q[len - (d - c) + 1]
        BY <1>5, <4>1
      <4>3. a.items[Back(a.write, d)] = r.items[Back(r.write, d - c)]
        BY <4>1 DEF Laid, c
      <4>4. r.items[Back(r.write, d - c)] = q[len - (d - c) + 1]
        BY <1>4, <4>1 DEF Ends
      <4> QED BY <4>2, <4>3, <4>4
    <3> QED BY <3>1, <3>2
  <2>3. new[Len(new) - d + 1] = all[Len(all) - d + 1]
    BY <1>6
  <2>4. Len(all) - d + 1 = len + c - d + 1
    BY <1>1, <1>5, <2>1
  <2> QED BY <2>2, <2>3, <2>4
<1>8. Ends(a.items, a.write, new)
  BY <1>7 DEF Ends
<1>9. Unread(a) = new
  BY <1>2, <1>6, <1>8, EndsUnread
<1> QED BY <1>9 DEF new, all, q

(* The first k unread items are taken.                                     *)
LEMMA Shrunk ==
  ASSUME NEW r \in Ring, Sane(r), NEW k \in 0 .. RingLen(r), NEW a \in Ring,
         a.items = r.items, a.write = r.write, a.read = On(r.read, k),
         a.full <=> r.full /\ k = 0
  PROVE  /\ Unread(a) = SubSeq(Unread(r), k + 1, Len(Unread(r)))
         /\ Unread(a) = Window!Rest(Unread(r), k) /\ RingLen(a) = RingLen(r) - k
<1> DEFINE q == Unread(r)
           len == RingLen(r)
           rest == SubSeq(q, k + 1, Len(q))
<1>1. /\ r.read \in Slot /\ r.write \in Slot /\ len \in 0 .. N /\ len \in Nat /\ k \in Nat
      /\ r.write = On(r.read, len) /\ a.read \in Slot /\ N \in Nat /\ k \in 0 .. N
      /\ len - k \in 0 .. N /\ k + (len - k) = len /\ k + (len - k) <= N
      /\ r.full <=> len = N
  BY SaneLen, OnType, RingAssumption
<1>2. Sane(a)
  <2>1. a.read >= 0
    BY <1>1 DEF Slot
  <2>2. a.full => a.read = a.write
    BY <1>1, OnType DEF Sane
  <2> QED BY <2>1, <2>2 DEF Sane
<1>3. RingLen(a) = len - k
  <2>1. On(On(r.read, k), len - k) = On(r.read, k + (len - k))
    <3> HIDE DEF len
    <3> QED BY <1>1, OnOn
  <2>2. a.write = On(a.read, len - k)
    <3> HIDE DEF len
    <3> QED BY <1>1, <2>1
  <2>3. a.full <=> len - k = N
    <3> HIDE DEF len
    <3> QED BY <1>1
  <2> HIDE DEF len
  <2> QED BY <1>1, <1>2, <2>2, <2>3, LenSane
<1>4. q \in Seq(Item) /\ Len(q) = len /\ Ends(r.items, r.write, q)
  BY UnreadIs, UnreadEnds
<1> HIDE DEF q, len
<1>5. rest \in Seq(Item) /\ Len(rest) = len - k /\ \A i \in 1 .. len - k : rest[i] = q[k + i]
  BY <1>1, <1>4
<1> HIDE DEF rest
<1>6. ASSUME NEW d \in 1 .. Len(rest) PROVE a.items[Back(a.write, d)] = rest[Len(rest) - d + 1]
  <2>1. /\ d \in 1 .. len /\ len - k - d + 1 \in 1 .. len - k
        /\ k + (len - k - d + 1) = len - d + 1
    BY <1>1, <1>5
  <2> QED BY <1>4, <1>5, <2>1 DEF Ends
<1>7. Ends(a.items, a.write, rest)
  BY <1>6 DEF Ends
<1>8. Unread(a) = rest
  BY <1>2, <1>3, <1>5, <1>7, EndsUnread
<1>9. Window!Rest(q, k) = rest
  <2>1. Window!Smaller(k, Len(q)) = k
    BY <1>1, <1>4 DEF Window!Smaller, len
  <2> QED BY <2>1 DEF Window!Rest, rest
<1> QED BY <1>3, <1>8, <1>9 DEF q, rest, len

LEMMA FrontIs ==
  ASSUME NEW s \in Seq(Item), NEW k \in Nat
  PROVE  /\ Window!Front(s, k) \in Seq(Item)
         /\ Len(Window!Front(s, k)) = IF k < Len(s) THEN k ELSE Len(s)
         /\ \A i \in 1 .. Len(Window!Front(s, k)) : Window!Front(s, k)[i] = s[i]
BY DEF Window!Front, Window!Smaller

-----------------------------------------------------------------------------
(* The methods that write.                                                 *)

(* When the code finds that writing c items has filled the ring, len of    *)
(* them unread: in Settle, and in ReadFrom.                                *)
LEMMA FullFrom ==
  ASSUME NEW read \in Slot, NEW len \in 0 .. N, NEW write \in Slot, write = On(read, len),
         NEW c \in 0 .. N
  PROVE  /\ c < N =>
              (len + c >= N <=> \/ len = N
                                \/ write < read /\ write + c >= read
                                \/ ~ (write + c < N) /\ On(write, c) >= read)
         /\ c <= N - write =>
              (len + c >= N <=> \/ len = N
                                \/ write < read /\ write + c >= read
                                \/ N - (write - read) = c)
<1>1. /\ read \in Int /\ 0 <= read /\ read < N /\ write \in Int /\ 0 <= write /\ write < N
      /\ len \in Int /\ 0 <= len /\ len <= N /\ c \in Int /\ 0 <= c /\ c <= N /\ N \in Int
  BY RingAssumption DEF Slot
<1>2. CASE read + len < N
  <2>1. write = read + len
    BY <1>2 DEF On
  <2> QED BY <1>1, <1>2, <2>1 DEF On
<1>3. CASE ~ (read + len < N)
  <2>1. write = read + len - N
    BY <1>3 DEF On
  <2> QED BY <1>1, <1>3, <2>1 DEF On
<1> QED BY <1>2, <1>3

LEMMA WriteWindow ==
  ASSUME NEW r \in Ring, Sane(r), NEW p \in Seq(Item), Len(p) < N \/ r.write = 0
  PROVE  /\ Unread(RingWrite(r, p).ring) = Window!Newest(Unread(r) \o p)
         /\ RingWrite(r, p).n = Window!Smaller(Len(p), N)
         /\ RingWrite(r, p).items = <<>> /\ RingWrite(r, p).err = "nil"
<1>1. /\ r.read \in Slot /\ r.write \in Slot /\ RingLen(r) \in 0 .. N /\ Len(p) \in Nat
      /\ r.write = On(r.read, RingLen(r)) /\ N \in Nat /\ N > 0
      /\ r.full <=> RingLen(r) = N
  BY SaneLen, RingAssumption
<1>2. CASE Len(p) < N
  <2> DEFINE end == r.write + Len(p)
             s == Store(r, p)
             a == Settle(s, end)
  <2>1. s \in Ring /\ (s.full <=> r.full) /\ s.read = r.read /\ s.write = r.write
    BY <1>2, StoreType DEF Store, Ring
  <2>2. a \in Ring
    BY <1>1, <2>1, SettleType DEF Slot
  <2>3. end \in Nat /\ end % N = On(r.write, Len(p)) /\ Len(p) \in 0 .. N
    <3>1. Len(p) \in 0 .. N /\ end \in Nat
      BY <1>1, <1>2 DEF Slot
    <3>2. (r.write + Len(p)) % N = On(r.write, Len(p))
      BY <1>1, <3>1, ModOn
    <3> QED BY <3>1, <3>2
  <2>4. Laid(r.items, r.write, s.items, On(r.write, Len(p)), p)
    BY <1>2, StoreLaid
  <2> HIDE DEF s
  <2>5. a.items = s.items /\ a.write = IF end < N THEN end ELSE end % N
    <3> HIDE DEF end
    <3> QED BY <2>1 DEF Settle, SettleWithinBounds, SettleWrapped, Ring
  <2>6. /\ a.full <=> \/ r.full
                      \/ r.write < r.read /\ end >= r.read
                      \/ ~ (end < N) /\ end % N >= r.read
        /\ a.read = IF a.full THEN a.write ELSE r.read
    <3>1. CASE end < N
      <4> HIDE DEF end
      <4> QED BY <2>1, <3>1 DEF Settle, SettleWithinBounds, Ring
    <3>2. CASE ~ (end < N)
      <4> HIDE DEF end
      <4> QED BY <2>1, <3>2 DEF Settle, SettleWrapped, Ring
    <3> QED BY <3>1, <3>2
  <2> HIDE DEF a
  <2>7. a.write = On(r.write, Len(p))
    <3>1. end < N => On(r.write, Len(p)) = end
      BY DEF On
    <3> HIDE DEF end
    <3> QED BY <2>3, <2>5, <3>1
  <2>8. a.full <=> RingLen(r) + Len(p) >= N
    <3>1. RingLen(r) + Len(p) >= N <=>
            \/ RingLen(r) = N
            \/ r.write < r.read /\ r.write + Len(p) >= r.read
            \/ ~ (r.write + Len(p) < N) /\ On(r.write, Len(p)) >= r.read
      BY <1>1, <1>2, <2>3, FullFrom
    <3>2. a.full <=> \/ r.full
                     \/ r.write < r.read /\ end >= r.read
                     \/ ~ (end < N) /\ On(r.write, Len(p)) >= r.read
      <4> HIDE DEF end
      <4> QED BY <2>3, <2>6
    <3> QED BY <1>1, <3>1, <3>2
  <2>9. Unread(a) = Window!Newest(Unread(r) \o p)
    <3>1. Len(p) <= N
      BY <1>1, <1>2
    <3> QED BY <2>2, <2>4, <2>5, <2>6, <2>7, <2>8, <3>1, Grown
  <2>10. RingWrite(r, p) = Outcome(a, Len(p), <<>>, "nil")
    BY <1>2 DEF RingWrite, a, s
  <2> QED BY <1>1, <1>2, <2>9, <2>10 DEF Outcome, Window!Smaller
<1>3. CASE ~ (Len(p) < N)
  <2> DEFINE a == StoreWhole(r, p)
             q == Unread(r)
             all == q \o p
             new == Window!Newest(all)
  <2>1. /\ a \in Ring /\ r.write = 0
        /\ a.items = [j \in Slot |-> p[Len(p) - N + j + 1]]
        /\ a.read = 0 /\ a.write = 0 /\ a.full = TRUE
    <3>1. a \in Ring
      BY <1>1, <1>3, StoreWholeType
    <3> QED BY <1>3, <3>1 DEF StoreWhole, Ring
  <2> HIDE DEF a
  <2>2. Sane(a) /\ RingLen(a) = N
    BY <2>1 DEF Sane, RingLen
  <2>3. q \in Seq(Item) /\ Len(q) = RingLen(r)
    BY UnreadIs
  <2> HIDE DEF q
  <2>4. /\ all \in Seq(Item) /\ Len(all) = RingLen(r) + Len(p)
        /\ \A i \in 1 .. RingLen(r) + Len(p) :
             all[i] = IF i <= RingLen(r) THEN q[i] ELSE p[i - RingLen(r)]
    <3>1. /\ all \in Seq(Item) /\ Len(all) = Len(q) + Len(p)
          /\ \A i \in 1 .. Len(q) + Len(p) :
               all[i] = IF i <= Len(q) THEN q[i] ELSE p[i - Len(q)]
      BY <2>3, ConcatProperties
    <3> HIDE DEF all
    <3> QED BY <2>3, <3>1
  <2> HIDE DEF all
  <2>5. /\ new \in Seq(Item) /\ Len(new) = N
        /\ \A d \in 1 .. N : new[N - d + 1] = all[Len(all) - d + 1]
    <3>1. /\ new \in Seq(Item) /\ Len(new) = IF Len(all) <= N THEN Len(all) ELSE N
          /\ \A d \in 1 .. Len(new) : new[Len(new) - d + 1] = all[Len(all) - d + 1]
      BY <2>4, NewestIs
    <3>2. Len(new) = N
      BY <1>1, <1>3, <2>4, <3>1
    <3> HIDE DEF new
    <3> QED BY <3>1, <3>2
  <2> HIDE DEF new
  <2>6. ASSUME NEW d \in 1 .. N PROVE a.items[Back(a.write, d)] = new[N - d + 1]
    <3>1. /\ Back(a.write, d) = N - d /\ N - d \in Slot
          /\ Len(p) - N + (N - d) + 1 = Len(p) - d + 1
      BY <1>1, <2>1 DEF Back, Slot
    <3>2. /\ Len(all) - d + 1 \in 1 .. RingLen(r) + Len(p) /\ ~ (Len(all) - d + 1 <= RingLen(r))
          /\ (Len(all) - d + 1) - RingLen(r) = Len(p) - d + 1
      BY <1>1, <1>3, <2>4
    <3>3. a.items[N - d] = p[Len(p) - d + 1]
      BY <2>1, <3>1
    <3> DEFINE i == Len(all) - d + 1
    <3>4. all[i] = p[Len(p) - d + 1]
      <4> HIDE DEF i
      <4> QED BY <2>4, <3>2 DEF i
    <3>5. new[N - d + 1] = all[Len(all) - d + 1]
      BY <2>5
    <3> QED BY <3>1, <3>3, <3>4, <3>5
  <2>7. Unread(a) = new
    <3>1. Ends(a.items, a.write, new)
      BY <2>5, <2>6 DEF Ends
    <3>2. a \in Ring /\ Sane(a) /\ new \in Seq(Item) /\ Len(new) = RingLen(a)
      BY <2>1, <2>2, <2>5
    <3> HIDE DEF Ends
    <3> QED BY <3>1, <3>2, EndsUnread
  <2>8. RingWrite(r, p) = Outcome(a, N, <<>>, "nil")
    BY <1>3 DEF RingWrite, a
  <2> QED BY <1>1, <1>3, <2>7, <2>8 DEF Outcome, Window!Smaller, new, all, q
<1> QED BY <1>2, <1>3

LEMMA WriteItemWindow ==
  ASSUME NEW r \in Ring, Sane(r), NEW x \in Item
  PROVE  Unread(RingWriteItem(r, x).ring) = Window!Newest(Append(Unread(r), x))
<1> DEFINE a == RingWriteItem(r, x).ring
           p == <<x>>
<1>1. /\ r.read \in Slot /\ r.write \in Slot /\ RingLen(r) \in 0 .. N
      /\ r.write = On(r.read, RingLen(r)) /\ N \in Nat /\ N > 0
      /\ r.full <=> RingLen(r) = N
  BY SaneLen, RingAssumption
<1>2. a \in Ring
  BY RingWriteItemType DEF OutcomeType
<1>3. (r.write + 1) % N = On(r.write, 1) /\ 1 \in 0 .. N
  BY <1>1, ModOn
<1>4. /\ a.write = On(r.write, 1) /\ a.items = [r.items EXCEPT ![r.write] = x]
      /\ a.full <=> (r.full \/ On(r.write, 1) = r.read)
      /\ a.read = IF r.full THEN On(r.write, 1) ELSE r.read
  BY <1>3, RingFields DEF RingWriteItem, Outcome
<1> HIDE DEF a
<1>5. a.full <=> RingLen(r) + 1 >= N
  BY <1>1, <1>4 DEF On, Slot
<1>6. a.read = IF a.full THEN a.write ELSE r.read
  BY <1>4
<1>7. /\ p \in Seq(Item) /\ Len(p) <= N /\ a.write = On(r.write, Len(p))
      /\ a.full <=> RingLen(r) + Len(p) >= N
  <2>1. p \in Seq(Item) /\ Len(p) = 1
    OBVIOUS
  <2> HIDE DEF p
  <2> QED BY <1>1, <1>4, <1>5, <2>1
<1>8. Laid(r.items, r.write, a.items, a.write, p)
  BY <1>4, WriteItemLaid
<1> HIDE DEF p
<1>9. Unread(a) = Window!Newest(Unread(r) \o p)
  BY <1>2, <1>6, <1>7, <1>8, Grown
<1>10. Unread(r) \o p = Append(Unread(r), x)
  <2>1. Unread(r) \in Seq(Item)
    BY UnreadIs
  <2> QED BY <2>1 DEF p
<1> QED BY <1>9, <1>10 DEF a

LEMMA ChunkWindow ==
  ASSUME NEW r \in Ring, Sane(r), NEW chunk \in Seq(Item), Len(chunk) <= N - r.write
  PROVE  LET a == Advance(Fill(Receive(r, chunk), Len(chunk)), Len(chunk))
         IN  Unread(a) = Window!Newest(Unread(r) \o chunk)
<1> DEFINE c == Len(chunk)
           s == Fill(Receive(r, chunk), c)
           a == Advance(s, c)
<1>1. /\ r.read \in Slot /\ r.write \in Slot /\ RingLen(r) \in 0 .. N
      /\ r.write = On(r.read, RingLen(r)) /\ N \in Nat /\ N > 0
      /\ (r.full <=> RingLen(r) = N) /\ c \in 0 .. N /\ c \in Nat /\ c <= N - r.write
  BY SaneLen, RingAssumption DEF Slot
<1>2. Receive(r, chunk) \in Ring /\ s \in Ring
  BY ReceiveType
<1>3. a \in Ring
  BY <1>1, <1>2, AdvanceType
<1>4. s.items = Overwrite(r.items, r.write, chunk) /\ s.write = r.write
  <2>1. s.items = Overwrite(r.items, r.write, chunk)
    BY DEF Fill, Receive, Ring
  <2>2. s.write = r.write
    BY DEF Fill, Receive, Ring
  <2> QED BY <2>1, <2>2
<1>5. /\ s.full <=> \/ r.full
                    \/ r.write < r.read /\ r.write + c >= r.read
                    \/ N - (r.write - r.read) = c
      /\ s.read = IF N - (r.write - r.read) = c THEN r.write ELSE r.read
  <2> DEFINE m == Receive(r, chunk)
  <2>1. /\ m.full <=> r.full \/ (r.write < r.read /\ r.write + c >= r.read)
        /\ m.read = r.read /\ m.write = r.write
    <3> HIDE DEF c
    <3> QED BY <1>2 DEF Receive, Ring, c
  <2> HIDE DEF m, c
  <2> QED BY <1>2, <2>1 DEF Fill, Ring, m
<1> HIDE DEF s
<1>6. (r.write + c) % N = On(r.write, c)
  <2> HIDE DEF c
  <2> QED BY <1>1, ModOn
<1>7. /\ a.items = s.items /\ a.write = On(r.write, c) /\ (a.full <=> s.full)
      /\ a.read = IF s.full THEN On(r.write, c) ELSE s.read
  <2> HIDE DEF c
  <2> QED BY <1>2, <1>4, <1>6 DEF Advance, Ring
<1>8. Laid(r.items, r.write, a.items, a.write, chunk)
  <2> HIDE DEF a
  <2> QED BY <1>1, <1>4, <1>7, OverwriteLaid
<1> HIDE DEF a, c
<1>9. a.full <=> RingLen(r) + c >= N
  BY <1>1, <1>5, <1>7, FullFrom
<1>10. a.read = IF a.full THEN a.write ELSE r.read
  BY <1>5, <1>7
<1>11. Unread(a) = Window!Newest(Unread(r) \o chunk)
  BY <1>1, <1>3, <1>7, <1>8, <1>9, <1>10, Grown DEF c
<1> QED BY <1>11 DEF a, s, c

-----------------------------------------------------------------------------
(* The methods that read.                                                  *)

(* The slices the methods form are what is unread, when there is anything. *)
LEMMA WrappedUnread ==
  ASSUME NEW r \in Ring, Sane(r), r.read >= r.write, RingLen(r) # 0
  PROVE  Wrapped(r) = Unread(r)
<1>1. Wrapped(r) \in Seq(Item) /\ Len(Wrapped(r)) = N - r.read + r.write
  BY WrappedType
<1>2. /\ Unread(r) \in Seq(Item) /\ Len(Unread(r)) = RingLen(r)
      /\ \A i \in 1 .. RingLen(r) : Unread(r)[i] = r.items[On(r.read, i - 1)]
  BY UnreadIs
<1>3. RingLen(r) = N - r.read + r.write /\ RingLen(r) \in Nat
  <2>1. RingLen(r) = IF r.full THEN N
                     ELSE IF r.read <= r.write THEN r.write - r.read
                     ELSE N - r.read + r.write
    BY LenOfSane
  <2>2. r.read \in Int /\ r.write \in Int /\ N \in Int /\ RingLen(r) \in Nat
    BY RingFields, RingAssumption, SaneLen
  <2> QED BY <2>1, <2>2 DEF Sane
<1>4. ASSUME NEW i \in 1 .. RingLen(r) PROVE Wrapped(r)[i] = Unread(r)[i]
  <2>1. Wrapped(r)[i] = r.items[On(r.read, i - 1)]
    BY <1>1, <1>3, WrappedAt DEF On
  <2> QED BY <1>2, <2>1
<1> QED BY <1>1, <1>2, <1>3, <1>4, SeqEqual

LEMMA SliceUnread ==
  ASSUME NEW r \in Ring, Sane(r), ~ (r.read >= r.write)
  PROVE  /\ Legal(r.read, r.write) /\ Slice(r.items, r.read, r.write) = Unread(r)
         /\ RingLen(r) = r.write - r.read /\ ~ r.full
<1>1. /\ r.read \in Int /\ r.write \in Int /\ 0 <= r.read /\ r.write < N /\ N \in Int
      /\ r.items \in [Slot -> Item]
  BY RingFields, RingAssumption DEF Sane
<1>2. Legal(r.read, r.write)
  BY <1>1 DEF Legal
<1>3. RingLen(r) = r.write - r.read /\ ~ r.full
  BY <1>1, LenOfSane DEF Sane
<1> DEFINE all == Slice(r.items, r.read, r.write)
<1>4. /\ all \in Seq(Item) /\ Len(all) = RingLen(r)
      /\ \A i \in 1 .. RingLen(r) : all[i] = r.items[r.read + i - 1]
  <2>1. /\ all \in Seq(Item) /\ Len(all) = r.write - r.read
        /\ \A i \in 1 .. r.write - r.read : all[i] = r.items[r.read + i - 1]
    BY <1>1, <1>2, SliceType
  <2> HIDE DEF all
  <2> QED BY <1>3, <2>1
<1>5. /\ Unread(r) \in Seq(Item) /\ Len(Unread(r)) = RingLen(r)
      /\ \A i \in 1 .. RingLen(r) : Unread(r)[i] = r.items[On(r.read, i - 1)]
  BY UnreadIs
<1> HIDE DEF all
<1>6. ASSUME NEW i \in 1 .. RingLen(r) PROVE all[i] = Unread(r)[i]
  <2>1. On(r.read, i - 1) = r.read + i - 1
    BY <1>1, <1>3 DEF On
  <2> QED BY <1>4, <1>5, <2>1
<1>7. all = Unread(r)
  BY <1>4, <1>5, <1>6, SeqEqual
<1> QED BY <1>2, <1>3, <1>7 DEF all

(* What a call that takes the first k unread items leaves and returns.     *)
TakesOut(r, k, o) ==
  /\ Unread(o.ring) = Window!Rest(Unread(r), k)
  /\ o.n = Len(Window!Front(Unread(r), k)) /\ o.items = Window!Front(Unread(r), k)
  /\ o.err = "nil"

LEMMA TakesNothing ==
  ASSUME NEW r \in Ring, Sane(r), NEW k \in Nat, k = 0 \/ RingLen(r) = 0
  PROVE  TakesOut(r, k, Outcome(r, 0, <<>>, "nil"))
<1>1. Unread(r) \in Seq(Item) /\ Len(Unread(r)) = RingLen(r) /\ RingLen(r) \in Nat
  <2>1. RingLen(r) \in Nat
    BY SaneLen, RingAssumption
  <2> QED BY <2>1, UnreadIs
<1>2. Window!Smaller(k, Len(Unread(r))) = 0
  BY <1>1 DEF Window!Smaller
<1>3. Window!Rest(Unread(r), k) = Unread(r) /\ Window!Front(Unread(r), k) = <<>>
  BY <1>1, <1>2 DEF Window!Rest, Window!Front
<1> QED BY <1>3 DEF TakesOut, Outcome

LEMMA TakesSome ==
  ASSUME NEW r \in Ring, Sane(r), NEW k \in Nat, NEW a \in Ring, NEW got,
         got = Window!Front(Unread(r), k), a.items = r.items, a.write = r.write,
         a.read = On(r.read, Len(got)), a.full <=> r.full /\ Len(got) = 0
  PROVE  TakesOut(r, k, Outcome(a, Len(got), got, "nil"))
<1>1. Unread(r) \in Seq(Item) /\ Len(Unread(r)) = RingLen(r) /\ RingLen(r) \in 0 .. N /\ N \in Nat
  BY UnreadIs, SaneLen, RingAssumption
<1>2. Len(got) = IF k < RingLen(r) THEN k ELSE RingLen(r)
  BY <1>1, FrontIs
<1>3. Len(got) \in 0 .. RingLen(r)
  BY <1>1, <1>2
<1>4. Unread(a) = Window!Rest(Unread(r), Len(got))
  BY <1>3, Shrunk
<1>5. Window!Rest(Unread(r), Len(got)) = Window!Rest(Unread(r), k)
  <2>1. Window!Smaller(Len(got), Len(Unread(r))) = Window!Smaller(k, Len(Unread(r)))
    BY <1>1, <1>2, <1>3 DEF Window!Smaller
  <2> QED BY <2>1 DEF Window!Rest
<1> QED BY <1>4, <1>5 DEF TakesOut, Outcome

LEMMA ReadWindow ==
  ASSUME NEW r \in Ring, Sane(r), NEW k \in Nat
  PROVE  TakesOut(r, k, RingRead(r, k))
<1>1. CASE k = 0 \/ RingLen(r) = 0
  BY <1>1, TakesNothing DEF RingRead
<1>2. CASE ~ (k = 0 \/ RingLen(r) = 0)
  <2> DEFINE got == Window!Front(Unread(r), k)
  <2>1. /\ Unread(r) \in Seq(Item) /\ Len(Unread(r)) = RingLen(r) /\ RingLen(r) \in 0 .. N
        /\ N \in Nat /\ r.read \in Slot /\ r.full \in BOOLEAN
    BY UnreadIs, SaneLen, RingAssumption, RingFields
  <2>2. Len(got) = IF k < RingLen(r) THEN k ELSE RingLen(r)
    BY <2>1, FrontIs
  <2>3. Len(got) \in 0 .. N /\ Len(got) \in Nat /\ Len(got) # 0 /\ Len(got) <= RingLen(r)
    <3> HIDE DEF got
    <3> QED BY <1>2, <2>1, <2>2
  <2>4. Prefix(Unread(r), k) = got
    BY DEF Prefix, Window!Front, Window!Smaller
  <2> HIDE DEF got
  <2>5. (r.read + Len(got)) % N = On(r.read, Len(got)) /\ On(r.read, Len(got)) \in Slot
    BY <2>1, <2>3, ModOn, OnType
  <2>6. CASE r.read >= r.write
    <3> DEFINE a == [r EXCEPT !.full = FALSE, !.read = (r.read + Len(got)) % N]
    <3>1. RingRead(r, k) = Outcome(a, Len(got), got, "nil")
      BY <1>2, <2>4, <2>6, WrappedUnread DEF RingRead
    <3>2. a \in Ring
      BY <2>5, SlotRange, WithRead
    <3>3. /\ a.items = r.items /\ a.write = r.write /\ a.read = On(r.read, Len(got))
          /\ a.full = FALSE
      BY <2>5 DEF Ring
    <3> HIDE DEF a
    <3> QED BY <2>3, <3>1, <3>2, <3>3, TakesSome DEF got
  <2>7. CASE ~ (r.read >= r.write)
    <3> DEFINE a == [r EXCEPT !.read = r.read + Len(got)]
    <3>1. Legal(r.read, r.write) /\ ~ r.full /\ RingLen(r) = r.write - r.read
      BY <2>7, SliceUnread
    <3>2. RingRead(r, k) = Outcome(a, Len(got), got, "nil")
      BY <1>2, <2>4, <2>7, SliceUnread DEF RingRead
    <3>3. r.read + Len(got) = On(r.read, Len(got))
      <4>1. r.write \in Nat /\ r.write < N /\ r.read \in Int /\ RingLen(r) \in Nat
        BY <2>1, RingFields
      <4>2. r.read + Len(got) < N
        BY <2>1, <2>3, <3>1, <4>1
      <4> QED BY <4>2 DEF On
    <3>4. a \in Ring
      BY <2>5, <3>3, SlotRange, WithRead
    <3>5. /\ a.items = r.items /\ a.write = r.write /\ a.read = On(r.read, Len(got))
          /\ a.full = r.full
      BY <3>3 DEF Ring
    <3> HIDE DEF a
    <3> QED BY <2>3, <3>1, <3>2, <3>4, <3>5, TakesSome DEF got
  <2> QED BY <2>6, <2>7
<1> QED BY <1>1, <1>2

LEMMA ReadItemWindow ==
  ASSUME NEW r \in Ring, Sane(r), RingLen(r) > 0
  PROVE  TakesOut(r, 1, RingReadItem(r))
<1>1. /\ Unread(r) \in Seq(Item) /\ Len(Unread(r)) = RingLen(r) /\ RingLen(r) \in 0 .. N
      /\ N \in Nat /\ r.read \in Slot /\ r.items \in [Slot -> Item] /\ 1 \in 0 .. N
      /\ \A i \in 1 .. RingLen(r) : Unread(r)[i] = r.items[On(r.read, i - 1)]
  BY UnreadIs, SaneLen, RingAssumption, RingFields
<1> DEFINE got == <<r.items[r.read]>>
           a == [r EXCEPT !.read = (r.read + 1) % N, !.full = FALSE]
<1>2. RingReadItem(r) = Outcome(a, 1, got, "nil")
  BY <1>1 DEF RingReadItem
<1>3. (r.read + 1) % N = On(r.read, 1) /\ On(r.read, 1) \in Slot
  BY <1>1, ModOn, OnType
<1>4. a \in Ring
  BY <1>3, SlotRange, WithRead
<1>5. a.items = r.items /\ a.write = r.write /\ a.read = On(r.read, 1) /\ a.full = FALSE
  BY <1>3 DEF Ring
<1>6. got = Window!Front(Unread(r), 1)
  <2> DEFINE front == Window!Front(Unread(r), 1)
  <2>1. /\ front \in Seq(Item) /\ Len(front) = IF 1 < RingLen(r) THEN 1 ELSE RingLen(r)
        /\ \A i \in 1 .. Len(front) : front[i] = Unread(r)[i]
    <3>1. 1 \in Nat
      OBVIOUS
    <3> QED BY <1>1, <3>1, FrontIs
  <2>5. Len(front) = 1
    <3> HIDE DEF front
    <3> QED BY <1>1, <2>1
  <2>2. got \in Seq(Item) /\ Len(got) = 1 /\ got[1] = Unread(r)[1]
    <3>1. Unread(r)[1] = r.items[r.read]
      <4>1. 1 \in 1 .. RingLen(r) /\ On(r.read, 1 - 1) = r.read
        BY <1>1, OnType
      <4> QED BY <1>1, <4>1
    <3> QED BY <1>1, <3>1
  <2> HIDE DEF front, got
  <2>3. \A i \in 1 .. Len(got) : got[i] = front[i]
    BY <2>1, <2>2, <2>5
  <2>4. got = front
    BY <2>1, <2>2, <2>3, <2>5, SeqEqual
  <2> QED BY <2>4 DEF front
<1>7. Len(got) = 1
  OBVIOUS
<1> HIDE DEF a, got
<1>8. /\ a.full <=> r.full /\ Len(got) = 0
      /\ a.read = On(r.read, Len(got)) /\ 1 \in Nat
  BY <1>5, <1>7
<1>9. TakesOut(r, 1, Outcome(a, Len(got), got, "nil"))
  BY <1>4, <1>5, <1>6, <1>8, TakesSome
<1> QED BY <1>2, <1>7, <1>9

(* Next of no more than what is unread.                                    *)
LEMMA NextWindow ==
  ASSUME NEW r \in Ring, Sane(r), NEW n \in Int, n <= RingLen(r)
  PROVE  TakesOut(r, IF n < 0 THEN 0 ELSE n, RingNext(r, n))
<1>1. CASE n <= 0
  BY <1>1, TakesNothing DEF RingNext
<1>2. CASE ~ (n <= 0)
  <2> DEFINE o == RingRead(r, n)
             padded == [i \in 1 .. n |-> IF i <= Len(o.items) THEN o.items[i] ELSE Zero]
  <2>1. n \in 1 .. RingLen(r) /\ n \in Nat /\ RingLen(r) \in Nat
    <3>1. RingLen(r) \in Nat
      BY SaneLen, RingAssumption
    <3> QED BY <1>2, <3>1
  <2>2. o \in OutcomeType /\ TakesOut(r, n, o)
    BY <2>1, RingReadType, ReadWindow
  <2>3. o.items \in Seq(Item) /\ Len(o.items) = n /\ o.err # "panic"
    BY <2>1, ReadFills
  <2>4. RingNext(r, n) = [o EXCEPT !.n = n, !.items = IF o.err = "panic" THEN @ ELSE padded]
    BY <1>2, <2>1 DEF RingNext
  <2> HIDE DEF o
  <2>5. padded = o.items
    BY <2>1, <2>3
  <2> HIDE DEF padded
  <2>6. /\ RingNext(r, n).ring = o.ring /\ RingNext(r, n).items = o.items
        /\ RingNext(r, n).n = n /\ RingNext(r, n).err = o.err
    BY <2>2, <2>3, <2>4, <2>5 DEF OutcomeType
  <2>7. n = Len(Window!Front(Unread(r), n))
    BY <2>2, <2>3 DEF TakesOut
  <2> QED BY <1>2, <2>2, <2>6, <2>7 DEF TakesOut
<1> QED BY <1>1, <1>2

(* Value, and Next of more, where the unread items are in one piece.       *)
LEMMA ValueWindow ==
  ASSUME NEW r \in Ring, Sane(r), Whole(r)
  PROVE  /\ Unread(RingValue(r).ring) \in {Unread(r), <<>>}
         /\ RingValue(r).n = Len(Unread(r)) /\ RingValue(r).items = Unread(r)
         /\ RingValue(r).err = "nil"
<1>1. /\ Unread(r) \in Seq(Item) /\ Len(Unread(r)) = RingLen(r) /\ RingLen(r) \in 0 .. N
      /\ N \in Nat /\ N > 0 /\ r.read \in Slot /\ r.write \in Slot /\ r.write = On(r.read, RingLen(r))
  BY UnreadIs, SaneLen, RingAssumption
<1>2. CASE r.read >= r.write
  <2>1. r.full /\ r.read = r.write /\ RingLen(r) = N
    <3>1. r.full
      BY <1>1, <1>2 DEF Whole, Slot
    <3> QED BY <3>1 DEF Sane, RingLen
  <2>2. Slice(r.items, r.read, N) \o Slice(r.items, 0, r.read) = Unread(r)
    <3>1. RingLen(r) # 0
      BY <1>1, <2>1
    <3>2. Wrapped(r) = Unread(r)
      BY <1>2, <3>1, WrappedUnread
    <3> QED BY <2>1, <3>2 DEF Wrapped
  <2> QED BY <1>1, <1>2, <2>1, <2>2 DEF RingValue, Outcome
<1>3. CASE ~ (r.read >= r.write)
  <2> DEFINE a == [r EXCEPT !.read = r.write]
  <2>1. /\ Legal(r.read, r.write) /\ Slice(r.items, r.read, r.write) = Unread(r) /\ ~ r.full
        /\ RingLen(r) = r.write - r.read
    BY <1>3, SliceUnread
  <2>2. RingValue(r) = Outcome(a, Len(Unread(r)), Unread(r), "nil")
    BY <1>3, <2>1 DEF RingValue
  <2>3. a \in Ring
    BY <1>1, SlotRange, WithRead
  <2>4. /\ a.items = r.items /\ a.write = r.write /\ a.read = On(r.read, RingLen(r))
        /\ a.full = r.full
    BY <1>1 DEF Ring
  <2> HIDE DEF a
  <2>5. RingLen(r) \in 0 .. RingLen(r) /\ RingLen(r) \in Nat
    BY <1>1
  <2>6. RingLen(r) # 0
    BY <1>1, <1>3, <2>1 DEF Slot
  <2>7. Unread(a) = SubSeq(Unread(r), RingLen(r) + 1, Len(Unread(r)))
    BY <2>1, <2>3, <2>4, <2>5, <2>6, Shrunk
  <2>8. Unread(a) = <<>>
    BY <1>1, <2>5, <2>7
  <2> QED BY <2>2, <2>8 DEF Outcome
<1> QED BY <1>2, <1>3

(* The items before a delimiter are the longest prefix free of them.       *)
LEMMA BeforeIs ==
  ASSUME NEW s \in Seq(Item), NEW delim
  PROVE  \E k \in 0 .. Len(s) :
           /\ Before(s, delim) = SubSeq(s, 1, k)
           /\ \A i \in 1 .. k : s[i] \notin delim
           /\ k < Len(s) => s[k + 1] \in delim
<1> DEFINE hits == {i \in 1 .. Len(s) : s[i] \in delim}
           first == CHOOSE i \in hits : \A j \in hits : i <= j
<1>1. CASE hits = {}
  <2>1. Before(s, delim) = SubSeq(s, 1, Len(s))
    BY <1>1 DEF Before
  <2> QED BY <1>1, <2>1
<1>2. CASE hits # {}
  <2>1. first \in hits /\ \A j \in hits : first <= j
    <3>1. hits \in SUBSET Nat
      OBVIOUS
    <3>2. \E i \in hits : \A j \in hits : i <= j
      BY <1>2, <3>1, LeastNatural
    <3> QED BY <3>2
  <2>2. Before(s, delim) = SubSeq(s, 1, first - 1)
    BY <1>2 DEF Before
  <2> HIDE DEF first
  <2>3. first \in 1 .. Len(s) /\ s[first] \in delim /\ first - 1 \in 0 .. Len(s)
    BY <2>1
  <2>4. ASSUME NEW i \in 1 .. first - 1 PROVE s[i] \notin delim
    <3>1. i \in 1 .. Len(s) /\ ~ (first <= i)
      BY <2>3
    <3> QED BY <2>1, <3>1
  <2>5. (first - 1) + 1 = first
    BY <2>3
  <2> QED BY <2>2, <2>3, <2>4, <2>5
<1> QED BY <1>1, <1>2

LEMMA ReadItemsWindow ==
  ASSUME NEW r \in Ring, Sane(r), NEW delim, RingLen(r) > 0, r.read < r.write => r.read = 0
  PROVE  \E k \in 0 .. Len(Unread(r)) :
           /\ \A i \in 1 .. k : Unread(r)[i] \notin delim
           /\ k < Len(Unread(r)) => Unread(r)[k + 1] \in delim
           /\ TakesOut(r, k, RingReadItems(r, delim))
<1> DEFINE q == Unread(r)
           all == IF r.read >= r.write THEN Wrapped(r) ELSE Slice(r.items, 0, r.write)
<1>1. /\ q \in Seq(Item) /\ Len(q) = RingLen(r) /\ RingLen(r) \in 0 .. N /\ N \in Nat
      /\ r.read \in Slot /\ r.read \in Int /\ r.write \in Int
  BY UnreadIs, SaneLen, RingAssumption, RingFields
<1>2. all = q
  <2>1. CASE r.read >= r.write
    BY <1>1, <2>1, WrappedUnread
  <2>2. CASE ~ (r.read >= r.write)
    BY <1>1, <2>2, SliceUnread
  <2> QED BY <2>1, <2>2
<1>3. RingReadItems(r, delim) =
        IF Before(q, delim) = <<>> THEN Outcome(r, 0, <<>>, "nil")
        ELSE Outcome([r EXCEPT !.read = GoMod(r.read + Len(Before(q, delim))), !.full = FALSE],
                     Len(Before(q, delim)), Before(q, delim), "nil")
  BY <1>2 DEF RingReadItems
<1> HIDE DEF q, all
<1>4. PICK k \in 0 .. Len(q) : /\ Before(q, delim) = SubSeq(q, 1, k)
                               /\ \A i \in 1 .. k : q[i] \notin delim
                               /\ k < Len(q) => q[k + 1] \in delim
  BY <1>1, BeforeIs
<1> DEFINE got == Before(q, delim)
<1>5. /\ got = Window!Front(q, k) /\ Len(got) = k /\ k \in Nat /\ k \in 0 .. N
      /\ got = <<>> <=> k = 0
  <2>1. k \in Nat /\ k <= Len(q) /\ k \in 0 .. N /\ k \in 0 .. Len(q)
    BY <1>1, <1>4
  <2>2. Window!Smaller(k, Len(q)) = k
    BY <1>1, <2>1 DEF Window!Smaller
  <2>3. got = SubSeq(q, 1, k) /\ SubSeq(q, 1, k) \in Seq(Item) /\ Len(SubSeq(q, 1, k)) = k
    BY <1>1, <1>4, <2>1
  <2> HIDE DEF got
  <2> QED BY <2>1, <2>2, <2>3, EmptySeq DEF Window!Front
<1> HIDE DEF got
<1>6. CASE k = 0
  <2>1. RingReadItems(r, delim) = Outcome(r, 0, <<>>, "nil")
    BY <1>3, <1>5, <1>6 DEF got
  <2> QED BY <1>4, <1>6, <2>1, TakesNothing DEF q
<1>7. CASE k # 0
  <2> DEFINE a == [r EXCEPT !.read = GoMod(r.read + k), !.full = FALSE]
  <2>1. RingReadItems(r, delim) = Outcome(a, Len(got), got, "nil")
    BY <1>3, <1>5, <1>7 DEF got
  <2>2. GoMod(r.read + k) = On(r.read, k) /\ On(r.read, k) \in Slot
    <3>1. (r.read + k) % N = On(r.read, k)
      BY <1>1, <1>5, ModOn
    <3>2. r.read + k >= 0
      BY <1>1, <1>5 DEF Slot
    <3> QED BY <1>1, <1>5, <3>1, <3>2, OnType DEF GoMod
  <2>3. a \in Ring
    BY <2>2, SlotRange, WithRead
  <2>4. /\ a.items = r.items /\ a.write = r.write /\ a.read = On(r.read, k) /\ a.full = FALSE
    BY <2>2 DEF Ring
  <2> HIDE DEF a
  <2>5. /\ a.read = On(r.read, Len(got)) /\ got = Window!Front(Unread(r), k)
        /\ a.full <=> r.full /\ Len(got) = 0
    BY <1>5, <1>7, <2>4 DEF q
  <2>6. TakesOut(r, k, Outcome(a, Len(got), got, "nil"))
    BY <1>5, <2>3, <2>4, <2>5, TakesSome
  <2> QED BY <1>4, <2>1, <2>6 DEF q
<1> QED BY <1>6, <1>7

-----------------------------------------------------------------------------
(* The methods that move the read index back, or clear.                    *)

(* The step back uncovers the item in the slot before.                     *)
LEMMA UnreadItemWindow ==
  ASSUME NEW r \in Ring, Sane(r), ~ r.full, r.read > 0, RingLen(r) + 1 < N
  PROVE  /\ Unread(RingUnreadItem(r).ring) = <<r.items[r.read - 1]>> \o Unread(r)
         /\ RingUnreadItem(r).n = 0 /\ RingUnreadItem(r).items = <<>>
         /\ RingUnreadItem(r).err = "nil"
<1> DEFINE a == [r EXCEPT !.read = GoMod(r.read - 1)]
           q == Unread(r)
           x == r.items[r.read - 1]
           one == <<x>>
           back == one \o q
<1>1. /\ r.read \in Slot /\ r.write \in Slot /\ RingLen(r) \in 0 .. N /\ N \in Nat
      /\ r.write = On(r.read, RingLen(r)) /\ RingLen(r) \in Nat /\ r.read - 1 \in Slot
      /\ r.items \in [Slot -> Item]
  BY SaneLen, RingFields, RingAssumption DEF Slot
<1>2. RingUnreadItem(r) = Outcome(a, 0, <<>>, "nil")
  BY DEF RingUnreadItem
<1>3. GoMod(r.read - 1) = r.read - 1
  <2>1. (r.read - 1) % N = r.read - 1
    BY <1>1, ModOnce
  <2> QED BY <1>1, <2>1 DEF GoMod, Slot
<1>4. a \in Ring
  BY <1>1, <1>3, SlotRange, WithRead
<1>5. /\ a.items = r.items /\ a.write = r.write /\ a.read = r.read - 1 /\ (a.full <=> r.full)
  BY <1>3 DEF Ring
<1> HIDE DEF a
<1>6. Sane(a)
  BY <1>1, <1>5 DEF Sane, Slot
<1>7. RingLen(a) = RingLen(r) + 1
  <2>1. RingLen(r) + 1 \in 0 .. N /\ RingLen(r) + 1 # N
    BY <1>1
  <2>2. a.write = On(a.read, RingLen(r) + 1)
    BY <1>1, <1>5 DEF On, Slot
  <2> QED BY <1>4, <1>5, <1>6, <2>1, <2>2, LenSane
<1>8. q \in Seq(Item) /\ Len(q) = RingLen(r) /\ Ends(r.items, r.write, q)
  BY UnreadIs, UnreadEnds
<1> HIDE DEF q
<1>9. x \in Item /\ one \in Seq(Item) /\ Len(one) = 1 /\ one[1] = x
  BY <1>1
<1> HIDE DEF x, one
<1>10. /\ back \in Seq(Item) /\ Len(back) = RingLen(r) + 1
       /\ \A i \in 1 .. RingLen(r) + 1 : back[i] = IF i <= 1 THEN x ELSE q[i - 1]
  <2>1. /\ back \in Seq(Item) /\ Len(back) = Len(one) + Len(q)
        /\ \A i \in 1 .. Len(one) + Len(q) :
             back[i] = IF i <= Len(one) THEN one[i] ELSE q[i - Len(one)]
    BY <1>8, <1>9, ConcatProperties
  <2> HIDE DEF back
  <2>2. Len(back) = RingLen(r) + 1
    BY <1>1, <1>8, <1>9, <2>1
  <2>3. ASSUME NEW i \in 1 .. RingLen(r) + 1
        PROVE  back[i] = IF i <= 1 THEN x ELSE q[i - 1]
    BY <1>1, <1>8, <1>9, <2>1
  <2> QED BY <2>1, <2>2, <2>3
<1> HIDE DEF back
<1>11. ASSUME NEW d \in 1 .. Len(back)
       PROVE  a.items[Back(a.write, d)] = back[Len(back) - d + 1]
  <2>1. CASE d = RingLen(r) + 1
    <3>1. Back(r.write, d) = r.read - 1
      <4>1. r.read > 0
        OBVIOUS
      <4>2. CASE r.read + RingLen(r) < N
        BY <1>1, <2>1, <4>1, <4>2 DEF Back, On, Slot
      <4>3. CASE ~ (r.read + RingLen(r) < N)
        <5>1. r.write = r.read + RingLen(r) - N /\ ~ (d <= r.write)
          BY <1>1, <2>1, <4>3 DEF On, Slot
        <5>2. Back(r.write, d) = r.write - d + N
          BY <5>1 DEF Back
        <5>3. r.read \in Int /\ RingLen(r) \in Int /\ N \in Int
          BY <1>1 DEF Slot
        <5> QED BY <2>1, <5>1, <5>2, <5>3
      <4> QED BY <4>2, <4>3
    <3>2. 1 \in 1 .. RingLen(r) + 1
      BY <1>1
    <3>3. Len(back) - d + 1 = 1
      BY <1>1, <1>10, <2>1
    <3>4. back[1] = x
      BY <1>10, <3>2
    <3>5. r.items[Back(r.write, d)] = x
      BY <3>1 DEF x
    <3> QED BY <1>5, <3>3, <3>4, <3>5
  <2>2. CASE d # RingLen(r) + 1
    <3>1. /\ d \in 1 .. RingLen(r) /\ Len(back) - d + 1 \in 1 .. RingLen(r) + 1
          /\ ~ (Len(back) - d + 1 <= 1) /\ (Len(back) - d + 1) - 1 = RingLen(r) - d + 1
      BY <1>1, <1>10, <2>2
    <3>2. r.items[Back(r.write, d)] = q[RingLen(r) - d + 1]
      BY <1>8, <3>1 DEF Ends
    <3> DEFINE i == Len(back) - d + 1
    <3>3. back[i] = q[RingLen(r) - d + 1]
      <4> HIDE DEF i
      <4> QED BY <1>10, <3>1 DEF i
    <3> QED BY <1>5, <3>2, <3>3
  <2> QED BY <2>1, <2>2
<1>12. Unread(a) = back
  BY <1>4, <1>6, <1>7, <1>10, <1>11, EndsUnread DEF Ends
<1>13. RingUnreadItem(r).ring = a
  BY <1>2 DEF Outcome
<1> QED BY <1>2, <1>12, <1>13 DEF Outcome, back, one, x, q

LEMMA SeekWindow ==
  ASSUME NEW r \in Ring, Sane(r), NEW offset \in Int, NEW whence \in {"start", "current", "end"},
         ~ r.full,
         IF whence = "end" THEN offset \in -RingLen(r) .. 0 /\ r.write + offset >= 0
         ELSE offset \in 0 .. RingLen(r)
  PROVE  /\ Unread(RingSeek(r, offset, whence).ring)
              = Window!Rest(Unread(r), IF whence = "end" THEN RingLen(r) + offset ELSE offset)
         /\ RingSeek(r, offset, whence).n \in 0 .. N - 1
         /\ RingSeek(r, offset, whence).items = <<>> /\ RingSeek(r, offset, whence).err = "nil"
<1> DEFINE k == IF whence = "end" THEN RingLen(r) + offset ELSE offset
           at == IF whence = "end" THEN GoMod(r.write + offset) ELSE GoMod(r.read + offset)
           a == [r EXCEPT !.read = at]
<1>1. /\ r.read \in Slot /\ r.write \in Slot /\ RingLen(r) \in 0 .. N /\ N \in Nat /\ RingLen(r) \in Nat
      /\ r.write = On(r.read, RingLen(r)) /\ N > 0
  BY SaneLen, RingAssumption
<1>2. k \in 0 .. RingLen(r) /\ k \in 0 .. N
  BY <1>1
<1>3. at = On(r.read, k) /\ On(r.read, k) \in Slot
  <2>1. CASE whence = "end"
    <3>1. r.write + offset \in Slot /\ r.write + offset >= 0
      BY <1>1, <2>1 DEF Slot
    <3>2. GoMod(r.write + offset) = r.write + offset
      <4>1. (r.write + offset) % N = r.write + offset
        BY <3>1, ModOnce
      <4> QED BY <3>1, <4>1 DEF GoMod
    <3>3. On(r.read, RingLen(r) + offset) = r.write + offset
      BY <1>1, <2>1, <3>1 DEF On, Slot
    <3> QED BY <2>1, <3>1, <3>2, <3>3
  <2>2. CASE whence # "end"
    <3>1. (r.read + offset) % N = On(r.read, offset)
      BY <1>1, <1>2, <2>2, ModOn
    <3>2. r.read + offset >= 0
      BY <1>1, <1>2, <2>2 DEF Slot
    <3> QED BY <1>1, <1>2, <2>2, <3>1, <3>2, OnType DEF GoMod
  <2> QED BY <2>1, <2>2
<1>4. RingSeek(r, offset, whence) = Outcome(a, at, <<>>, "nil")
  <2>1. CASE whence = "end"
    BY <2>1 DEF RingSeek
  <2>2. CASE whence \in {"start", "current"}
    BY <2>2 DEF RingSeek
  <2> QED BY <2>1, <2>2
<1> HIDE DEF at, k
<1>5. a \in Ring
  BY <1>3, SlotRange, WithRead
<1>6. a.items = r.items /\ a.write = r.write /\ a.read = On(r.read, k) /\ (a.full <=> r.full)
  BY <1>3 DEF Ring
<1> HIDE DEF a
<1>7. Unread(a) = Window!Rest(Unread(r), k)
  BY <1>2, <1>5, <1>6, Shrunk
<1> QED BY <1>3, <1>4, <1>7 DEF Outcome, Slot, k

(* Reset leaves nothing unread.                                            *)
LEMMA ResetWindow ==
  ASSUME NEW r \in Ring PROVE Unread(RingReset(r)) = <<>>
<1>1. RingReset(r).full = FALSE /\ RingReset(r).write = 0 /\ RingReset(r).read = 0
  BY DEF RingReset, Ring
<1>2. RingReset(r) \in Ring
  BY RingResetType
<1> HIDE DEF RingReset
<1>3. Sane(RingReset(r))
  BY <1>1 DEF Sane
<1>4. RingLen(RingReset(r)) = 0
  BY <1>1, <1>2, <1>3, LenOfSane
<1>5. Unread(RingReset(r)) \in Seq(Item) /\ Len(Unread(RingReset(r))) = 0
  BY <1>2, <1>3, <1>4, UnreadIs
<1> QED BY <1>5, EmptySeq

LEMMA TruncateWindow ==
  ASSUME NEW r \in Ring, Sane(r), NEW n \in Int, n \in 1 .. RingLen(r) => r.read + n <= N
  PROVE  /\ Unread(RingTruncate(r, n).ring) =
              IF n \in 1 .. Len(Unread(r))
              THEN [i \in 1 .. Len(Unread(r)) |-> IF i <= n THEN Zero ELSE Unread(r)[i]]
              ELSE <<>>
         /\ RingTruncate(r, n).n = 0 /\ RingTruncate(r, n).items = <<>>
         /\ RingTruncate(r, n).err = "nil"
<1> DEFINE q == Unread(r)
           f == [j \in Slot |-> IF r.read <= j /\ j < r.read + n THEN Zero ELSE r.items[j]]
           a == [r EXCEPT !.items = f]
           blank == [i \in 1 .. Len(q) |-> IF i <= n THEN Zero ELSE q[i]]
<1>1. /\ r.read \in Slot /\ RingLen(r) \in 0 .. N /\ RingLen(r) \in Nat /\ N \in Nat
      /\ r.items \in [Slot -> Item] /\ Zero \in Item /\ r.read \in Nat
  BY SaneLen, RingFields, RingAssumption DEF Sane
<1>2. /\ q \in Seq(Item) /\ Len(q) = RingLen(r)
      /\ \A i \in 1 .. RingLen(r) : q[i] = r.items[On(r.read, i - 1)]
  BY UnreadIs
<1> HIDE DEF q
<1>3. CASE ~ (n \in 1 .. RingLen(r))
  <2>1. n <= 0 \/ n > RingLen(r)
    BY <1>1, <1>3
  <2>2. RingTruncate(r, n) = Outcome(RingReset(r), 0, <<>>, "nil")
    BY <2>1 DEF RingTruncate
  <2> QED BY <1>2, <1>3, <2>2, ResetWindow DEF Outcome, q
<1>4. CASE n \in 1 .. RingLen(r)
  <2>1. Legal(r.read, r.read + n) /\ ~ (n <= 0 \/ n > RingLen(r))
    BY <1>1, <1>4 DEF Legal
  <2>2. RingTruncate(r, n) = Outcome(a, 0, <<>>, "nil")
    BY <2>1 DEF RingTruncate, RingClear
  <2>3. f \in [Slot -> Item]
    BY <1>1
  <2>4. /\ a \in Ring /\ a.items = f /\ a.read = r.read /\ a.write = r.write
        /\ (a.full <=> r.full)
    <3> HIDE DEF f
    <3>1. a \in Ring
      BY <2>3, WithItems
    <3> QED BY <3>1 DEF Ring
  <2>5. Sane(a) /\ RingLen(a) = RingLen(r)
    <3> HIDE DEF a
    <3> QED BY <2>4 DEF Sane, RingLen
  <2>6. /\ Unread(a) \in Seq(Item) /\ Len(Unread(a)) = RingLen(r)
        /\ \A i \in 1 .. RingLen(r) : Unread(a)[i] = f[On(r.read, i - 1)]
    <3> HIDE DEF a, f
    <3> QED BY <2>4, <2>5, UnreadIs
  <2> HIDE DEF a
  <2>7. blank \in Seq(Item) /\ Len(blank) = RingLen(r)
    BY <1>1, <1>2
  <2>8. ASSUME NEW i \in 1 .. RingLen(r) PROVE Unread(a)[i] = blank[i]
    <3>1. /\ On(r.read, i - 1) \in Slot
          /\ i <= n <=> r.read <= On(r.read, i - 1) /\ On(r.read, i - 1) < r.read + n
      BY <1>1, <1>4 DEF On, Slot
    <3> DEFINE j == On(r.read, i - 1)
    <3>2. f[j] = IF i <= n THEN Zero ELSE r.items[j]
      <4> HIDE DEF j
      <4> QED BY <3>1 DEF j
    <3>3. blank[i] = IF i <= n THEN Zero ELSE q[i]
      BY <1>2
    <3> HIDE DEF f, blank
    <3> QED BY <1>2, <2>6, <3>2, <3>3
  <2> HIDE DEF blank
  <2>9. Unread(a) = blank
    BY <2>6, <2>7, <2>8, SeqEqual
  <2> QED BY <1>2, <1>4, <2>2, <2>9 DEF Outcome, blank, q
<1> QED BY <1>3, <1>4

-----------------------------------------------------------------------------
(* Calls that finish at once.                                              *)

(* The invariant of the refinement: n counts the items moved, and a        *)
(* WriteTo that is sending the tail has something to send.                 *)
Counted ==
  /\ stream.n = Len(stream.moved)
  /\ stream.op = "WriteToTail" => RingLen(ring) > 0

WindowInv == KeepInv /\ Counted

LEMMA InvFacts ==
  ASSUME WindowInv
  PROVE  /\ ring \in Ring /\ Sane(ring) /\ Unread(ring) \in Seq(Item)
         /\ Len(Unread(ring)) = RingLen(ring) /\ RingLen(ring) \in 0 .. N
         /\ RingLen(ring) \in Nat /\ N \in Nat /\ N > 0
<1>1. ring \in Ring /\ Sane(ring)
  BY SaneRing DEF WindowInv, KeepInv, TypeOK
<1> QED BY <1>1, UnreadIs, SaneLen, RingAssumption

LEMMA SameCalled ==
  /\ \A op : Window!Called(op) = Called(op)
  /\ \A op, k : Window!With(op, k) = With(op, k)
  /\ Window!NoResult = NoResult
BY DEF Window!Called, Called, Window!With, With, Window!NoResult, NoResult

LEMMA Idle ==
  ASSUME NEW call, NEW o, Do(call, o)
  PROVE  /\ Unread(ring)' = Unread(o.ring) /\ Window!Return(call, o.n, o.items, o.err)
         /\ [op |-> StreamOp(stream.op), moved |-> stream.moved].op = "none"
         /\ UNCHANGED [op |-> StreamOp(stream.op), moved |-> stream.moved]
         /\ Counted'
<1>1. /\ ring' = o.ring /\ stream = NoStream /\ stream' = stream
      /\ result' = [call EXCEPT !.n = o.n, !.items = o.items, !.err = o.err]
  BY DEF Do
<1>2. Unread(ring)' = Unread(o.ring)
  BY <1>1 DEF Unread, RingLen
<1>3. Counted'
  BY <1>1 DEF Counted, NoStream
<1>4. StreamOp(stream.op) = "none" /\ UNCHANGED [op |-> StreamOp(stream.op), moved |-> stream.moved]
  BY <1>1 DEF StreamOp, NoStream
<1> QED BY <1>1, <1>2, <1>3, <1>4 DEF Window!Return

LEMMA TakeStep ==
  ASSUME NEW call, NEW o, Do(call, o), NEW k, TakesOut(ring, k, o)
  PROVE  Window!Take(call, k)
BY Idle DEF Window!Take, TakesOut

LEMMA WriteStep ==
  ASSUME WindowInv, NEW p \in Input, FitsWrite(p), Write(p) PROVE Window!Write(p)
<1> DEFINE call == [Called("Write") EXCEPT !.given = p]
<1>1. p \in Seq(Item)
  BY CallAssumption
<1>2. /\ Unread(RingWrite(ring, p).ring) = Window!Newest(Unread(ring) \o p)
      /\ RingWrite(ring, p).n = Window!Smaller(Len(p), N)
      /\ RingWrite(ring, p).items = <<>> /\ RingWrite(ring, p).err = "nil"
  BY <1>1, InvFacts, WriteWindow DEF FitsWrite
<1>3. Do(call, RingWrite(ring, p))
  BY DEF Write
<1>4. call = [Window!Called("Write") EXCEPT !.given = p]
  BY SameCalled
<1> HIDE DEF call
<1> QED BY <1>2, <1>3, <1>4, Idle DEF Window!Write

LEMMA WriteItemStep ==
  ASSUME WindowInv, NEW x \in Item, WriteItem(x) PROVE Window!WriteItem(x)
<1> DEFINE call == [Called("WriteItem") EXCEPT !.given = <<x>>]
<1>1. Unread(RingWriteItem(ring, x).ring) = Window!Newest(Append(Unread(ring), x))
  BY InvFacts, WriteItemWindow
<1>2. /\ RingWriteItem(ring, x).n = 0 /\ RingWriteItem(ring, x).items = <<>>
      /\ RingWriteItem(ring, x).err = "nil"
  BY DEF RingWriteItem, Outcome
<1>3. Do(call, RingWriteItem(ring, x))
  BY DEF WriteItem
<1>4. call = [Window!Called("WriteItem") EXCEPT !.given = <<x>>]
  BY SameCalled
<1> HIDE DEF call
<1> QED BY <1>1, <1>2, <1>3, <1>4, Idle DEF Window!WriteItem

LEMMA ReadStep ==
  ASSUME WindowInv, NEW k \in Count, Read(k)
  PROVE  k >= 0 /\ Window!Take(Window!With("Read", k), k)
<1>1. k \in Nat
  BY CallAssumption DEF Read
<1>2. TakesOut(ring, k, RingRead(ring, k)) /\ Do(With("Read", k), RingRead(ring, k))
  BY <1>1, InvFacts, ReadWindow DEF Read
<1> QED BY <1>1, <1>2, TakeStep, SameCalled

LEMMA ReadItemStep ==
  ASSUME WindowInv, RingLen(ring) > 0, ReadItem
  PROVE  Unread(ring) # <<>> /\ Window!Take(Window!Called("ReadItem"), 1)
<1>1. TakesOut(ring, 1, RingReadItem(ring)) /\ Do(Called("ReadItem"), RingReadItem(ring))
  BY InvFacts, ReadItemWindow DEF ReadItem
<1>2. Unread(ring) # <<>>
  BY InvFacts, EmptySeq
<1> QED BY <1>1, <1>2, TakeStep, SameCalled

LEMMA ReadItemsStep ==
  ASSUME WindowInv, NEW delim, FitsReadItems, ReadItems(delim)
  PROVE  Window!TakeUntil(delim)
<1> DEFINE call == [Called("ReadItems") EXCEPT !.delim = delim]
<1>1. Do(call, RingReadItems(ring, delim))
  BY DEF ReadItems
<1>2. call = [Window!Called("ReadItems") EXCEPT !.delim = delim]
  BY SameCalled
<1> HIDE DEF call
<1>3. PICK k \in 0 .. Len(Unread(ring)) :
           /\ \A i \in 1 .. k : Unread(ring)[i] \notin delim
           /\ k < Len(Unread(ring)) => Unread(ring)[k + 1] \in delim
           /\ TakesOut(ring, k, RingReadItems(ring, delim))
  BY InvFacts, ReadItemsWindow DEF FitsReadItems
<1>4. Window!Take(call, k)
  BY <1>1, <1>3, TakeStep
<1> QED BY <1>2, <1>3, <1>4 DEF Window!TakeUntil

LEMMA PeekStep ==
  ASSUME WindowInv, NEW call, Do(call, RingValue(ring)), Whole(ring)
  PROVE  Window!Peek(call)
<1>1. /\ Unread(RingValue(ring).ring) \in {Unread(ring), <<>>}
      /\ RingValue(ring).n = Len(Unread(ring)) /\ RingValue(ring).items = Unread(ring)
      /\ RingValue(ring).err = "nil"
  BY InvFacts, ValueWindow
<1> QED BY <1>1, Idle DEF Window!Peek

LEMMA NextStep ==
  ASSUME WindowInv, NEW k \in Count, FitsNext(k), NextItems(k)
  PROVE  \/ /\ k <= Len(Unread(ring))
            /\ Window!Take(Window!With("Next", k), IF k < 0 THEN 0 ELSE k)
         \/ k > Len(Unread(ring)) /\ Window!Peek(Window!With("Next", k))
<1>1. k \in Int /\ Do(With("Next", k), RingNext(ring, k))
  BY CallAssumption DEF NextItems
<1>2. CASE k <= RingLen(ring)
  <2>1. TakesOut(ring, IF k < 0 THEN 0 ELSE k, RingNext(ring, k))
    BY <1>1, <1>2, InvFacts, NextWindow
  <2> QED BY <1>1, <1>2, <2>1, InvFacts, TakeStep, SameCalled
<1>3. CASE ~ (k <= RingLen(ring))
  <2>1. k > RingLen(ring) /\ ~ (k <= 0)
    BY <1>1, <1>3, InvFacts
  <2>2. RingNext(ring, k) = RingValue(ring)
    BY <2>1 DEF RingNext
  <2> QED BY <1>1, <2>1, <2>2, InvFacts, PeekStep, SameCalled DEF FitsNext
<1> QED BY <1>2, <1>3

LEMMA UnreadItemStep ==
  ASSUME WindowInv, FitsUnreadItem, UnreadItem
  PROVE  Window!Untake \/ Window!Refuse(Window!Called("UnreadItem"), "unread")
<1>1. Do(Called("UnreadItem"), RingUnreadItem(ring))
  BY DEF UnreadItem
<1>2. CASE ring.full
  <2>1. RingUnreadItem(ring) = Outcome(ring, 0, <<>>, "unread")
    BY <1>2 DEF RingUnreadItem
  <2>2. Window!Refuse(Called("UnreadItem"), "unread")
    BY <1>1, <2>1, Idle DEF Window!Refuse, Outcome
  <2> QED BY <2>2, SameCalled
<1>3. CASE ~ ring.full
  <2>1. /\ result.op \in TakingOps /\ result.items # <<>> /\ ring.read > 0
        /\ RingLen(ring) + 1 < N
    BY <1>3 DEF FitsUnreadItem
  <2>2. ring.items[ring.read - 1] = result.items[Len(result.items)]
    BY <1>3 DEF WindowInv, KeepInv, Consistent, LastTakenIsBehind
  <2>3. /\ Unread(RingUnreadItem(ring).ring) = <<ring.items[ring.read - 1]>> \o Unread(ring)
        /\ RingUnreadItem(ring).n = 0 /\ RingUnreadItem(ring).items = <<>>
        /\ RingUnreadItem(ring).err = "nil"
    BY <1>3, <2>1, InvFacts, UnreadItemWindow
  <2>4. Window!Untake
    BY <1>1, <2>1, <2>2, <2>3, Idle, SameCalled DEF Window!Untake, TakingOps
  <2> QED BY <2>4
<1> QED BY <1>2, <1>3

LEMMA SeekStep ==
  ASSUME WindowInv, NEW offset \in Offset, NEW whence \in {"start", "current", "end", "bad"},
         FitsSeek(offset, whence), Seek(offset, whence)
  PROVE  Window!Skip(offset) \/ Window!Refuse(Window!With("Seek", offset), "whence")
<1> DEFINE o == RingSeek(ring, offset, whence)
           k == IF whence = "end" THEN RingLen(ring) + offset ELSE offset
<1>1. Do(With("Seek", offset), o) /\ offset \in Int
  BY CallAssumption DEF Seek
<1>2. CASE whence = "bad"
  <2>1. o = Outcome(ring, 0, <<>>, "whence")
    BY <1>2 DEF RingSeek
  <2>2. Window!Refuse(With("Seek", offset), "whence")
    BY <1>1, <2>1, Idle DEF Window!Refuse, Outcome
  <2> QED BY <2>2, SameCalled
<1>3. CASE whence # "bad"
  <2>1. /\ ~ ring.full /\ whence \in {"start", "current", "end"}
        /\ IF whence = "end" THEN offset \in -RingLen(ring) .. 0 /\ ring.write + offset >= 0
           ELSE offset \in 0 .. RingLen(ring)
    BY <1>3 DEF FitsSeek
  <2>2. /\ Unread(o.ring) = Window!Rest(Unread(ring), k)
        /\ o.n \in 0 .. N - 1 /\ o.items = <<>> /\ o.err = "nil"
    BY <1>1, <2>1, InvFacts, SeekWindow
  <2> HIDE DEF o
  <2>3. \/ offset \in 0 .. Len(Unread(ring)) /\ k = offset
        \/ -offset \in 0 .. Len(Unread(ring)) /\ k = Len(Unread(ring)) + offset
    BY <1>1, <2>1, InvFacts
  <2> HIDE DEF k
  <2>4. Window!Return(With("Seek", offset), o.n, <<>>, "nil") /\ Unread(ring)' = Window!Rest(Unread(ring), k)
    BY <1>1, <2>2, Idle
  <2>5. Window!Skip(offset)
    BY <2>2, <2>3, <2>4, SameCalled DEF Window!Skip
  <2> QED BY <2>5
<1> QED BY <1>2, <1>3

LEMMA TruncateStep ==
  ASSUME WindowInv, NEW k \in Count, FitsTruncate(k), Truncate(k) PROVE Window!Truncate(k)
<1>1. k \in Int /\ Do(With("Truncate", k), RingTruncate(ring, k))
  BY CallAssumption DEF Truncate
<1>2. /\ Unread(RingTruncate(ring, k).ring) =
           IF k \in 1 .. Len(Unread(ring))
           THEN [i \in 1 .. Len(Unread(ring)) |-> IF i <= k THEN Zero ELSE Unread(ring)[i]]
           ELSE <<>>
      /\ RingTruncate(ring, k).n = 0 /\ RingTruncate(ring, k).items = <<>>
      /\ RingTruncate(ring, k).err = "nil"
  BY <1>1, InvFacts, TruncateWindow DEF FitsTruncate
<1> QED BY <1>1, <1>2, Idle, SameCalled DEF Window!Truncate

LEMMA ResetStep == ASSUME WindowInv, Reset PROVE Window!Reset
<1> DEFINE o == Outcome(RingReset(ring), 0, <<>>, "nil")
<1>1. Do(Called("Reset"), o) /\ Unread(o.ring) = <<>>
  BY InvFacts, ResetWindow DEF Reset, Outcome
<1>2. o.n = 0 /\ o.items = <<>> /\ o.err = "nil"
  BY DEF Outcome
<1> HIDE DEF o
<1> QED BY <1>1, <1>2, Idle, SameCalled DEF Window!Reset

(* The calls of the contract that finish at once, apart from the streams.  *)
Calling ==
  \/ \E p \in Input : FitsWrite(p) /\ Write(p)
  \/ \E x \in Item : WriteItem(x)
  \/ \E k \in Count : \/ Read(k)
                      \/ FitsNext(k) /\ NextItems(k)
                      \/ FitsTruncate(k) /\ Truncate(k)
  \/ RingLen(ring) > 0 /\ ReadItem
  \/ \E delim \in Delim : FitsReadItems /\ ReadItems(delim)
  \/ Whole(ring) /\ Value
  \/ FitsUnreadItem /\ UnreadItem
  \/ \E offset \in Offset, whence \in {"start", "current", "end", "bad"} :
       FitsSeek(offset, whence) /\ Seek(offset, whence)
  \/ Reset

LEMMA CallingStep == ASSUME WindowInv, Calling PROVE Window!Call /\ Counted'
<1>1. PICK call, o : Do(call, o)
  BY DEF Calling, Write, WriteItem, Read, NextItems, Truncate, ReadItem, ReadItems, Value,
     UnreadItem, Seek, Reset
<1>2. /\ [op |-> StreamOp(stream.op), moved |-> stream.moved].op = "none"
      /\ UNCHANGED [op |-> StreamOp(stream.op), moved |-> stream.moved]
      /\ Counted'
  BY <1>1, Idle
<1>3. Whole(ring) /\ Value => Window!Peek(Window!Called("Value"))
  BY PeekStep, SameCalled DEF Value
<1>4. \/ \E p \in Input : Window!Write(p)
      \/ \E x \in Item : Window!WriteItem(x)
      \/ \E k \in Count \cup Offset :
           \/ k >= 0 /\ Window!Take(Window!With("Read", k), k)
           \/ k <= Len(Unread(ring)) /\ Window!Take(Window!With("Next", k), IF k < 0 THEN 0 ELSE k)
           \/ k > Len(Unread(ring)) /\ Window!Peek(Window!With("Next", k))
           \/ Window!Skip(k)
           \/ Window!Truncate(k)
           \/ Window!Refuse(Window!With("Seek", k), "whence")
      \/ Unread(ring) # <<>> /\ Window!Take(Window!Called("ReadItem"), 1)
      \/ Window!Peek(Window!Called("Value"))
      \/ \E delim \in Delim : Window!TakeUntil(delim)
      \/ Window!Untake
      \/ Window!Refuse(Window!Called("UnreadItem"), "unread")
      \/ Window!Reset
  BY <1>3, WriteStep, WriteItemStep, ReadStep, NextStep, TruncateStep, ReadItemStep,
     ReadItemsStep, UnreadItemStep, SeekStep, ResetStep DEF Calling
<1> QED BY <1>2, <1>4 DEF Window!Call

-----------------------------------------------------------------------------
(* Streaming calls.                                                        *)

LEMMA BeginStep ==
  ASSUME NEW op \in {"ReadFrom", "WriteToTail", "WriteToHead"}, NEW length,
         Begin(op, length), op = "WriteToTail" => RingLen(ring) > 0
  PROVE  Window!Begin(StreamOp(op)) /\ Counted'
<1>1. /\ stream = NoStream /\ stream'.op = op /\ stream'.moved = <<>> /\ stream'.n = 0
      /\ result' = NoResult /\ ring' = ring
  BY DEF Begin, NoStream
<1>2. Unread(ring)' = Unread(ring) /\ Counted'
  <2>1. Len(<<>>) = 0
    OBVIOUS
  <2> QED BY <1>1, <2>1 DEF Unread, RingLen, Counted
<1>3. /\ [op |-> StreamOp(stream.op), moved |-> stream.moved].op = "none"
      /\ [op |-> StreamOp(stream.op), moved |-> stream.moved]' = [op |-> StreamOp(op), moved |-> <<>>]
  BY <1>1 DEF StreamOp, NoStream
<1> QED BY <1>1, <1>2, <1>3, SameCalled DEF Window!Begin, Window!NoStream

(* The end of a stream.                                                    *)
LEMMA EndStep ==
  ASSUME NEW call, NEW n, NEW items, NEW err, Finish(call, n, items, err)
  PROVE  /\ [op |-> StreamOp(stream.op), moved |-> stream.moved]' = Window!NoStream
         /\ Window!Return(call, n, items, IF err = "EOF" THEN "nil" ELSE err)
         /\ Counted'
BY EmptySeq DEF Finish, NoStream, StreamOp, Window!NoStream, Window!Return, Counted

LEMMA ReadFromStep ==
  ASSUME WindowInv, NEW chunk \in Chunk, NEW err \in ReadErr, FitsReader(chunk, err),
         ReadFromTurn(chunk, err)
  PROVE  /\ Window!Absorb \/ UNCHANGED Window!vars \/ Window!Finish
         /\ Counted'
<1> DEFINE moved == stream.moved \o chunk
           a == Advance(Fill(Receive(ring, chunk), Len(chunk)), Len(chunk))
<1>1. /\ stream.op = "ReadFrom" /\ chunk \in Seq(Item) /\ Len(chunk) \in Nat
      /\ Len(chunk) <= N - ring.write /\ stream \in StreamType
  BY ChunkType DEF ReadFromTurn, WindowInv, KeepInv, TypeOK, StreamType
<1>2. CASE err = "nil"
  <2>1. ring' = a /\ result' = result
        /\ stream' = [stream EXCEPT !.n = @ + Len(chunk), !.left = @ - Len(chunk), !.moved = moved]
    BY <1>2 DEF ReadFromTurn
  <2>2. Unread(ring)' = Window!Newest(Unread(ring) \o chunk)
    <3>1. Unread(a) = Window!Newest(Unread(ring) \o chunk)
      BY <1>1, InvFacts, ChunkWindow
    <3> HIDE DEF a
    <3> QED BY <2>1, <3>1 DEF Unread, RingLen
  <2>3. /\ stream'.n = stream.n + Len(chunk) /\ stream'.moved = moved /\ stream'.op = stream.op
    BY <1>1, <2>1 DEF StreamType
  <2>4. Counted'
    <3>1. stream.moved \in Seq(Item) /\ stream.n = Len(stream.moved)
      BY <1>1 DEF StreamType, WindowInv, Counted
    <3>2. Len(moved) = Len(stream.moved) + Len(chunk)
      BY <1>1, <3>1
    <3> HIDE DEF moved
    <3> QED BY <1>1, <2>3, <3>1, <3>2 DEF Counted
  <2>5. /\ [op |-> StreamOp(stream.op), moved |-> stream.moved].op = "ReadFrom"
        /\ [op |-> StreamOp(stream.op), moved |-> stream.moved]'
             = [[op |-> StreamOp(stream.op), moved |-> stream.moved] EXCEPT !.moved = moved]
    <3>1. StreamOp("ReadFrom") = "ReadFrom"
      BY DEF StreamOp
    <3> HIDE DEF moved
    <3> QED BY <1>1, <2>3, <3>1
  <2>6. CASE Len(chunk) = 0
    <3>1. chunk = <<>> /\ stream.moved \in Seq(Item)
      BY <1>1, <2>6, EmptySeq DEF StreamType
    <3>2. moved = stream.moved /\ Unread(ring) \o chunk = Unread(ring)
      BY <3>1, InvFacts, ConcatEmptySeq
    <3>3. Window!Newest(Unread(ring)) = Unread(ring)
      BY InvFacts DEF Window!Newest
    <3> HIDE DEF moved
    <3>4. UNCHANGED Window!vars
      BY <2>1, <2>2, <2>3, <3>2, <3>3 DEF Window!vars
    <3> QED BY <2>4, <3>4
  <2>7. CASE Len(chunk) # 0
    <3>1. Len(chunk) \in 1 .. N /\ chunk \in [1 .. Len(chunk) -> Item]
      <4>1. Len(chunk) \in 1 .. N
        BY <1>1, <2>7, InvFacts, RingFields
      <4>2. chunk \in [1 .. Len(chunk) -> Item]
        BY <1>1
      <4> QED BY <4>1, <4>2
    <3>2. Window!Absorb
      BY <2>1, <2>2, <2>5, <3>1 DEF Window!Absorb
    <3> QED BY <2>4, <3>2
  <2> QED BY <2>6, <2>7
<1>3. CASE err # "nil"
  <2> DEFINE call == [Called("ReadFrom") EXCEPT !.given = stream.moved]
  <2>1. chunk = <<>> /\ ring' = Receive(ring, chunk) /\ Finish(call, stream.n, <<>>, err)
    BY <1>3 DEF FitsReader, ReadFromTurn, ReadFromReturns
  <2>2. Unread(ring)' = Unread(ring)
    <3>1. Len(chunk) = 0 /\ ring.write \in Nat /\ ring.read \in Int
      BY <2>1, InvFacts, RingFields
    <3>2. Overwrite(ring.items, ring.write, chunk) = ring.items
      <4>1. ring.items \in [Slot -> Item]
        BY InvFacts, RingFields
      <4>2. \A j \in Slot : ~ (ring.write <= j /\ j < ring.write + Len(chunk))
        BY <3>1, RingAssumption DEF Slot
      <4> QED BY <4>1, <4>2 DEF Overwrite
    <3>3. ring'.items = ring.items /\ ring'.read = ring.read /\ ring'.write = ring.write
          /\ (ring'.full <=> ring.full)
      <4>1. ~ (ring.write < ring.read /\ ring.write + Len(chunk) >= ring.read)
        BY <3>1
      <4> QED BY <2>1, <3>2, <4>1, InvFacts DEF Receive, Ring
    <3> QED BY <3>3 DEF Unread, RingLen
  <2>3. call = [Window!Called("ReadFrom") EXCEPT !.given = stream.moved]
    BY SameCalled
  <2>4. stream.n = Len(stream.moved)
    BY DEF WindowInv, Counted
  <2>5. (IF err = "EOF" THEN "nil" ELSE err) \in {"nil", "fault", "negative"}
    BY DEF ReadErr
  <2>6. [op |-> StreamOp(stream.op), moved |-> stream.moved].op = "ReadFrom"
    BY <1>1 DEF StreamOp
  <2> HIDE DEF call
  <2>7. Window!Finish /\ Counted'
    BY <2>1, <2>2, <2>3, <2>4, <2>5, <2>6, EndStep DEF Window!Finish
  <2> QED BY <2>7
<1> QED BY <1>2, <1>3

LEMMA ReadFromNegativeStep ==
  ASSUME WindowInv, ReadFromNegative PROVE Window!Finish /\ Counted'
<1> DEFINE call == [Called("ReadFrom") EXCEPT !.given = stream.moved]
<1>1. ring' = ring /\ Finish(call, stream.n, <<>>, "negative") /\ stream.op = "ReadFrom"
  BY DEF ReadFromNegative, ReadFromReturns
<1>2. Unread(ring)' = Unread(ring)
  BY <1>1 DEF Unread, RingLen
<1>3. call = [Window!Called("ReadFrom") EXCEPT !.given = stream.moved]
  BY SameCalled
<1>4. stream.n = Len(stream.moved)
  BY DEF WindowInv, Counted
<1>5. [op |-> StreamOp(stream.op), moved |-> stream.moved].op = "ReadFrom"
  BY <1>1 DEF StreamOp
<1> HIDE DEF call
<1> QED BY <1>1, <1>2, <1>3, <1>4, <1>5, EndStep DEF Window!Finish

(* What one Write of the caller's takes.                                   *)
LEMMA SentWindow ==
  ASSUME NEW r \in Ring, Sane(r), NEW num \in 0 .. RingLen(r), r.read + num <= N,
         r.full => num > 0
  PROVE  /\ Unread(Sent(r, num)) = Window!Rest(Unread(r), num)
         /\ Slice(r.items, r.read, r.read + num) = Window!Front(Unread(r), num)
         /\ Len(Window!Front(Unread(r), num)) = num
<1> DEFINE part == Slice(r.items, r.read, r.read + num)
           front == Window!Front(Unread(r), num)
           a == Sent(r, num)
<1>1. /\ r.read \in Slot /\ r.write \in Slot /\ RingLen(r) \in 0 .. N /\ N \in Nat /\ num \in Nat
      /\ num \in 0 .. N /\ r.items \in [Slot -> Item] /\ r.read \in Nat /\ num <= RingLen(r)
      /\ RingLen(r) \in Nat
  BY SaneLen, RingFields, RingAssumption DEF Sane
<1>2. /\ Unread(r) \in Seq(Item) /\ Len(Unread(r)) = RingLen(r)
      /\ \A i \in 1 .. RingLen(r) : Unread(r)[i] = r.items[On(r.read, i - 1)]
  BY UnreadIs
<1>3. /\ front \in Seq(Item) /\ Len(front) = IF num < RingLen(r) THEN num ELSE RingLen(r)
      /\ \A i \in 1 .. Len(front) : front[i] = Unread(r)[i]
  BY <1>1, <1>2, FrontIs
<1> HIDE DEF front
<1>4. Len(front) = num
  BY <1>1, <1>3
<1>5. part = front
  <2> DEFINE to == r.read + num
  <2>1. /\ part \in Seq(Item) /\ Len(part) = to - r.read
        /\ \A i \in 1 .. to - r.read : part[i] = r.items[r.read + i - 1]
    <3>1. Legal(r.read, to) /\ r.read \in Int /\ to \in Int
      BY <1>1 DEF Legal
    <3> HIDE DEF to
    <3> QED BY <1>1, <3>1, SliceType DEF to
  <2>2. to - r.read = num
    BY <1>1
  <2> HIDE DEF part, to
  <2>3. ASSUME NEW i \in 1 .. num PROVE part[i] = front[i]
    <3>1. On(r.read, i - 1) = r.read + i - 1 /\ i \in 1 .. RingLen(r)
      BY <1>1 DEF On
    <3> QED BY <1>2, <1>3, <1>4, <2>1, <2>2, <3>1
  <2> QED BY <1>3, <1>4, <2>1, <2>2, <2>3, SeqEqual
<1>6. a \in Ring
  BY <1>1, SentType
<1>7. /\ a.items = r.items /\ a.write = r.write /\ a.read = On(r.read, num) /\ a.full = FALSE
  <2>1. (r.read + num) % N = On(r.read, num)
    BY <1>1, ModOn
  <2> QED BY <2>1 DEF Sent, Ring
<1> HIDE DEF a
<1>8. a.full <=> r.full /\ num = 0
  BY <1>1, <1>7
<1>9. Unread(a) = Window!Rest(Unread(r), num)
  BY <1>6, <1>7, <1>8, Shrunk
<1> QED BY <1>4, <1>5, <1>9 DEF part, front, a

LEMMA WriteToTailStep ==
  ASSUME WindowInv, NEW num \in 0 .. N, NEW err \in ReadErr,
         FitsWriter(num, N - ring.read, err), WriteToTail(num, err)
  PROVE  Window!Emit /\ Counted'
<1> DEFINE part == Slice(ring.items, ring.read, ring.read + num)
           front == Window!Front(Unread(ring), num)
           moved == stream.moved \o front
<1>1. /\ stream.op = "WriteToTail" /\ ring.read >= ring.write /\ stream.moved = <<>>
      /\ RingLen(ring) > 0 /\ num <= N - ring.read /\ ring' = Sent(ring, num)
      /\ stream \in StreamType
  BY DEF WriteToTail, WindowInv, KeepInv, Consistent, PartsInOrder, Counted, TypeOK, StreamType
<1>2. num \in 0 .. RingLen(ring) /\ ring.read + num <= N
  <2>1. /\ ring.read \in Int /\ ring.write \in Nat /\ N \in Nat /\ num \in Nat /\ ring.read >= 0
        /\ num <= N - ring.read
    BY <1>1, InvFacts, RingFields DEF Sane
  <2>2. RingLen(ring) = N - ring.read + ring.write \/ RingLen(ring) = N
    BY <1>1, <2>1, InvFacts, LenOfSane
  <2> QED BY <2>1, <2>2
<1>3. /\ Unread(Sent(ring, num)) = Window!Rest(Unread(ring), num)
      /\ part = front /\ Len(front) = num
  BY <1>2, InvFacts, SentWindow DEF FitsWriter
<1>4. Unread(ring)' = Window!Rest(Unread(ring), num)
  BY <1>1, <1>3 DEF Unread, RingLen
<1>5. moved = front
  BY <1>2, InvFacts, FrontIs, ConcatEmptySeq, <1>1
<1>6. num \in 0 .. Len(Unread(ring))
  BY <1>2, InvFacts
<1>7. [op |-> StreamOp(stream.op), moved |-> stream.moved].op = "WriteTo"
  BY <1>1 DEF StreamOp
<1> HIDE DEF front, part
<1>8. CASE err = "nil"
  <2>1. /\ stream' = [stream EXCEPT !.op = "WriteToHead", !.n = num, !.moved = part]
        /\ result' = result
    BY <1>8 DEF WriteToTail, part
  <2>2. stream'.op = "WriteToHead" /\ stream'.n = num /\ stream'.moved = moved
    BY <1>1, <1>3, <1>5, <2>1 DEF StreamType
  <2> HIDE DEF moved
  <2>3. [op |-> StreamOp(stream.op), moved |-> stream.moved]'
          = [[op |-> StreamOp(stream.op), moved |-> stream.moved] EXCEPT !.moved = moved]
    BY <1>1, <2>2 DEF StreamOp
  <2>4. Counted'
    BY <1>3, <1>5, <2>2 DEF Counted
  <2>5. Window!Emit
    BY <1>4, <1>6, <1>7, <2>1, <2>3 DEF Window!Emit, moved, front
  <2> QED BY <2>4, <2>5
<1>9. CASE err # "nil"
  <2>1. Finish(Called("WriteTo"), num, part, err) /\ err = "fault"
    BY <1>9 DEF WriteToTail, WriteToReturns, FitsWriter, ReadErr, part
  <2>2. /\ [op |-> StreamOp(stream.op), moved |-> stream.moved]' = Window!NoStream
        /\ Window!Return(Window!Called("WriteTo"), Len(moved), moved, "fault")
        /\ Counted'
    BY <1>3, <1>5, <2>1, EndStep, SameCalled
  <2> HIDE DEF moved
  <2>3. Window!Emit
    BY <1>4, <1>6, <1>7, <2>2 DEF Window!Emit, moved, front
  <2> QED BY <2>2, <2>3
<1> QED BY <1>8, <1>9

LEMMA WriteToHeadStep ==
  ASSUME WindowInv, NEW num \in 0 .. N, NEW err \in ReadErr,
         FitsWriter(num, ring.write - ring.read, err), WriteToHead(num, err)
  PROVE  Window!Emit /\ Counted'
<1> DEFINE part == Slice(ring.items, ring.read, ring.read + num)
           front == Window!Front(Unread(ring), num)
           moved == stream.moved \o front
<1>1. /\ stream.op = "WriteToHead" /\ ring.read <= ring.write /\ ~ ring.full
      /\ num <= ring.write - ring.read /\ ring' = Sent(ring, num) /\ stream \in StreamType
  BY DEF WriteToHead, WindowInv, KeepInv, Consistent, PartsInOrder, TypeOK, StreamType
<1>2. num \in 0 .. RingLen(ring) /\ ring.read + num <= N /\ RingLen(ring) = ring.write - ring.read
  <2>1. /\ ring.read \in Int /\ ring.write \in Nat /\ N \in Nat /\ num \in Nat /\ ring.read >= 0
        /\ num <= ring.write - ring.read /\ ring.write < N
    BY <1>1, InvFacts, RingFields DEF Sane
  <2>2. RingLen(ring) = ring.write - ring.read
    BY <1>1, <2>1, InvFacts, LenOfSane
  <2> QED BY <2>1, <2>2
<1>3. /\ Unread(Sent(ring, num)) = Window!Rest(Unread(ring), num)
      /\ part = front /\ Len(front) = num
  BY <1>1, <1>2, InvFacts, SentWindow
<1>4. Unread(ring)' = Window!Rest(Unread(ring), num)
  BY <1>1, <1>3 DEF Unread, RingLen
<1>5. Len(moved) = stream.n + num
  <2>1. front \in Seq(Item) /\ stream.moved \in Seq(Item) /\ stream.n = Len(stream.moved)
    BY <1>1, <1>2, InvFacts, FrontIs DEF StreamType, WindowInv, Counted
  <2> HIDE DEF front
  <2>2. Len(moved) = Len(stream.moved) + Len(front)
    BY <2>1
  <2> QED BY <1>3, <2>1, <2>2
<1>6. num \in 0 .. Len(Unread(ring))
  BY <1>2, InvFacts
<1>7. [op |-> StreamOp(stream.op), moved |-> stream.moved].op = "WriteTo"
  BY <1>1 DEF StreamOp
<1>8. Finish(Called("WriteTo"), stream.n + num, moved, err) /\ err \in {"nil", "fault"}
  BY <1>3 DEF WriteToHead, WriteToReturns, FitsWriter, ReadErr
<1>9. err = "nil" => Unread(ring)' = <<>>
  <2> SUFFICES ASSUME err = "nil" PROVE Window!Rest(Unread(ring), num) = <<>>
    BY <1>4
  <2>1. num = Len(Unread(ring))
    BY <1>1, <1>2, InvFacts, RingFields DEF FitsWriter
  <2>2. Window!Smaller(num, Len(Unread(ring))) = Len(Unread(ring))
    BY <2>1 DEF Window!Smaller
  <2> QED BY <2>2, InvFacts DEF Window!Rest
<1> HIDE DEF front, part, moved
<1>10. /\ [op |-> StreamOp(stream.op), moved |-> stream.moved]' = Window!NoStream
       /\ Window!Return(Window!Called("WriteTo"), Len(moved), moved, err)
       /\ Counted'
  BY <1>5, <1>8, EndStep, SameCalled
<1>11. Window!Emit
  BY <1>4, <1>6, <1>7, <1>8, <1>9, <1>10 DEF Window!Emit, moved, front
<1> QED BY <1>10, <1>11

LEMMA WriteToNegativeStep ==
  ASSUME WindowInv, WriteToNegative PROVE Window!Emit /\ Counted'
<1>1. /\ stream.op \in {"WriteToTail", "WriteToHead"} /\ ring' = ring
      /\ Finish(Called("WriteTo"), stream.n, stream.moved, "negative")
      /\ stream.n = Len(stream.moved) /\ stream.moved \in Seq(Item)
  BY DEF WriteToNegative, WriteToReturns, WindowInv, Counted, KeepInv, TypeOK
<1>2. /\ 0 \in 0 .. Len(Unread(ring)) /\ Window!Rest(Unread(ring), 0) = Unread(ring)
      /\ Window!Front(Unread(ring), 0) = <<>>
  <2>1. Window!Smaller(0, Len(Unread(ring))) = 0
    BY InvFacts DEF Window!Smaller
  <2> QED BY <2>1, InvFacts DEF Window!Rest, Window!Front
<1>3. Unread(ring)' = Window!Rest(Unread(ring), 0)
  BY <1>1, <1>2 DEF Unread, RingLen
<1>4. stream.moved \o Window!Front(Unread(ring), 0) = stream.moved
  BY <1>1, <1>2, ConcatEmptySeq
<1>5. [op |-> StreamOp(stream.op), moved |-> stream.moved].op = "WriteTo"
  BY <1>1 DEF StreamOp
<1>6. /\ [op |-> StreamOp(stream.op), moved |-> stream.moved]' = Window!NoStream
      /\ Window!Return(Window!Called("WriteTo"), Len(stream.moved), stream.moved, "negative")
      /\ Counted'
  BY <1>1, EndStep, SameCalled
<1>7. Window!Emit
  BY <1>2, <1>3, <1>4, <1>5, <1>6 DEF Window!Emit
<1> QED BY <1>6, <1>7

(* The turns of the streaming calls.                                       *)
Streaming ==
  \/ \E length \in Length : ReadFrom(length)
  \/ \E chunk \in Chunk, err \in ReadErr :
       FitsReader(chunk, err) /\ ReadFromTurn(chunk, err)
  \/ ReadFromNegative
  \/ RingLen(ring) > 0 /\ WriteTo
  \/ \E num \in 0 .. N, err \in ReadErr :
       \/ FitsWriter(num, N - ring.read, err) /\ WriteToTail(num, err)
       \/ FitsWriter(num, ring.write - ring.read, err) /\ WriteToHead(num, err)
  \/ WriteToNegative

LEMMA StreamingStep ==
  ASSUME WindowInv, Streaming PROVE [Window!Next]_(Window!vars) /\ Counted'
<1>1. ASSUME NEW length, ReadFrom(length) PROVE Window!Begin("ReadFrom") /\ Counted'
  <2>1. StreamOp("ReadFrom") = "ReadFrom"
    BY DEF StreamOp
  <2> QED BY <1>1, <2>1, BeginStep DEF ReadFrom
<1>2. ASSUME RingLen(ring) > 0, WriteTo PROVE Window!Begin("WriteTo") /\ Counted'
  <2>1. StreamOp("WriteToTail") = "WriteTo" /\ StreamOp("WriteToHead") = "WriteTo"
    BY DEF StreamOp
  <2> QED BY <1>2, <2>1, BeginStep DEF WriteTo
<1>3. \/ Window!Begin("ReadFrom") \/ Window!Begin("WriteTo") \/ Window!Absorb \/ Window!Emit
      \/ Window!Finish \/ UNCHANGED Window!vars
  BY <1>1, <1>2, ReadFromStep, ReadFromNegativeStep, WriteToTailStep, WriteToHeadStep,
     WriteToNegativeStep DEF Streaming
<1>4. Counted'
  BY <1>1, <1>2, ReadFromStep, ReadFromNegativeStep, WriteToTailStep, WriteToHeadStep,
     WriteToNegativeStep DEF Streaming
<1> QED BY <1>3, <1>4 DEF Window!Next

-----------------------------------------------------------------------------
(* The refinement.                                                         *)

LEMMA WindowNext ==
  ASSUME WindowInv, [KeepingNext]_vars
  PROVE  WindowInv' /\ [Window!Next]_(Window!vars)
<1>1. KeepInv'
  <2>1. [Next]_vars /\ TailHeld
    BY KeepingIsNext DEF WindowInv, KeepInv, Consistent, PartsInOrder, TailHeld
  <2> QED BY <2>1, NextType, KeepingKeeps DEF WindowInv, KeepInv
<1>2. CASE UNCHANGED vars
  <2>1. UNCHANGED Window!vars
    BY <1>2 DEF vars, Window!vars, Unread, RingLen
  <2>2. Counted'
    BY <1>2 DEF vars, WindowInv, Counted, RingLen
  <2> QED BY <1>1, <2>1, <2>2 DEF WindowInv
<1>3. CASE Calling
  BY <1>1, <1>3, CallingStep DEF WindowInv, Window!Next
<1>4. CASE Streaming
  BY <1>1, <1>4, StreamingStep DEF WindowInv
<1>5. KeepingNext => Calling \/ Streaming
  BY DEF KeepingNext, Calling, Streaming
<1> QED BY <1>2, <1>3, <1>4, <1>5

LEMMA WindowInit == ASSUME Init PROVE WindowInv /\ Window!Init
<1>1. KeepInv
  BY KeepInit
<1>2. ring = NewRing /\ ring.full = FALSE /\ ring.write = 0 /\ ring.read = 0
  BY DEF Init, NewRing
<1>3. ring \in Ring /\ Sane(ring)
  BY <1>2, NewRingType DEF Sane
<1>4. RingLen(ring) = 0
  BY <1>2, <1>3, LenOfSane
<1>5. Unread(ring) \in Seq(Item) /\ Len(Unread(ring)) = 0
  BY <1>3, <1>4, UnreadIs
<1>6. Unread(ring) = <<>> /\ Counted
  BY <1>5, EmptySeq DEF Init, NoStream, Counted
<1>7. result = Window!NoResult
  BY SameCalled DEF Init
<1>8. [op |-> StreamOp(stream.op), moved |-> stream.moved] = Window!NoStream
  BY DEF Init, NoStream, StreamOp, Window!NoStream
<1> QED BY <1>1, <1>6, <1>7, <1>8 DEF WindowInv, Window!Init

(* For callers that keep to the contract a RingBuffer of any length is a   *)
(* SlidingWindow: through every overwrite, wrap of the two indices, unread *)
(* item, seek and interrupted transfer of ringbuffer.go, what is unread is *)
(* the last N items written and not yet read, in order, and every call     *)
(* returns what the window would.                                          *)
THEOREM RefinesWindow == KeepingSpec => IsSlidingWindow
<1>1. Init => WindowInv /\ Window!Init
  BY WindowInit
<1>2. WindowInv /\ [KeepingNext]_vars => WindowInv' /\ [Window!Next]_(Window!vars)
  BY WindowNext
<1> QED BY <1>1, <1>2, PTL DEF KeepingSpec, IsSlidingWindow, Window!Spec

===============================================================================
