-------------------------- MODULE BufioWriter_proofs --------------------------
(***************************************************************************)
(* Theorems about gbufio.Writer, for every buffer size, every set of items *)
(* and every caller and other end the constants describe.                  *)
(***************************************************************************)
EXTENDS BufioWriterContract, SequenceTheorems, TLAPS

Op == {"none", "Write", "WriteItem", "Flush", "ReadFrom"}

Place == {"none", "flush", "direct", "read", "pass on"}

WriterType == [buf : [1 .. Size -> Item], n : 0 .. Size,
               err : SinkErr \cup {"short"}, readerFrom : BOOLEAN]

CallType == [op : Op, at : Place, given : Seq(Item), rest : Seq(Item), count : Nat,
             left : Nat, empties : Nat, eof : BOOLEAN]

(* What a method relies on where it waits.                                 *)
Waiting(w, c) ==
  /\ c.at = "flush" => w.n > 0
  /\ c.at = "direct" => w.n = 0 /\ Len(c.rest) > Size /\ c.op = "Write"
  /\ c.at = "read" => c.op = "ReadFrom" /\ w.n < Size /\ c.empties < MaxConsecutiveEmptyReads
  /\ c.at = "pass on" => c.op = "ReadFrom" /\ w.n = 0
  /\ c.at # "none" => w.err = "nil" /\ c.op # "none"

(* What a method holds of its caller's items, and what it has counted.     *)
Holding(c) ==
  /\ c.op = "Write" => c.count + Len(c.rest) = Len(c.given)
  /\ c.op = "WriteItem" => Len(c.given) = 1 /\ c.rest = c.given
  /\ c.op = "Flush" => c.rest = <<>> /\ c.given = <<>>
  /\ c.op = "ReadFrom" => c.rest = <<>> /\ c.count = Len(c.given)

Inv ==
  /\ writer \in WriterType
  /\ call \in CallType
  /\ call.at = "none" <=> call = NoCall
  /\ Waiting(writer, call)
  /\ Holding(call)

-----------------------------------------------------------------------------
(* What the operators keep.                                                *)

LEMMA NoCallType == NoCall \in CallType
BY WriterAssumption DEF NoCall, CallType, Place, Op

LEMMA StoredType ==
  ASSUME NEW w \in WriterType, NEW p \in Seq(Item), Len(p) <= Available(w)
  PROVE  /\ Stored(w, p) \in WriterType
         /\ Stored(w, p).n = w.n + Len(p)
         /\ Stored(w, p).err = w.err
<1> DEFINE buf == [i \in 1 .. Size |->
                     IF i \in w.n + 1 .. w.n + Len(p) THEN p[i - w.n] ELSE w.buf[i]]
<1>1. buf \in [1 .. Size -> Item]
  BY WriterAssumption DEF WriterType
<1>2. w.n + Len(p) \in 0 .. Size
  BY WriterAssumption DEF WriterType, Available
<1>3. Stored(w, p) = [w EXCEPT !.buf = buf, !.n = @ + Len(p)]
  BY DEF Stored
<1> HIDE DEF buf
<1> QED BY <1>1, <1>2, <1>3 DEF WriterType

LEMMA FlushedType ==
  ASSUME NEW w \in WriterType, NEW num \in 0 .. w.n, NEW err \in SinkErr
  PROVE  /\ Flushed(w, num, err) \in WriterType
         /\ Flushed(w, num, err).err = "nil" => Flushed(w, num, err).n = 0
<1> DEFINE why == IF num < w.n /\ err = "nil" THEN "short" ELSE err
           moved == [i \in 1 .. Size |-> IF i <= w.n - num THEN w.buf[i + num] ELSE w.buf[i]]
<1>1. moved \in [1 .. Size -> Item]
  BY WriterAssumption DEF WriterType
<1>2. w.n - num \in 0 .. Size /\ 0 \in 0 .. Size
  BY WriterAssumption DEF WriterType
<1>3. why \in SinkErr \cup {"short"}
  OBVIOUS
<1>4. Flushed(w, num, err) =
        IF why = "nil" THEN [w EXCEPT !.n = 0]
        ELSE [w EXCEPT !.buf = IF num \in 1 .. w.n - 1 THEN moved ELSE @,
                       !.n = @ - num, !.err = why]
  BY DEF Flushed
<1> HIDE DEF why, moved
<1> QED BY <1>1, <1>2, <1>3, <1>4 DEF WriterType

LEMMA WaitType ==
  ASSUME NEW w \in WriterType, NEW c \in CallType, NEW at \in Place \ {"none"},
         Waiting(w, [c EXCEPT !.at = at]), Holding(c),
         Wait(w, c, at)
  PROVE  Inv'
BY DEF Wait, Inv, CallType, WriterType, NoCall, Place, Waiting, Holding

LEMMA ReturnType ==
  ASSUME NEW w \in WriterType, NEW c, NEW n, NEW err, Return(w, c, n, err)
  PROVE  Inv'
<1>1. writer' = w /\ call' = NoCall
  BY DEF Return
<1> QED BY <1>1, NoCallType DEF Inv, NoCall, Waiting, Holding

LEMMA WriteLoopType ==
  ASSUME NEW w \in WriterType, NEW c \in CallType, c.op = "Write", Holding(c),
         WriteLoop(w, c)
  PROVE  Inv'
<1> DEFINE room == Available(w)
           rest == SubSeq(c.rest, room + 1, Len(c.rest))
           top == SubSeq(c.rest, 1, room)
           d == [c EXCEPT !.rest = rest, !.count = @ + room]
<1>1. c.rest \in Seq(Item) /\ Len(c.rest) \in Nat /\ room \in Nat /\ c.count \in Nat
  BY WriterAssumption DEF CallType, WriterType, Available
<1>2. CASE \E n, err : Return(w, c, n, err)
  BY <1>2, ReturnType
<1>3. CASE Len(c.rest) <= room /\ \E n, err : Return(Stored(w, c.rest), c, n, err)
  <2>1. Stored(w, c.rest) \in WriterType
    BY <1>1, <1>3, StoredType
  <2> QED BY <1>3, <2>1, ReturnType
<1>4. CASE w.err = "nil" /\ Len(c.rest) > room /\ w.n = 0 /\ Wait(w, c, "direct")
  <2>1. Waiting(w, [c EXCEPT !.at = "direct"])
    BY <1>1, <1>4, WriterAssumption DEF Waiting, CallType, Available
  <2> QED BY <1>4, <2>1, WaitType DEF Place
<1>5. CASE /\ w.err = "nil" /\ Len(c.rest) > room /\ w.n # 0
           /\ Wait(Stored(w, top), d, "flush")
  <2>1. rest \in Seq(Item) /\ top \in Seq(Item) /\ Len(top) = room
    <3>1. \A i \in 1 .. Len(c.rest) : c.rest[i] \in Item
      BY <1>1, ElementOfSeq
    <3> HIDE DEF room
    <3>2. rest \in Seq(Item)
      BY <1>1, <3>1, SubSeqProperties
    <3> QED BY <1>1, <1>5, <3>1, <3>2, SubSeqProperties
  <2>2. d \in CallType /\ d.op = "Write" /\ Holding(d)
    <3>1. c.count + Len(c.rest) = Len(c.given)
      BY DEF Holding
    <3> HIDE DEF room
    <3>2. Len(rest) = Len(c.rest) - room
      BY <1>1, <1>5
    <3>3. c.count + room \in Nat /\ c.count + room + Len(rest) = Len(c.given)
      <4> HIDE DEF rest
      <4> QED BY <1>1, <3>1, <3>2
    <3> HIDE DEF rest
    <3> QED BY <2>1, <3>3 DEF CallType, Holding
  <2>3. /\ Stored(w, top) \in WriterType /\ Stored(w, top).n = w.n + room
        /\ Stored(w, top).err = "nil"
    <3>1. room = Available(w) /\ Len(top) <= Available(w)
      BY <1>1, <2>1
    <3> HIDE DEF top, room
    <3> QED BY <1>5, <2>1, <3>1, StoredType
  <2>4. Waiting(Stored(w, top), [d EXCEPT !.at = "flush"])
    <3> HIDE DEF d, room, top
    <3> QED BY <1>1, <1>5, <2>2, <2>3 DEF Waiting, CallType, WriterType
  <2> HIDE DEF d, room, top
  <2> QED BY <1>5, <2>2, <2>3, <2>4, WaitType DEF Place
<1> HIDE DEF d
<1> QED BY <1>2, <1>3, <1>4, <1>5 DEF WriteLoop, d

(* WriteItem returns only with an error, or with room for its item.        *)
LEMMA WriteItemEndType ==
  ASSUME NEW w \in WriterType, NEW c \in CallType, Len(c.given) = 1,
         w.err = "nil" => w.n < Size, WriteItemEnd(w, c)
  PROVE  Inv'
<1>1. CASE w.err # "nil"
  BY <1>1, ReturnType DEF WriteItemEnd
<1>2. CASE w.err = "nil"
  <2>1. c.given \in Seq(Item) /\ Len(c.given) <= Available(w)
    BY <1>2, WriterAssumption DEF CallType, WriterType, Available
  <2>2. Stored(w, c.given) \in WriterType
    BY <2>1, StoredType
  <2> QED BY <1>2, <2>2, ReturnType DEF WriteItemEnd
<1> QED BY <1>1, <1>2

LEMMA ReadFromReadType ==
  ASSUME NEW w \in WriterType, NEW c \in CallType, c.op = "ReadFrom", Holding(c),
         w.err = "nil", w.n < Size, ReadFromRead(w, c)
  PROVE  Inv'
<1> DEFINE d == [c EXCEPT !.empties = 0]
<1>1. CASE w.n = 0 /\ Wait(w, c, "pass on")
  <2>1. Waiting(w, [c EXCEPT !.at = "pass on"])
    BY <1>1 DEF Waiting, CallType
  <2> QED BY <1>1, <2>1, WaitType DEF Place
<1>2. CASE Wait(w, d, "read")
  <2>1. d \in CallType /\ d.op = "ReadFrom" /\ d.empties = 0 /\ Holding(d)
    BY DEF CallType, Holding
  <2>2. Waiting(w, [d EXCEPT !.at = "read"])
    <3> HIDE DEF d
    <3> QED BY <2>1, WriterAssumption DEF Waiting, CallType
  <2> HIDE DEF d
  <2> QED BY <1>2, <2>1, <2>2, WaitType DEF Place
<1> QED BY <1>1, <1>2 DEF ReadFromRead

LEMMA ReadFromLoopType ==
  ASSUME NEW w \in WriterType, NEW c \in CallType, c.op = "ReadFrom", Holding(c),
         w.err = "nil", ReadFromLoop(w, c)
  PROVE  Inv'
<1>1. CASE Available(w) = 0
  <2>1. Wait(w, c, "flush")
    BY <1>1 DEF ReadFromLoop
  <2>2. Waiting(w, [c EXCEPT !.at = "flush"])
    BY <1>1, WriterAssumption DEF Waiting, CallType, WriterType, Available
  <2> QED BY <2>1, <2>2, WaitType DEF Place
<1>2. CASE Available(w) # 0
  <2>1. w.n < Size
    BY <1>2, WriterAssumption DEF WriterType, Available
  <2> QED BY <1>2, <2>1, ReadFromReadType DEF ReadFromLoop
<1> QED BY <1>1, <1>2

LEMMA AfterFlushType ==
  ASSUME NEW w \in WriterType, NEW c \in CallType, w.err = "nil" => w.n = 0,
         Holding(c), AfterFlush(w, c)
  PROVE  Inv'
<1>1. w.err = "nil" => w.n < Size
  BY WriterAssumption
<1>2. CASE c.op = "Write" /\ WriteLoop(w, c)
  BY <1>2, WriteLoopType
<1>3. CASE c.op = "WriteItem" /\ WriteItemEnd(w, c)
  BY <1>1, <1>3, WriteItemEndType DEF Holding
<1>4. CASE \E n, err : Return(w, c, n, err)
  BY <1>4, ReturnType
<1>5. CASE c.op = "ReadFrom" /\ w.err = "nil" /\ ReadFromRead(w, c)
  BY <1>1, <1>5, ReadFromReadType
<1> QED BY <1>2, <1>3, <1>4, <1>5 DEF AfterFlush

-----------------------------------------------------------------------------
(* The actions.                                                            *)

LEMMA CalledType ==
  ASSUME NEW op \in Op, NEW p \in Seq(Item)
  PROVE  /\ Called(op, p) \in CallType
         /\ Called(op, p).op = op /\ Called(op, p).given = p /\ Called(op, p).rest = p
         /\ Called(op, p).count = 0
BY NoCallType DEF Called, CallType, NoCall

LEMMA ChunkType == \A chunk \in Chunk : chunk \in Seq(Item)
BY WriterAssumption

LEMMA CallingType == ASSUME Inv, Calling PROVE Inv'
<1>1. ASSUME NEW p \in Input, Write(p) PROVE Inv'
  <2>1. p \in Seq(Item) /\ "Write" \in Op
    BY WriterAssumption DEF Op
  <2>2. /\ Called("Write", p) \in CallType /\ Called("Write", p).op = "Write"
        /\ Holding(Called("Write", p))
    BY <2>1, CalledType DEF Holding
  <2> QED BY <1>1, <2>2, WriteLoopType DEF Write, Inv
<1>2. ASSUME NEW x \in Item, WriteItem(x) PROVE Inv'
  <2> DEFINE c == Called("WriteItem", <<x>>)
  <2>1. <<x>> \in Seq(Item) /\ Len(<<x>>) = 1 /\ "WriteItem" \in Op
    BY DEF Op
  <2>2. c \in CallType /\ c.op = "WriteItem" /\ Holding(c)
    BY <2>1, CalledType DEF Holding
  <2>3. writer \in WriterType /\ writer.n \in 0 .. Size
    BY DEF Inv, WriterType
  <2> HIDE DEF c
  <2>4. CASE writer.err = "nil" /\ Available(writer) <= 0
    <3>1. Wait(writer, c, "flush")
      BY <1>2, <2>4 DEF WriteItem, c
    <3>2. Waiting(writer, [c EXCEPT !.at = "flush"])
      BY <2>2, <2>3, <2>4, WriterAssumption DEF Waiting, CallType, Available
    <3> QED BY <2>2, <2>3, <3>1, <3>2, WaitType DEF Place
  <2>5. CASE ~ (writer.err = "nil" /\ Available(writer) <= 0)
    <3>1. WriteItemEnd(writer, c)
      BY <1>2, <2>5 DEF WriteItem, c
    <3>2. writer.err = "nil" => writer.n < Size
      BY <2>3, <2>5, WriterAssumption DEF Available
    <3> QED BY <2>2, <2>3, <3>1, <3>2, WriteItemEndType DEF Holding
  <2> QED BY <2>4, <2>5
<1>3. CASE Flush
  <2> DEFINE c == Called("Flush", <<>>)
  <2>1. <<>> \in Seq(Item) /\ "Flush" \in Op
    BY DEF Op
  <2>2. c \in CallType /\ c.op = "Flush" /\ Holding(c)
    BY <2>1, CalledType DEF Holding
  <2>3. writer \in WriterType /\ writer.n \in 0 .. Size
    BY DEF Inv, WriterType
  <2> HIDE DEF c
  <2>4. CASE writer.err # "nil" \/ writer.n = 0
    BY <1>3, <2>3, <2>4, ReturnType DEF Flush, c
  <2>5. CASE ~ (writer.err # "nil" \/ writer.n = 0)
    <3>1. Wait(writer, c, "flush")
      BY <1>3, <2>5 DEF Flush, c
    <3>2. Waiting(writer, [c EXCEPT !.at = "flush"])
      BY <2>2, <2>3, <2>5, WriterAssumption DEF Waiting, CallType
    <3> QED BY <2>2, <2>3, <3>1, <3>2, WaitType DEF Place
  <2> QED BY <2>4, <2>5
<1>4. ASSUME NEW length \in Length, ReadFrom(length) PROVE Inv'
  <2> DEFINE c == [Called("ReadFrom", <<>>) EXCEPT !.left = length]
  <2>1. <<>> \in Seq(Item) /\ "ReadFrom" \in Op /\ length \in Nat
    BY WriterAssumption DEF Op
  <2>2. /\ Called("ReadFrom", <<>>) \in CallType
        /\ Called("ReadFrom", <<>>).op = "ReadFrom" /\ Holding(Called("ReadFrom", <<>>))
    <3>1. Len(<<>>) = 0
      OBVIOUS
    <3> QED BY <2>1, <3>1, CalledType DEF Holding
  <2>3. c \in CallType /\ c.op = "ReadFrom" /\ Holding(c)
    BY <2>1, <2>2 DEF CallType, Holding
  <2>4. writer \in WriterType
    BY DEF Inv
  <2> HIDE DEF c
  <2>5. CASE writer.err # "nil"
    BY <1>4, <2>4, <2>5, ReturnType DEF ReadFrom, c
  <2>6. CASE writer.err = "nil"
    BY <1>4, <2>3, <2>4, <2>6, ReadFromLoopType DEF ReadFrom, c
  <2> QED BY <2>5, <2>6
<1>5. CASE Reset
  <2>1. \A readerFrom \in BOOLEAN :
          [writer EXCEPT !.n = 0, !.err = "nil", !.readerFrom = readerFrom] \in WriterType
    <3>1. writer \in WriterType /\ 0 \in 0 .. Size /\ "nil" \in SinkErr \cup {"short"}
      BY WriterAssumption DEF Inv, SinkErr
    <3> QED BY <3>1 DEF WriterType
  <2>2. ASSUME NEW readerFrom \in BOOLEAN, NEW c, NEW n, NEW err,
               Return([writer EXCEPT !.n = 0, !.err = "nil", !.readerFrom = readerFrom],
                      c, n, err)
        PROVE  Inv'
    <3> DEFINE w == [writer EXCEPT !.n = 0, !.err = "nil", !.readerFrom = readerFrom]
    <3>1. w \in WriterType /\ Return(w, c, n, err)
      BY <2>1, <2>2
    <3> HIDE DEF w
    <3> QED BY <3>1, ReturnType
  <2>3. ASSUME NEW c, NEW n, NEW err, Return(writer, c, n, err) PROVE Inv'
    BY <2>3, ReturnType DEF Inv
  <2> QED BY <1>5, <2>2, <2>3 DEF Reset
<1>6. ASSUME NEW p \in Chunk, AvailableBuffer(p) PROVE Inv'
  <2>1. writer \in WriterType /\ Stored(writer, p) \in WriterType
    BY <1>6, ChunkType, StoredType DEF Inv, AvailableBuffer
  <2>2. [writer EXCEPT !.buf = Stored(writer, p).buf] \in WriterType
    BY <2>1 DEF WriterType
  <2> QED BY <1>6, <2>2, ReturnType DEF AvailableBuffer
<1> QED BY <1>1, <1>2, <1>3, <1>4, <1>5, <1>6 DEF Calling

(* Whatever may be taken, what is taken is a natural number.               *)
LEMMA TurnCount == \A n : 0 .. n \subseteq Nat
OBVIOUS

LEMMA FlushTurnType ==
  ASSUME Inv, NEW num \in Nat, NEW err \in SinkErr, FlushTurn(num, err)
  PROVE  Inv'
<1>1. writer \in WriterType /\ call \in CallType /\ num \in 0 .. writer.n
  BY WriterAssumption DEF Inv, WriterType, FlushTurn
<1>2. /\ Flushed(writer, num, err) \in WriterType
      /\ Flushed(writer, num, err).err = "nil" => Flushed(writer, num, err).n = 0
  BY <1>1, FlushedType
<1> QED BY <1>1, <1>2, AfterFlushType DEF Inv, FlushTurn

LEMMA DirectTurnType ==
  ASSUME Inv, NEW num \in Nat, NEW err \in SinkErr,
         DirectTurn(num, err)
  PROVE  Inv'
<1> DEFINE w == [writer EXCEPT !.err = err]
           rest == SubSeq(call.rest, num + 1, Len(call.rest))
           c == [call EXCEPT !.rest = rest, !.count = @ + num]
<1>1. /\ writer \in WriterType /\ call \in CallType /\ call.op = "Write"
      /\ call.rest \in Seq(Item) /\ num \in Nat /\ num <= Len(call.rest)
  BY WriterAssumption DEF Inv, CallType, Waiting, DirectTurn
<1>2. w \in WriterType
  BY <1>1 DEF WriterType
<1>3. rest \in Seq(Item) /\ Len(rest) = Len(call.rest) - num
  <2>1. \A i \in 1 .. Len(call.rest) : call.rest[i] \in Item
    BY <1>1, ElementOfSeq
  <2> QED BY <1>1, <2>1, SubSeqProperties
<1>4. call.count + num \in Nat
  BY <1>1 DEF CallType
<1>5. WriteLoop(w, c)
  BY DEF DirectTurn
<1> HIDE DEF rest
<1>6. c \in CallType /\ c.op = "Write" /\ Holding(c)
  <2>1. c \in CallType /\ c.op = "Write"
    BY <1>1, <1>3, <1>4 DEF CallType
  <2>2. /\ c.given = call.given /\ c.count = call.count + num
        /\ c.rest = rest
    BY <1>1 DEF CallType
  <2>3. call.count + Len(call.rest) = Len(call.given) /\ call.count \in Nat
        /\ Len(call.rest) \in Nat
    BY <1>1 DEF Inv, Holding, CallType
  <2> HIDE DEF c
  <2> QED BY <1>1, <1>3, <2>1, <2>2, <2>3 DEF Holding
<1> HIDE DEF w, c
<1> QED BY <1>2, <1>5, <1>6, WriteLoopType

LEMMA ReadTurnType ==
  ASSUME Inv, NEW chunk \in Chunk, NEW err \in SourceErr, ReadTurn(chunk, err)
  PROVE  Inv'
<1> DEFINE w == Stored(writer, chunk)
           c == [call EXCEPT !.given = @ \o chunk, !.left = @ - Len(chunk),
                             !.count = @ + Len(chunk), !.eof = err = "EOF"]
           d == [c EXCEPT !.empties = @ + 1]
<1>1. /\ writer \in WriterType /\ call \in CallType /\ chunk \in Seq(Item)
      /\ call.op = "ReadFrom" /\ writer.err = "nil" /\ call.at = "read"
      /\ writer.n < Size /\ call.empties < MaxConsecutiveEmptyReads
  BY ChunkType DEF Inv, Waiting, ReadTurn
<1>2. w \in WriterType /\ w.n = writer.n + Len(chunk) /\ w.err = "nil"
  BY <1>1, StoredType DEF ReadTurn
<1>3. c \in CallType /\ c.op = "ReadFrom" /\ c.empties = call.empties /\ Holding(c)
  <2>1. call.given \o chunk \in Seq(Item)
    BY <1>1 DEF CallType
  <2>2. call.left - Len(chunk) \in Nat /\ call.count + Len(chunk) \in Nat
    <3>1. call.left \in Nat /\ call.count \in Nat /\ Len(chunk) \in Nat
      BY <1>1 DEF CallType
    <3>2. Len(chunk) <= call.left
      BY DEF ReadTurn
    <3> QED BY <3>1, <3>2
  <2>3. (err = "EOF") \in BOOLEAN
    OBVIOUS
  <2>4. Len(call.given \o chunk) = call.count + Len(chunk) /\ call.rest = <<>>
    <3>1. call.given \in Seq(Item) /\ call.count = Len(call.given) /\ call.rest = <<>>
      BY <1>1 DEF Inv, Holding, CallType
    <3> QED BY <1>1, <3>1, ConcatProperties
  <2>5. c \in CallType /\ c.op = "ReadFrom" /\ c.empties = call.empties
    BY <1>1, <2>1, <2>2, <2>3 DEF CallType
  <2>6. /\ c.given = call.given \o chunk /\ c.count = call.count + Len(chunk)
        /\ c.rest = <<>>
    BY <1>1, <2>4 DEF CallType
  <2> HIDE DEF c
  <2> QED BY <2>4, <2>5, <2>6 DEF Holding
<1>4. \/ err = "nil" /\ chunk = <<>> /\ call.empties + 1 # MaxConsecutiveEmptyReads
        /\ Wait(w, d, "read")
      \/ err = "nil" /\ ReadFromLoop(w, c)
      \/ \E n, why : Return(w, c, n, why)
      \/ Available(w) = 0 /\ Wait(w, c, "flush")
  BY DEF ReadTurn
<1>5. CASE err = "nil" /\ chunk = <<>> /\ call.empties + 1 # MaxConsecutiveEmptyReads
           /\ Wait(w, d, "read")
  <2>1. w.n < Size /\ call.empties + 1 < MaxConsecutiveEmptyReads
        /\ call.empties + 1 \in Nat
    BY <1>1, <1>2, <1>5, WriterAssumption DEF CallType, WriterType
  <2> HIDE DEF c
  <2>2. /\ d \in CallType /\ d.op = "ReadFrom" /\ d.empties = call.empties + 1
        /\ Holding(d)
    BY <1>3, <2>1 DEF CallType, Holding
  <2> HIDE DEF d, w
  <2>3. Waiting(w, [d EXCEPT !.at = "read"])
    BY <1>2, <2>1, <2>2 DEF Waiting, CallType
  <2> QED BY <1>2, <1>5, <2>2, <2>3, WaitType DEF Place
<1> HIDE DEF c, w
<1>6. CASE ReadFromLoop(w, c)
  BY <1>2, <1>3, <1>6, ReadFromLoopType
<1>7. CASE \E n, why : Return(w, c, n, why)
  BY <1>2, <1>7, ReturnType
<1>8. CASE Available(w) = 0 /\ Wait(w, c, "flush")
  <2>1. Waiting(w, [c EXCEPT !.at = "flush"])
    BY <1>2, <1>3, <1>8, WriterAssumption DEF Waiting, CallType, WriterType, Available
  <2> QED BY <1>2, <1>3, <1>8, <2>1, WaitType DEF Place
<1> QED BY <1>4, <1>5, <1>6, <1>7, <1>8

LEMMA PassOnTurnType ==
  ASSUME Inv, NEW chunk \in Chunk, NEW err \in SinkErr, PassOnTurn(chunk, err)
  PROVE  Inv'
<1>1. [writer EXCEPT !.err = err] \in WriterType
  BY DEF Inv, WriterType
<1> QED BY <1>1, ReturnType DEF PassOnTurn

LEMMA NextType == ASSUME Inv, [Next]_vars PROVE Inv'
<1>1. CASE Calling
  BY <1>1, CallingType
<1>2. CASE Turn
  BY <1>2, TurnCount, FlushTurnType, DirectTurnType, ReadTurnType, PassOnTurnType DEF Turn
<1>3. CASE UNCHANGED vars
  BY <1>3 DEF vars, Inv, Waiting, Holding
<1> QED BY <1>1, <1>2, <1>3 DEF Next

LEMMA InitType == ASSUME Init PROVE Inv
<1>1. [i \in 1 .. Size |-> Zero] \in [1 .. Size -> Item] /\ 0 \in 0 .. Size
  BY WriterAssumption
<1>2. writer \in WriterType
  BY <1>1 DEF Init, NewWriter, WriterType, SinkErr
<1> QED BY <1>2, NoCallType DEF Init, Inv, NoCall, Waiting, Holding

LEMMA InvImpliesTypeOK == ASSUME Inv PROVE TypeOK
<1>1. /\ writer.buf \in [1 .. Size -> Item] /\ writer.n \in 0 .. Size
      /\ writer.err \in SinkErr \cup {"short"}
  BY DEF Inv, WriterType
<1>2. call.at = "none" <=> call = NoCall
  BY DEF Inv
<1>3. /\ call.at = "flush" => writer.n > 0
      /\ call.at = "direct" => writer.n = 0 /\ Len(call.rest) > Size
      /\ call.at # "none" => writer.err = "nil"
  BY DEF Inv, Waiting
<1>4. call.at = "read" => Available(writer) > 0 /\ call.empties < MaxConsecutiveEmptyReads
  BY <1>1, WriterAssumption DEF Inv, Waiting, Available
<1> QED BY <1>1, <1>2, <1>3, <1>4 DEF TypeOK

(* The fields stay in range, and a method waits only where it can go on,   *)
(* whatever the buffer's size and whatever the other ends do.              *)
THEOREM TypeCorrect == Spec => []TypeOK
<1>1. Init => Inv
  BY InitType
<1>2. Inv /\ [Next]_vars => Inv'
  BY NextType
<1> QED BY <1>1, <1>2, InvImpliesTypeOK, PTL DEF Spec

-----------------------------------------------------------------------------
(* Sequences.                                                              *)

First(k, s) == SubSeq(s, 1, k)
After(k, s) == SubSeq(s, k + 1, Len(s))

LEMMA LenPositive == \A s \in Seq(Item) : 0 <= Len(s)
OBVIOUS

LEMMA LenNumber == \A s \in Seq(Item) : Len(s) \in 0 .. Len(s)
OBVIOUS

LEMMA Associative == \A s, t, u \in Seq(Item) : (s \o t) \o u = s \o (t \o u)
BY ConcatAssociative

LEMMA FirstType ==
  ASSUME NEW s \in Seq(Item), NEW k \in 0 .. Len(s)
  PROVE  /\ First(k, s) \in Seq(Item) /\ Len(First(k, s)) = k
         /\ \A i \in 1 .. k : First(k, s)[i] = s[i]
<1>1. \A i \in 1 .. k : s[i] \in Item
  BY ElementOfSeq
<1> QED BY <1>1, SubSeqProperties DEF First

LEMMA AfterType ==
  ASSUME NEW s \in Seq(Item), NEW k \in 0 .. Len(s)
  PROVE  /\ After(k, s) \in Seq(Item) /\ Len(After(k, s)) = Len(s) - k
         /\ \A i \in 1 .. Len(s) - k : After(k, s)[i] = s[k + i]
<1>1. \A i \in k + 1 .. Len(s) : s[i] \in Item
  BY ElementOfSeq
<1> QED BY <1>1, SubSeqProperties DEF After

(* A sequence is its first k items and the others.                         *)
LEMMA CutInTwo ==
  ASSUME NEW s \in Seq(Item), NEW k \in 0 .. Len(s)
  PROVE  First(k, s) \o After(k, s) = s
<1>1. /\ 1 \in 1 .. Len(s) + 1 /\ k \in 1 - 1 .. Len(s) /\ Len(s) \in k .. Len(s)
  OBVIOUS
<1>2. SubSeq(s, 1, k) \o SubSeq(s, k + 1, Len(s)) = SubSeq(s, 1, Len(s))
  BY <1>1, ConcatAdjacentSubSeq
<1> QED BY <1>2, SubSeqFull DEF First, After

LEMMA FirstOfConcat ==
  ASSUME NEW s \in Seq(Item), NEW t \in Seq(Item), NEW k \in 0 .. Len(s)
  PROVE  First(k, s \o t) = First(k, s)
<1> DEFINE u == s \o t
           a == First(k, u)
           b == First(k, s)
<1>1. /\ u \in Seq(Item) /\ Len(u) = Len(s) + Len(t)
      /\ \A i \in 1 .. Len(s) : u[i] = s[i]
  BY ConcatProperties
<1> HIDE DEF u
<1>2. k \in 0 .. Len(u)
  BY <1>1
<1>3. a \in Seq(Item) /\ Len(a) = k /\ \A i \in 1 .. k : a[i] = u[i]
  BY <1>1, <1>2, FirstType
<1>4. b \in Seq(Item) /\ Len(b) = k /\ \A i \in 1 .. k : b[i] = s[i]
  BY FirstType
<1> HIDE DEF a, b
<1>5. \A i \in 1 .. Len(a) : a[i] = b[i]
  BY <1>1, <1>3, <1>4
<1>6. a = b
  BY <1>3, <1>4, <1>5, SeqEqual
<1> QED BY <1>6 DEF a, b, u

LEMMA AfterOfConcat ==
  ASSUME NEW s \in Seq(Item), NEW t \in Seq(Item), NEW k \in 0 .. Len(s)
  PROVE  After(k, s \o t) = After(k, s) \o t
<1> DEFINE u == s \o t
           a == After(k, u)
           b == After(k, s)
           c == b \o t
<1>1. /\ u \in Seq(Item) /\ Len(u) = Len(s) + Len(t)
      /\ \A i \in 1 .. Len(s) + Len(t) : u[i] = IF i <= Len(s) THEN s[i] ELSE t[i - Len(s)]
  BY ConcatProperties
<1>2. b \in Seq(Item) /\ Len(b) = Len(s) - k /\ \A i \in 1 .. Len(s) - k : b[i] = s[k + i]
  BY AfterType
<1> HIDE DEF u, b
<1>3. k \in 0 .. Len(u)
  BY <1>1
<1>4. a \in Seq(Item) /\ Len(a) = Len(u) - k /\ \A i \in 1 .. Len(u) - k : a[i] = u[k + i]
  BY <1>1, <1>3, AfterType
<1>5. /\ c \in Seq(Item) /\ Len(c) = Len(b) + Len(t)
      /\ \A i \in 1 .. Len(b) + Len(t) : c[i] = IF i <= Len(b) THEN b[i] ELSE t[i - Len(b)]
  BY <1>2, ConcatProperties
<1> HIDE DEF a, c
<1>6. Len(a) = Len(c)
  BY <1>1, <1>2, <1>4, <1>5
<1>7. ASSUME NEW i \in 1 .. Len(a) PROVE a[i] = c[i]
  <2>1. a[i] = u[k + i]
    BY <1>4
  <2>2. CASE k + i <= Len(s)
    BY <1>1, <1>2, <1>4, <1>5, <2>1, <2>2
  <2>3. CASE ~ (k + i <= Len(s))
    <3>1. u[k + i] = t[k + i - Len(s)]
      BY <1>1, <1>4, <2>3
    <3>2. c[i] = t[i - Len(b)] /\ i - Len(b) = k + i - Len(s)
      BY <1>1, <1>2, <1>4, <1>5, <2>3
    <3> QED BY <2>1, <3>1, <3>2
  <2> QED BY <2>2, <2>3
<1>8. a = c
  BY <1>4, <1>5, <1>6, <1>7, SeqEqual
<1> QED BY <1>8 DEF a, b, c, u

(* The end of a concatenation cut off again.                               *)
LEMMA CutOff ==
  ASSUME NEW s \in Seq(Item), NEW t \in Seq(Item)
  PROVE  First(Len(s \o t) - Len(t), s \o t) = s
<1>1. Len(s \o t) - Len(t) = Len(s) /\ Len(s) \in 0 .. Len(s)
  BY ConcatProperties
<1>2. First(Len(s), s \o t) = First(Len(s), s)
  BY <1>1, FirstOfConcat
<1>3. First(Len(s), s) = s
  BY SubSeqFull DEF First
<1> QED BY <1>1, <1>2, <1>3

-----------------------------------------------------------------------------
(* What is buffered.                                                       *)

LEMMA BufferedType ==
  ASSUME NEW w \in WriterType
  PROVE  /\ Buffered(w) \in Seq(Item) /\ Len(Buffered(w)) = w.n
         /\ \A i \in 1 .. w.n : Buffered(w)[i] = w.buf[i]
<1>1. w.n \in 0 .. Size /\ w.buf \in [1 .. Size -> Item]
  BY DEF WriterType
<1>2. \A i \in 1 .. w.n : w.buf[i] \in Item
  BY <1>1, WriterAssumption
<1> QED BY <1>1, <1>2, WriterAssumption, SubSeqProperties DEF Buffered

LEMMA StoredItems ==
  ASSUME NEW w \in WriterType, NEW p \in Seq(Item), Len(p) <= Available(w)
  PROVE  Buffered(Stored(w, p)) = Buffered(w) \o p
<1> DEFINE v == Stored(w, p)
<1>1. v \in WriterType /\ v.n = w.n + Len(p)
  BY StoredType
<1>2. w.n \in Nat /\ Len(p) \in Nat /\ w.n + Len(p) <= Size
  BY WriterAssumption DEF WriterType, Available
<1>3. \A i \in 1 .. w.n + Len(p) : v.buf[i] = IF i <= w.n THEN w.buf[i] ELSE p[i - w.n]
  <2>1. v.buf = [i \in 1 .. Size |->
                  IF i \in w.n + 1 .. w.n + Len(p) THEN p[i - w.n] ELSE w.buf[i]]
    BY DEF Stored, WriterType
  <2> QED BY <1>2, <2>1, WriterAssumption
<1> HIDE DEF v
<1>4. /\ Buffered(v) \in Seq(Item) /\ Len(Buffered(v)) = w.n + Len(p)
      /\ \A i \in 1 .. w.n + Len(p) : Buffered(v)[i] = v.buf[i]
  BY <1>1, BufferedType
<1>5. /\ Buffered(w) \o p \in Seq(Item) /\ Len(Buffered(w) \o p) = w.n + Len(p)
      /\ \A i \in 1 .. w.n + Len(p) :
           (Buffered(w) \o p)[i] = IF i <= w.n THEN Buffered(w)[i] ELSE p[i - w.n]
  <2> DEFINE b == Buffered(w)
  <2>1. b \in Seq(Item) /\ Len(b) = w.n
    BY BufferedType
  <2> HIDE DEF b
  <2>2. /\ b \o p \in Seq(Item) /\ Len(b \o p) = w.n + Len(p)
        /\ \A i \in 1 .. w.n + Len(p) : (b \o p)[i] = IF i <= w.n THEN b[i] ELSE p[i - w.n]
    BY <1>2, <2>1
  <2> QED BY <2>2 DEF b
<1>6. \A i \in 1 .. w.n + Len(p) : Buffered(v)[i] = (Buffered(w) \o p)[i]
  BY <1>2, <1>3, <1>4, <1>5, BufferedType
<1>7. Buffered(v) = Buffered(w) \o p
  BY <1>4, <1>5, <1>6, SeqEqual
<1> QED BY <1>7 DEF v

(* What a flush leaves is what the writer did not take, in order.          *)
LEMMA FlushedItems ==
  ASSUME NEW w \in WriterType, NEW num \in 0 .. w.n, NEW err \in SinkErr
  PROVE  Buffered(Flushed(w, num, err)) = After(num, Buffered(w))
<1> DEFINE v == Flushed(w, num, err)
<1>1. v \in WriterType
  BY FlushedType
<1>2. w.n \in Nat /\ num \in Nat /\ w.n <= Size
  BY WriterAssumption DEF WriterType
<1>3. v.n = w.n - num
  BY <1>2 DEF Flushed, WriterType
<1>4. \A i \in 1 .. w.n - num : v.buf[i] = w.buf[num + i]
  BY <1>2, WriterAssumption DEF Flushed, WriterType
<1> HIDE DEF v
<1>5. /\ Buffered(v) \in Seq(Item) /\ Len(Buffered(v)) = w.n - num
      /\ \A i \in 1 .. w.n - num : Buffered(v)[i] = v.buf[i]
  BY <1>1, <1>3, BufferedType
<1> DEFINE b == Buffered(w)
           a == After(num, b)
<1>6. b \in Seq(Item) /\ Len(b) = w.n /\ \A i \in 1 .. w.n : b[i] = w.buf[i]
  BY BufferedType
<1> HIDE DEF b
<1>7. /\ a \in Seq(Item) /\ Len(a) = w.n - num
      /\ \A i \in 1 .. w.n - num : a[i] = b[num + i]
  <2>1. num \in 0 .. Len(b)
    BY <1>6
  <2>2. /\ a \in Seq(Item) /\ Len(a) = Len(b) - num
        /\ \A i \in 1 .. Len(b) - num : a[i] = b[num + i]
    BY <1>6, <2>1, AfterType
  <2> HIDE DEF a
  <2> QED BY <1>6, <2>2
<1> HIDE DEF a
<1>8. \A i \in 1 .. w.n - num : Buffered(v)[i] = a[i]
  BY <1>2, <1>4, <1>5, <1>6, <1>7
<1>9. Buffered(v) = a
  BY <1>5, <1>7, <1>8, SeqEqual
<1> QED BY <1>9 DEF a, b, v

-----------------------------------------------------------------------------
(* The refinement: each step of the writer is a step of the forwarder that *)
(* has what is buffered and what Write has still to write on its way.      *)

Plain(c) == [op |-> c.op, given |-> c.given]
Held(w, c) == Buffered(w) \o c.rest

LEMMA PlainExtended ==
  ASSUME NEW r \in [op : Op, given : Seq(Item)], NEW p \in Seq(Item)
  PROVE  [r EXCEPT !.given = p] = [op |-> r.op, given |-> p]
BY DEF Op

(* How many of the items a call was given it drops.                        *)
Dropped(c, n, err) ==
  IF c.op = "Write" THEN Len(c.given) - n
  ELSE IF c.op = "WriteItem" THEN Len(c.given) - IF err = "nil" THEN 1 ELSE 0
  ELSE 0

LEMMA HeldType ==
  ASSUME NEW w \in WriterType, NEW c \in CallType
  PROVE  /\ Held(w, c) \in Seq(Item) /\ Len(Held(w, c)) = w.n + Len(c.rest)
         /\ c.rest = <<>> => Held(w, c) = Buffered(w)
<1>1. Buffered(w) \in Seq(Item) /\ Len(Buffered(w)) = w.n /\ c.rest \in Seq(Item)
  BY BufferedType DEF CallType
<1> DEFINE b == Buffered(w)
<1>2. b \o c.rest \in Seq(Item) /\ Len(b \o c.rest) = Len(b) + Len(c.rest)
  BY <1>1, ConcatProperties
<1>3. c.rest = <<>> => b \o c.rest = b
  BY <1>1, ConcatEmptySeq
<1> QED BY <1>1, <1>2, <1>3 DEF Held

(* A call that returns with a count and an error that say what became of   *)
(* the items it was given returns as the forwarder's does.                 *)
LEMMA ReturnsAlike ==
  ASSUME NEW v \in WriterType, NEW c \in CallType, NEW n \in 0 .. Len(c.given),
         NEW why, NEW err \in {why, "source fault", "no progress"},
         Return(v, c, n, err), NEW left \in Seq(Item),
         err # why => c.op = "ReadFrom" /\ why = "nil",
         c.op = "ReadFrom" => n = Len(c.given),
         c.op \in {"WriteItem", "Flush"} => n = 0,
         err = "nil" => Dropped(c, n, err) = 0,
         Dropped(c, n, err) <= Len(left),
         Buffered(v) = First(Len(left) - Dropped(c, n, err), left),
         c.op = "Flush" /\ err = "nil" => left = <<>>
  PROVE  Promise!Returns(Plain(c), left, why)
<1>1. /\ writer' = v /\ call' = NoCall
      /\ result' = [op |-> c.op, given |-> c.given, n |-> n, err |-> err]
  BY DEF Return
<1>2. Plain(c).op = c.op /\ Plain(c).given = c.given
  BY DEF Plain
<1>3. [op |-> call'.op, given |-> call'.given] = Promise!NoCall
  BY <1>1 DEF NoCall, Promise!NoCall
<1>4. Buffered(writer') \o call'.rest = Buffered(v)
  BY <1>1, BufferedType, ConcatEmptySeq DEF NoCall
<1>5. Dropped(c, n, err) =
        IF c.op \in {"Write", "WriteItem"}
        THEN Len(c.given) - Promise!Accepted(c.op, n, err) ELSE 0
  BY DEF Dropped, Promise!Accepted
<1> DEFINE dropped == IF Plain(c).op \in {"Write", "WriteItem"}
                      THEN Len(Plain(c).given) - Promise!Accepted(Plain(c).op, n, err) ELSE 0
<1>6. dropped = Dropped(c, n, err)
  BY <1>2, <1>5
<1>7. /\ result' = [op |-> Plain(c).op, given |-> Plain(c).given, n |-> n, err |-> err]
      /\ err # why => Plain(c).op = "ReadFrom" /\ why = "nil"
      /\ Plain(c).op = "ReadFrom" => n = Len(Plain(c).given)
      /\ Plain(c).op \in {"WriteItem", "Flush"} => n = 0
      /\ err = "nil" => dropped = 0
      /\ dropped <= Len(left)
      /\ Buffered(writer') \o call'.rest = Promise!First(Len(left) - dropped, left)
      /\ Plain(c).op = "Flush" /\ err = "nil" => left = <<>>
  <2> HIDE DEF dropped
  <2> QED BY <1>1, <1>2, <1>4, <1>6 DEF Promise!First, First
<1>8. n \in 0 .. Len(Plain(c).given)
  BY <1>2
<1> QED BY <1>3, <1>7, <1>8 DEF Promise!Returns

LEMMA NothingCutOff ==
  ASSUME NEW s \in Seq(Item)
  PROVE  First(Len(s) - 0, s) = s
<1>1. Len(s) - 0 = Len(s)
  OBVIOUS
<1> QED BY <1>1, SubSeqFull DEF First

(* The two ways to return: with everything accepted, or with an error and  *)
(* what is left of the slice dropped.                                      *)
LEMMA ReturnsWithAll ==
  ASSUME NEW v \in WriterType, NEW c \in CallType, NEW n \in 0 .. Len(c.given),
         NEW why, NEW err \in {why, "source fault", "no progress"},
         Return(v, c, n, err),
         err # why => c.op = "ReadFrom" /\ why = "nil",
         c.op = "ReadFrom" => n = Len(c.given),
         c.op \in {"WriteItem", "Flush"} => n = 0,
         Dropped(c, n, err) = 0,
         c.op = "Flush" /\ err = "nil" => Buffered(v) = <<>>
  PROVE  Promise!Returns(Plain(c), Buffered(v), why)
<1> DEFINE left == Buffered(v)
<1>1. left \in Seq(Item)
  BY BufferedType
<1> HIDE DEF left
<1>2. left = First(Len(left) - Dropped(c, n, err), left)
  BY <1>1, NothingCutOff
<1>3. Dropped(c, n, err) <= Len(left)
  <2>1. 0 <= Len(left)
    BY <1>1, LenPositive, Zenon
  <2> QED BY <2>1, Zenon
<1>4. err = "nil" => Dropped(c, n, err) = 0
  OBVIOUS
<1>5. Promise!Returns(Plain(c), left, why)
  <2>1. Buffered(v) = First(Len(left) - Dropped(c, n, err), left)
    BY <1>2 DEF left
  <2>2. c.op = "Flush" /\ err = "nil" => left = <<>>
    BY DEF left
  <2> QED BY <1>1, <1>3, <1>4, <2>1, <2>2, ReturnsAlike
<1> QED BY <1>5 DEF left

LEMMA ReturnsDropping ==
  ASSUME NEW w \in WriterType, NEW c \in CallType, NEW n \in 0 .. Len(c.given),
         c.op \in {"Write", "WriteItem"}, c.op = "WriteItem" => n = 0,
         w.err # "nil", Return(w, c, n, w.err), Dropped(c, n, w.err) = Len(c.rest)
  PROVE  Promise!Returns(Plain(c), Held(w, c), w.err)
<1> DEFINE left == Held(w, c)
<1>1. Buffered(w) \in Seq(Item) /\ c.rest \in Seq(Item)
  BY BufferedType DEF CallType
<1>2. left \in Seq(Item) /\ Len(c.rest) <= Len(left)
  BY <1>1, ConcatProperties DEF Held
<1>3. Buffered(w) = First(Len(left) - Dropped(c, n, w.err), left)
  BY <1>1, CutOff DEF Held
<1> HIDE DEF left
<1>4. Promise!Returns(Plain(c), left, w.err)
  BY <1>2, <1>3, ReturnsAlike
<1> QED BY <1>4 DEF left

(* The method c goes on with the writer w: it returns, or it waits with    *)
(* the same items on their way.                                            *)
Goes(w, c) ==
  \/ /\ writer'.err = w.err
     /\ Promise!Returns(Plain(c), Held(w, c), w.err)
  \/ /\ w.err = "nil" /\ writer'.err = "nil"
     /\ Held(writer', call') = Held(w, c) /\ Plain(call') = Plain(c)
     /\ UNCHANGED result

LEMMA WaitGoes ==
  ASSUME NEW w \in WriterType, NEW c \in CallType, NEW at \in Place,
         w.err = "nil", Wait(w, c, at)
  PROVE  Goes(w, c)
<1>1. call'.rest = c.rest /\ call'.op = c.op /\ call'.given = c.given /\ writer' = w
  BY DEF Wait, CallType
<1> QED BY <1>1 DEF Wait, Goes, Held, Plain

LEMMA WriteLoopGoes ==
  ASSUME NEW w \in WriterType, NEW c \in CallType, c.op = "Write", Holding(c),
         WriteLoop(w, c)
  PROVE  Goes(w, c)
<1> DEFINE room == Available(w)
           rest == SubSeq(c.rest, room + 1, Len(c.rest))
           top == SubSeq(c.rest, 1, room)
           d == [c EXCEPT !.rest = rest, !.count = @ + room]
<1>1. /\ c.rest \in Seq(Item) /\ Len(c.rest) \in Nat /\ room \in Nat /\ c.count \in Nat
      /\ c.count + Len(c.rest) = Len(c.given) /\ Len(c.given) \in Nat
  BY WriterAssumption DEF CallType, WriterType, Available, Holding
<1>2. /\ Buffered(w) \in Seq(Item)
      /\ Held(w, c) \in Seq(Item) /\ Len(Held(w, c)) \in Nat
  BY <1>1, HeldType, BufferedType DEF WriterType
<1>3. CASE w.err # "nil" /\ Return(w, c, c.count, w.err)
  <2>1. Dropped(c, c.count, w.err) = Len(c.rest)
    BY <1>1 DEF Dropped
  <2>2. c.count \in 0 .. Len(c.given)
    BY <1>1
  <2>3. Promise!Returns(Plain(c), Held(w, c), w.err)
    BY <1>3, <2>1, <2>2, ReturnsDropping
  <2> QED BY <1>3, <2>3 DEF Goes, Return
<1>4. CASE /\ w.err = "nil" /\ Len(c.rest) <= room
           /\ Return(Stored(w, c.rest), c, c.count + Len(c.rest), "nil")
  <2> DEFINE v == Stored(w, c.rest)
  <2>1. v \in WriterType /\ v.err = "nil" /\ Buffered(v) = Held(w, c)
    BY <1>1, <1>4, StoredType, StoredItems DEF Held
  <2>2. Return(v, c, Len(c.given), "nil") /\ Len(c.given) \in 0 .. Len(c.given)
    BY <1>1, <1>4
  <2>3. Dropped(c, Len(c.given), "nil") = 0
    BY <1>1 DEF Dropped
  <2> HIDE DEF v
  <2>4. Promise!Returns(Plain(c), Buffered(v), "nil")
    BY <2>1, <2>2, <2>3, ReturnsWithAll
  <2> QED BY <1>4, <2>1, <2>2, <2>4 DEF Goes, Return
<1>5. CASE w.err = "nil" /\ Wait(w, c, "direct")
  BY <1>5, WaitGoes DEF Place
<1>6. CASE /\ w.err = "nil" /\ Len(c.rest) > room
           /\ Wait(Stored(w, top), d, "flush")
  <2> DEFINE v == Stored(w, top)
  <2>1. room \in 0 .. Len(c.rest) /\ top = First(room, c.rest) /\ rest = After(room, c.rest)
    BY <1>1, <1>6 DEF First, After
  <2> HIDE DEF top, rest, room
  <2>2. /\ top \in Seq(Item) /\ Len(top) = room /\ rest \in Seq(Item)
        /\ top \o rest = c.rest
    BY <1>1, <2>1, FirstType, AfterType, CutInTwo
  <2>3. Len(top) <= Available(w)
    BY <1>1, <2>2 DEF room
  <2>4. v \in WriterType /\ v.err = "nil" /\ Buffered(v) = Buffered(w) \o top
    BY <1>6, <2>2, <2>3, StoredType, StoredItems
  <2>5. Buffered(v) \o rest = Held(w, c)
    <3> DEFINE b == Buffered(w)
    <3>1. b \in Seq(Item) /\ Buffered(v) = b \o top /\ Held(w, c) = b \o c.rest
      BY <1>2, <2>4 DEF Held
    <3> HIDE DEF b, v
    <3>2. (b \o top) \o rest = b \o (top \o rest)
      BY <2>2, <3>1, Associative
    <3> QED BY <2>2, <3>1, <3>2
  <2> HIDE DEF v
  <2>6. /\ writer' = v /\ call'.rest = rest /\ call'.op = c.op /\ call'.given = c.given
        /\ UNCHANGED result
    BY <1>6 DEF Wait, CallType, v
  <2> QED BY <1>6, <2>4, <2>5, <2>6 DEF Goes, Held, Plain
<1> HIDE DEF d
<1> QED BY <1>3, <1>4, <1>5, <1>6 DEF WriteLoop, d

LEMMA WriteItemEndGoes ==
  ASSUME NEW w \in WriterType, NEW c \in CallType, c.op = "WriteItem", Holding(c),
         w.err = "nil" => w.n < Size, WriteItemEnd(w, c)
  PROVE  Goes(w, c)
<1>1. /\ c.rest = c.given /\ c.given \in Seq(Item) /\ Len(c.given) = 1
      /\ 0 \in 0 .. Len(c.given)
  BY DEF CallType, Holding
<1>2. CASE w.err # "nil"
  <2>1. Dropped(c, 0, w.err) = Len(c.rest)
    BY <1>1, <1>2 DEF Dropped
  <2>2. Return(w, c, 0, w.err)
    BY <1>2 DEF WriteItemEnd
  <2>3. Promise!Returns(Plain(c), Held(w, c), w.err)
    BY <1>1, <1>2, <2>1, <2>2, ReturnsDropping
  <2> QED BY <2>2, <2>3 DEF Goes, Return
<1>3. CASE w.err = "nil"
  <2> DEFINE v == Stored(w, c.given)
  <2>1. Len(c.given) <= Available(w)
    BY <1>1, <1>3, WriterAssumption DEF WriterType, Available
  <2>2. v \in WriterType /\ v.err = "nil" /\ Buffered(v) = Held(w, c)
    BY <1>1, <1>3, <2>1, StoredType, StoredItems DEF Held
  <2>3. Return(v, c, 0, "nil")
    BY <1>3 DEF WriteItemEnd
  <2>4. Dropped(c, 0, "nil") = 0
    BY <1>1 DEF Dropped
  <2> HIDE DEF v
  <2>5. Promise!Returns(Plain(c), Buffered(v), "nil")
    BY <1>1, <2>2, <2>3, <2>4, ReturnsWithAll
  <2> QED BY <1>3, <2>2, <2>3, <2>5 DEF Goes, Return
<1> QED BY <1>2, <1>3

LEMMA ReadFromReadGoes ==
  ASSUME NEW w \in WriterType, NEW c \in CallType, w.err = "nil", ReadFromRead(w, c)
  PROVE  Goes(w, c)
<1> DEFINE d == [c EXCEPT !.empties = 0]
<1>1. d \in CallType /\ Plain(d) = Plain(c) /\ Held(w, d) = Held(w, c)
  BY DEF CallType, Plain, Held
<1>2. CASE Wait(w, c, "pass on")
  BY <1>2, WaitGoes DEF Place
<1>3. CASE Wait(w, d, "read")
  <2> HIDE DEF d
  <2>1. Goes(w, d)
    BY <1>1, <1>3, WaitGoes DEF Place
  <2> QED BY <1>1, <2>1 DEF Goes
<1> QED BY <1>2, <1>3 DEF ReadFromRead

LEMMA ReadFromLoopGoes ==
  ASSUME NEW w \in WriterType, NEW c \in CallType, w.err = "nil", ReadFromLoop(w, c)
  PROVE  Goes(w, c)
BY ReadFromReadGoes, WaitGoes DEF ReadFromLoop, Place

(* Flush and ReadFrom keep everything.                                     *)
LEMMA FlushGoes ==
  ASSUME NEW w \in WriterType, NEW c \in CallType, c.op = "Flush", Holding(c),
         w.err = "nil" => w.n = 0, Return(w, c, 0, w.err)
  PROVE  Goes(w, c)
<1>1. c.rest = <<>> /\ 0 \in 0 .. Len(c.given) /\ Dropped(c, 0, w.err) = 0
  BY DEF Holding, Dropped
<1>2. w.err = "nil" => Buffered(w) = <<>>
  <2>1. Buffered(w) \in Seq(Item) /\ Len(Buffered(w)) = w.n
    BY BufferedType
  <2> QED BY <2>1, EmptySeq
<1>3. Held(w, c) = Buffered(w)
  BY <1>1, HeldType
<1>4. Promise!Returns(Plain(c), Buffered(w), w.err)
  BY <1>1, <1>2, ReturnsWithAll
<1> QED BY <1>3, <1>4 DEF Goes, Return

LEMMA ReadFromEnds ==
  ASSUME NEW v \in WriterType, NEW c \in CallType, c.op = "ReadFrom", Holding(c),
         NEW err \in {v.err, "source fault", "no progress"},
         err # v.err => v.err = "nil", Return(v, c, c.count, err)
  PROVE  Goes(v, c)
<1>1. /\ c.rest = <<>> /\ c.count = Len(c.given) /\ c.count \in 0 .. Len(c.given)
      /\ Dropped(c, c.count, err) = 0
  <2>1. c.rest = <<>> /\ c.count = Len(c.given)
    BY DEF Holding
  <2>2. Len(c.given) \in 0 .. Len(c.given)
    BY LenNumber DEF CallType
  <2>3. Dropped(c, c.count, err) = 0
    BY DEF Dropped
  <2> QED BY <2>1, <2>2, <2>3, Zenon
<1>2. Held(v, c) = Buffered(v)
  BY <1>1, HeldType
<1>3. Promise!Returns(Plain(c), Buffered(v), v.err)
  BY <1>1, ReturnsWithAll
<1> QED BY <1>2, <1>3 DEF Goes, Return

LEMMA AfterFlushGoes ==
  ASSUME NEW w \in WriterType, NEW c \in CallType, w.err = "nil" => w.n = 0,
         Holding(c), AfterFlush(w, c)
  PROVE  Goes(w, c)
<1>1. w.err = "nil" => w.n < Size
  BY WriterAssumption
<1>2. CASE c.op = "Write" /\ WriteLoop(w, c)
  BY <1>2, WriteLoopGoes
<1>3. CASE c.op = "WriteItem" /\ WriteItemEnd(w, c)
  BY <1>1, <1>3, WriteItemEndGoes
<1>4. CASE c.op = "Flush" /\ Return(w, c, 0, w.err)
  BY <1>4, FlushGoes
<1>5. CASE c.op = "ReadFrom" /\ Return(w, c, c.count, w.err)
  BY <1>5, ReadFromEnds
<1>6. CASE c.op = "ReadFrom" /\ w.err = "nil" /\ ReadFromRead(w, c)
  BY <1>6, ReadFromReadGoes
<1> QED BY <1>2, <1>3, <1>4, <1>5, <1>6 DEF AfterFlush

-----------------------------------------------------------------------------
(* The calls.                                                              *)

LEMMA LookResult ==
  \A op : [Promise!NoResult EXCEPT !.op = op] =
            [op |-> op, given |-> <<>>, n |-> 0, err |-> "nil"]
BY DEF Promise!NoResult

LEMMA IdleHolds ==
  ASSUME Inv, call = NoCall
  PROVE  Held(writer, call) = Buffered(writer) /\ Plain(call) = Promise!NoCall
<1>1. call.rest = <<>> /\ Plain(call) = Promise!NoCall
  BY DEF NoCall, Plain, Promise!NoCall
<1> QED BY <1>1, HeldType DEF Inv

(* A call that is handed p returns at once or goes on with p on its way.   *)
LEMMA CallStep ==
  ASSUME Inv, call = NoCall, taken' = <<>>, NEW c \in CallType, NEW op, NEW p \in Seq(Item),
         c.op = op, c.given = p, c.rest = p, Goes(writer, c),
         writer.err # "nil" => writer' = writer /\ call' = NoCall
  PROVE  Promise!AtOnce(op, p) \/ Promise!Begin(op, p)
<1>1. Held(writer, c) = Held(writer, call) \o p
  BY IdleHolds DEF Held
<1>2. Plain(c) = [op |-> op, given |-> p]
  BY DEF Plain
<1>3. Plain(call) = Promise!NoCall
  BY IdleHolds
<1>4. CASE writer'.err = writer.err /\ Promise!Returns(Plain(c), Held(writer, c), writer.err)
  <2>1. writer.err # "nil" => Held(writer', call') = Held(writer, call)
    BY DEF Held
  <2> QED BY <1>1, <1>2, <1>3, <1>4, <2>1 DEF Promise!AtOnce, Held, Plain
<1>5. CASE /\ writer.err = "nil" /\ writer'.err = "nil"
           /\ Held(writer', call') = Held(writer, c) /\ Plain(call') = Plain(c)
           /\ UNCHANGED result
  BY <1>1, <1>2, <1>3, <1>5 DEF Promise!Begin, Held, Plain
<1> QED BY <1>4, <1>5 DEF Goes

LEMMA CallingRefines == ASSUME Inv, Calling PROVE Promise!Next
<1>1. writer \in WriterType /\ writer.n \in Nat /\ writer.n <= Size
  BY WriterAssumption DEF Inv, WriterType
<1>2. <<>> \in Seq(Item) /\ Len(<<>>) = 0
  OBVIOUS
<1>3. ASSUME NEW p \in Input, Write(p) PROVE Promise!Next
  <2> DEFINE c == Called("Write", p)
  <2>1. /\ c \in CallType /\ c.op = "Write" /\ c.given = p /\ c.rest = p /\ c.count = 0
        /\ p \in Seq(Item) /\ Len(p) \in Nat
    BY WriterAssumption, CalledType DEF Op
  <2>2. WriteLoop(writer, c) /\ call = NoCall /\ taken' = <<>>
    BY <1>3 DEF Write, Begins
  <2> HIDE DEF c
  <2>3. Holding(c)
    BY <2>1 DEF Holding
  <2>4. Goes(writer, c)
    BY <1>1, <2>1, <2>2, <2>3, WriteLoopGoes
  <2>5. writer.err # "nil" => writer' = writer /\ call' = NoCall
    BY <2>2 DEF WriteLoop, Return
  <2>6. Promise!AtOnce("Write", p) \/ Promise!Begin("Write", p)
    BY <2>1, <2>2, <2>4, <2>5, CallStep
  <2> QED BY <2>6 DEF Promise!Next
<1>4. ASSUME NEW x \in Item, WriteItem(x) PROVE Promise!Next
  <2> DEFINE c == Called("WriteItem", <<x>>)
  <2>1. /\ <<x>> \in Seq(Item) /\ Len(<<x>>) = 1
        /\ c \in CallType /\ c.op = "WriteItem" /\ c.given = <<x>> /\ c.rest = <<x>>
    <3>1. <<x>> \in Seq(Item) /\ Len(<<x>>) = 1 /\ "WriteItem" \in Op
      BY DEF Op
    <3> QED BY <3>1, CalledType
  <2>2. call = NoCall /\ taken' = <<>>
    BY <1>4 DEF WriteItem, Begins
  <2>3. IF writer.err = "nil" /\ Available(writer) <= 0 THEN Wait(writer, c, "flush")
        ELSE WriteItemEnd(writer, c)
    BY <1>4 DEF WriteItem
  <2> HIDE DEF c
  <2>4. Holding(c)
    BY <2>1 DEF Holding
  <2>5. CASE writer.err = "nil" /\ Available(writer) <= 0
    <3>1. Goes(writer, c)
      BY <1>1, <2>1, <2>3, <2>5, WaitGoes DEF Place
    <3>2. Promise!AtOnce("WriteItem", <<x>>) \/ Promise!Begin("WriteItem", <<x>>)
      BY <2>1, <2>2, <2>5, <3>1, CallStep
    <3> QED BY <3>2 DEF Promise!Next
  <2>6. CASE ~ (writer.err = "nil" /\ Available(writer) <= 0)
    <3>1. WriteItemEnd(writer, c) /\ writer.err = "nil" => writer.n < Size
      BY <1>1, <2>6, WriterAssumption DEF Available
    <3>2. Goes(writer, c)
      BY <1>1, <2>1, <2>3, <2>4, <2>6, <3>1, WriteItemEndGoes
    <3>3. writer.err # "nil" => writer' = writer /\ call' = NoCall
      BY <2>3, <2>6 DEF WriteItemEnd, Return
    <3>4. Promise!AtOnce("WriteItem", <<x>>) \/ Promise!Begin("WriteItem", <<x>>)
      BY <2>1, <2>2, <3>2, <3>3, CallStep
    <3> QED BY <3>4 DEF Promise!Next
  <2> QED BY <2>5, <2>6
<1>5. CASE Flush
  <2> DEFINE c == Called("Flush", <<>>)
  <2>1. /\ c \in CallType /\ c.op = "Flush" /\ c.given = <<>> /\ c.rest = <<>>
    BY <1>2, CalledType DEF Op
  <2>2. call = NoCall /\ taken' = <<>>
    BY <1>5 DEF Flush, Begins
  <2>3. IF writer.err # "nil" \/ writer.n = 0 THEN Return(writer, c, 0, writer.err)
        ELSE Wait(writer, c, "flush")
    BY <1>5 DEF Flush
  <2> HIDE DEF c
  <2>4. Holding(c)
    BY <2>1 DEF Holding
  <2>5. Goes(writer, c)
    BY <1>1, <2>1, <2>3, <2>4, WaitGoes, FlushGoes DEF Place
  <2>6. writer.err # "nil" => writer' = writer /\ call' = NoCall
    BY <2>3 DEF Return
  <2>7. Promise!AtOnce("Flush", <<>>) \/ Promise!Begin("Flush", <<>>)
    BY <1>2, <2>1, <2>2, <2>5, <2>6, CallStep
  <2> QED BY <2>7 DEF Promise!Next
<1>6. ASSUME NEW length \in Length, ReadFrom(length) PROVE Promise!Next
  <2> DEFINE c == [Called("ReadFrom", <<>>) EXCEPT !.left = length]
  <2>1. /\ c \in CallType /\ c.op = "ReadFrom" /\ c.given = <<>> /\ c.rest = <<>>
        /\ c.count = 0
    <3>1. /\ Called("ReadFrom", <<>>) \in CallType /\ Called("ReadFrom", <<>>).op = "ReadFrom"
          /\ Called("ReadFrom", <<>>).given = <<>> /\ Called("ReadFrom", <<>>).rest = <<>>
          /\ Called("ReadFrom", <<>>).count = 0 /\ length \in Nat
      BY <1>2, CalledType, WriterAssumption DEF Op
    <3> QED BY <3>1 DEF CallType
  <2>2. call = NoCall /\ taken' = <<>>
    BY <1>6 DEF ReadFrom, Begins
  <2>3. IF writer.err # "nil" THEN Return(writer, c, 0, writer.err)
        ELSE ReadFromLoop(writer, c)
    BY <1>6 DEF ReadFrom
  <2> HIDE DEF c
  <2>4. Holding(c)
    BY <1>2, <2>1 DEF Holding
  <2>5. Goes(writer, c)
    BY <1>1, <2>1, <2>3, <2>4, ReadFromEnds, ReadFromLoopGoes
  <2>6. writer.err # "nil" => writer' = writer /\ call' = NoCall
    BY <2>3 DEF Return
  <2>7. Promise!AtOnce("ReadFrom", <<>>) \/ Promise!Begin("ReadFrom", <<>>)
    BY <1>2, <2>1, <2>2, <2>5, <2>6, CallStep
  <2> QED BY <2>7 DEF Promise!Next
<1>7. CASE Reset
  <2>1. call = NoCall /\ taken' = <<>>
    BY <1>7 DEF Reset, Begins
  <2>2. Plain(call) = Promise!NoCall
    BY <2>1, IdleHolds
  <2>3. ASSUME NEW readerFrom \in BOOLEAN,
               Return([writer EXCEPT !.n = 0, !.err = "nil", !.readerFrom = readerFrom],
                      Called("Reset", <<>>), 0, "nil")
        PROVE  Promise!Reset
    <3>1. /\ writer'.n = 0 /\ writer'.err = "nil" /\ call' = NoCall
          /\ writer'.buf = writer.buf
      BY <1>1, <2>3 DEF Return, WriterType
    <3>2. result' = [op |-> "Reset", given |-> <<>>, n |-> 0, err |-> "nil"]
      BY <2>3 DEF Return, Called, NoCall
    <3>3. Held(writer', call') = <<>>
      BY <3>1, SubSeqEmpty, ConcatEmptySeq DEF Held, Buffered, NoCall
    <3> QED BY <2>1, <2>2, <3>1, <3>2, <3>3
            DEF Promise!Reset, Promise!NoResult, Promise!NoCall, Held, Plain, NoCall
  <2>4. ASSUME Return(writer, Called("Reset itself", <<>>), 0, "nil") PROVE Promise!Look
    <3>1. /\ writer' = writer /\ call' = NoCall
          /\ result' = [op |-> "Reset itself", given |-> <<>>, n |-> 0, err |-> "nil"]
      BY <2>4 DEF Return, Called, NoCall
    <3>2. result' = [Promise!NoResult EXCEPT !.op = "Reset itself"]
      BY <3>1, LookResult
    <3>3. /\ Buffered(writer') \o call'.rest = Buffered(writer) \o call.rest
          /\ writer'.err = writer.err /\ call' = call
      BY <2>1, <3>1
    <3> QED BY <2>1, <2>2, <3>2, <3>3 DEF Promise!Look, Plain
  <2> QED BY <1>7, <2>3, <2>4 DEF Reset, Promise!Next
<1>8. ASSUME NEW p \in Chunk, AvailableBuffer(p) PROVE Promise!Next
  <2>1. call = NoCall /\ taken' = <<>> /\ p \in Seq(Item) /\ Len(p) <= Available(writer)
    BY <1>8, ChunkType DEF AvailableBuffer, Begins
  <2>2. Plain(call) = Promise!NoCall
    BY <2>1, IdleHolds
  <2> DEFINE v == [writer EXCEPT !.buf = Stored(writer, p).buf]
  <2>3. /\ writer' = v /\ call' = NoCall
        /\ result' = [op |-> "AvailableBuffer", given |-> <<>>, n |-> 0, err |-> "nil"]
    BY <1>8 DEF AvailableBuffer, Return, Called, NoCall
  <2>4. v \in WriterType /\ v.n = writer.n /\ v.err = writer.err
    <3>1. Stored(writer, p) \in WriterType
      BY <1>1, <2>1, StoredType
    <3> QED BY <1>1, <3>1 DEF WriterType
  <2>5. \A i \in 1 .. writer.n : v.buf[i] = writer.buf[i]
    <3>1. v.buf = [i \in 1 .. Size |->
                    IF i \in writer.n + 1 .. writer.n + Len(p) THEN p[i - writer.n]
                    ELSE writer.buf[i]]
      BY <1>1 DEF Stored, WriterType
    <3> QED BY <1>1, <3>1, WriterAssumption
  <2> HIDE DEF v
  <2>6. /\ Buffered(v) \in Seq(Item) /\ Len(Buffered(v)) = writer.n
        /\ \A i \in 1 .. writer.n : Buffered(v)[i] = v.buf[i]
    BY <2>4, BufferedType
  <2>7. /\ Buffered(writer) \in Seq(Item) /\ Len(Buffered(writer)) = writer.n
        /\ \A i \in 1 .. writer.n : Buffered(writer)[i] = writer.buf[i]
    BY <1>1, BufferedType
  <2>8. Buffered(v) = Buffered(writer)
    BY <2>5, <2>6, <2>7, SeqEqual
  <2>9. result' = [Promise!NoResult EXCEPT !.op = "AvailableBuffer"]
    BY <2>3, LookResult
  <2>10. /\ Buffered(writer') \o call'.rest = Buffered(writer) \o call.rest
         /\ writer'.err = writer.err /\ call' = call
    BY <2>1, <2>3, <2>4, <2>8
  <2>11. Promise!Look
    BY <2>1, <2>2, <2>9, <2>10 DEF Promise!Look, Plain
  <2> QED BY <2>11 DEF Promise!Next
<1> QED BY <1>3, <1>4, <1>5, <1>6, <1>7, <1>8 DEF Calling

-----------------------------------------------------------------------------
(* The turns of the other end.                                             *)

(* The writer took the first k items on their way and the method c goes on.*)
LEMMA ForwardStep ==
  ASSUME Inv, call.at # "none", NEW w \in WriterType, NEW c \in CallType,
         NEW k \in 0 .. Len(Held(writer, call)),
         taken' = First(k, Held(writer, call)),
         w.err \in SinkErr \cup {"short"},
         Held(w, c) = After(k, Held(writer, call)), Plain(c) = Plain(call), Goes(w, c)
  PROVE  Promise!Forward
<1>1. writer.err = "nil" /\ Plain(call) # Promise!NoCall
  BY DEF Inv, Waiting, Plain, Promise!NoCall
<1>2. CASE writer'.err = w.err /\ Promise!Returns(Plain(c), Held(w, c), w.err)
  BY <1>1, <1>2 DEF Promise!Forward, Promise!First, Promise!After, First, After, Held, Plain
<1>3. CASE /\ w.err = "nil" /\ writer'.err = "nil"
           /\ Held(writer', call') = Held(w, c) /\ Plain(call') = Plain(c)
           /\ UNCHANGED result
  BY <1>1, <1>3 DEF Promise!Forward, Promise!First, Promise!After, First, After, Held, Plain
<1> QED BY <1>2, <1>3 DEF Goes

LEMMA FlushTurnRefines ==
  ASSUME Inv, NEW num \in Nat, NEW err \in SinkErr, FlushTurn(num, err)
  PROVE  Promise!Next
<1> DEFINE w == Flushed(writer, num, err)
           b == Buffered(writer)
<1>1. /\ writer \in WriterType /\ call \in CallType /\ num \in 0 .. writer.n
      /\ call.at = "flush" /\ call.rest \in Seq(Item) /\ Holding(call)
  BY WriterAssumption DEF Inv, WriterType, CallType, FlushTurn
<1>2. /\ w \in WriterType /\ (w.err = "nil" => w.n = 0)
  BY <1>1, FlushedType
<1>3. Buffered(w) = After(num, b)
  BY <1>1, FlushedItems
<1>4. taken' = First(num, b) /\ AfterFlush(w, call)
  BY DEF FlushTurn, First
<1> HIDE DEF w
<1>5. Goes(w, call)
  BY <1>1, <1>2, <1>4, AfterFlushGoes
<1>6. b \in Seq(Item) /\ Len(b) = writer.n /\ num \in 0 .. Len(b)
  BY <1>1, BufferedType
<1> HIDE DEF b
<1>7. /\ First(num, b \o call.rest) = First(num, b)
      /\ After(num, b \o call.rest) = After(num, b) \o call.rest
  BY <1>1, <1>6, FirstOfConcat, AfterOfConcat
<1>8. num \in 0 .. Len(b \o call.rest)
  BY <1>1, <1>6, ConcatProperties
<1>9. Promise!Forward
  <2>1. Held(writer, call) = b \o call.rest
    BY DEF Held, b
  <2>2. Held(w, call) = After(num, b) \o call.rest
    BY <1>3 DEF Held
  <2>3. w.err \in SinkErr \cup {"short"}
    BY <1>2 DEF WriterType
  <2> QED BY <1>1, <1>2, <1>4, <1>5, <1>7, <1>8, <2>1, <2>2, <2>3, ForwardStep
<1> QED BY <1>9 DEF Promise!Next

LEMMA DirectTurnRefines ==
  ASSUME Inv, NEW num \in Nat, NEW err \in SinkErr, DirectTurn(num, err)
  PROVE  Promise!Next
<1> DEFINE w == [writer EXCEPT !.err = err]
           rest == SubSeq(call.rest, num + 1, Len(call.rest))
           c == [call EXCEPT !.rest = rest, !.count = @ + num]
<1>1. /\ writer \in WriterType /\ call \in CallType /\ call.op = "Write"
      /\ call.rest \in Seq(Item) /\ num \in 0 .. Len(call.rest) /\ num \in Nat
      /\ writer.n = 0 /\ call.at = "direct"
      /\ call.count \in Nat /\ call.count + Len(call.rest) = Len(call.given)
  BY WriterAssumption DEF Inv, CallType, Waiting, DirectTurn, Holding
<1>2. w \in WriterType /\ w.err = err /\ w.n = 0 /\ w.buf = writer.buf
  BY <1>1 DEF WriterType
<1>3. taken' = First(num, call.rest) /\ rest = After(num, call.rest) /\ WriteLoop(w, c)
  BY DEF DirectTurn, First, After
<1> HIDE DEF rest
<1>4. rest \in Seq(Item) /\ Len(rest) = Len(call.rest) - num
  BY <1>1, <1>3, AfterType
<1>5. c \in CallType /\ c.op = "Write"
  <2>1. call.count + num \in Nat
    BY <1>1
  <2> QED BY <1>1, <1>4, <2>1 DEF CallType
<1>6. c.rest = rest /\ c.given = call.given /\ c.count = call.count + num
  BY <1>1 DEF CallType
<1> HIDE DEF c, w
<1>7. Holding(c)
  <2>1. Len(call.rest) \in Nat
    BY <1>1
  <2> QED BY <1>1, <1>4, <1>5, <1>6, <2>1 DEF Holding
<1>8. Goes(w, c)
  BY <1>2, <1>3, <1>5, <1>7, WriteLoopGoes
<1>9. Buffered(writer) = <<>> /\ Buffered(w) = <<>>
  BY <1>1, <1>2, SubSeqEmpty DEF Buffered
<1>10. Held(writer, call) = call.rest /\ Held(w, c) = After(num, call.rest)
  BY <1>1, <1>3, <1>4, <1>6, <1>9, ConcatEmptySeq DEF Held
<1>11. Plain(c) = Plain(call)
  BY <1>1, <1>5, <1>6 DEF Plain
<1>12. Promise!Forward
  BY <1>1, <1>2, <1>3, <1>5, <1>8, <1>10, <1>11, ForwardStep
<1> QED BY <1>12 DEF Promise!Next

LEMMA ReadTurnRefines ==
  ASSUME Inv, NEW chunk \in Chunk, NEW err \in SourceErr, ReadTurn(chunk, err)
  PROVE  Promise!Next
<1> DEFINE w == Stored(writer, chunk)
           c == [call EXCEPT !.given = @ \o chunk, !.left = @ - Len(chunk),
                             !.count = @ + Len(chunk), !.eof = err = "EOF"]
           d == [c EXCEPT !.empties = @ + 1]
<1>1. /\ writer \in WriterType /\ call \in CallType /\ chunk \in Seq(Item)
      /\ call.op = "ReadFrom" /\ writer.err = "nil" /\ taken' = <<>>
      /\ Len(chunk) <= Available(writer)
  BY ChunkType DEF Inv, Waiting, ReadTurn
<1>2. /\ call.given \in Seq(Item) /\ call.left \in Nat /\ call.count \in Nat
      /\ call.count = Len(call.given) /\ call.rest = <<>> /\ Len(chunk) \in Nat
      /\ call.empties \in Nat
  BY <1>1 DEF Inv, Holding, CallType
<1>3. w \in WriterType /\ w.err = "nil" /\ Buffered(w) = Buffered(writer) \o chunk
  BY <1>1, StoredType, StoredItems
<1>4. /\ call.given \o chunk \in Seq(Item)
      /\ Len(call.given \o chunk) = call.count + Len(chunk)
  BY <1>1, <1>2, ConcatProperties
<1>5. c \in CallType /\ c.op = "ReadFrom" /\ c.empties = call.empties
  <2>1. call.left - Len(chunk) \in Nat
    <3>1. Len(chunk) <= call.left
      BY DEF ReadTurn
    <3> QED BY <1>2, <3>1
  <2>2. call.count + Len(chunk) \in Nat /\ (err = "EOF") \in BOOLEAN
    BY <1>2
  <2> QED BY <1>1, <1>4, <2>1, <2>2 DEF CallType
<1>6. /\ c.given = call.given \o chunk /\ c.count = call.count + Len(chunk)
      /\ c.rest = <<>>
  BY <1>1, <1>2 DEF CallType
<1>7. \/ err = "nil" /\ Wait(w, d, "read")
      \/ err = "nil" /\ ReadFromLoop(w, c)
      \/ \E why \in {"nil", "source fault", "no progress"} : Return(w, c, c.count, why)
      \/ Wait(w, c, "flush")
  BY DEF ReadTurn, SourceErr
<1> HIDE DEF c, w
<1>8. Holding(c)
  BY <1>4, <1>5, <1>6 DEF Holding
<1>9. Goes(w, c)
  <2>1. CASE Wait(w, d, "read")
    <3>1. c.empties + 1 \in Nat
      BY <1>2, <1>5
    <3>2. d \in CallType /\ Plain(d) = Plain(c) /\ Held(w, d) = Held(w, c)
      BY <1>5, <3>1 DEF CallType, Plain, Held
    <3> HIDE DEF d
    <3>3. Goes(w, d)
      BY <1>3, <2>1, <3>2, WaitGoes DEF Place
    <3> QED BY <3>2, <3>3 DEF Goes
  <2>2. CASE ReadFromLoop(w, c)
    BY <1>3, <1>5, <2>2, ReadFromLoopGoes
  <2>3. ASSUME NEW why \in {"nil", "source fault", "no progress"},
               Return(w, c, c.count, why)
        PROVE  Goes(w, c)
    BY <1>3, <1>5, <1>8, <2>3, ReadFromEnds
  <2>4. CASE Wait(w, c, "flush")
    BY <1>3, <1>5, <2>4, WaitGoes DEF Place
  <2> QED BY <1>7, <2>1, <2>2, <2>3, <2>4
<1>10. Held(w, c) = Held(writer, call) \o chunk
  <2>1. Held(writer, call) = Buffered(writer) /\ Held(w, c) = Buffered(w)
    BY <1>1, <1>2, <1>3, <1>5, <1>6, HeldType
  <2> QED BY <1>3, <2>1
<1>11. Plain(c) = [Plain(call) EXCEPT !.given = @ \o chunk] /\ Plain(call).op = "ReadFrom"
  <2> DEFINE r == Plain(call)
  <2>1. /\ r \in [op : Op, given : Seq(Item)]
        /\ r.op = "ReadFrom" /\ r.given = call.given
    BY <1>1, <1>2 DEF Plain, CallType
  <2>2. Plain(c) = [op |-> r.op, given |-> r.given \o chunk]
    BY <1>5, <1>6, <2>1 DEF Plain
  <2> HIDE DEF r
  <2>3. [r EXCEPT !.given = r.given \o chunk] = [op |-> r.op, given |-> r.given \o chunk]
    BY <1>4, <2>1, PlainExtended
  <2>4. Plain(c) = [r EXCEPT !.given = r.given \o chunk] /\ r.op = "ReadFrom"
    BY <2>1, <2>2, <2>3
  <2> QED BY <2>4 DEF r
<1>12. Promise!Absorb
  <2>1. CASE writer'.err = w.err /\ Promise!Returns(Plain(c), Held(w, c), w.err)
    BY <1>1, <1>3, <1>10, <1>11, <2>1 DEF Promise!Absorb, Held, Plain
  <2>2. CASE /\ w.err = "nil" /\ writer'.err = "nil"
             /\ Held(writer', call') = Held(w, c) /\ Plain(call') = Plain(c)
             /\ UNCHANGED result
    BY <1>1, <1>10, <1>11, <2>2 DEF Promise!Absorb, Held, Plain
  <2> QED BY <1>9, <2>1, <2>2 DEF Goes
<1> QED BY <1>12 DEF Promise!Next

LEMMA PassOnTurnRefines ==
  ASSUME Inv, NEW chunk \in Chunk, NEW err \in SinkErr, PassOnTurn(chunk, err)
  PROVE  Promise!Next
<1> DEFINE w == [writer EXCEPT !.err = err]
           c == [call EXCEPT !.given = @ \o chunk, !.count = @ + Len(chunk)]
<1>1. /\ writer \in WriterType /\ call \in CallType /\ chunk \in Seq(Item)
      /\ call.op = "ReadFrom" /\ writer.err = "nil" /\ writer.n = 0
      /\ taken' = chunk /\ Return(w, c, c.count, err)
  BY ChunkType DEF Inv, Waiting, PassOnTurn
<1>2. /\ call.given \in Seq(Item) /\ call.count \in Nat
      /\ call.count = Len(call.given) /\ call.rest = <<>> /\ Len(chunk) \in Nat
  BY <1>1 DEF Inv, Holding, CallType
<1>3. w \in WriterType /\ w.err = err /\ w.n = 0
  BY <1>1 DEF WriterType
<1>4. /\ call.given \o chunk \in Seq(Item)
      /\ Len(call.given \o chunk) = call.count + Len(chunk)
  BY <1>1, <1>2, ConcatProperties
<1>5. c \in CallType /\ c.op = "ReadFrom"
  <2>1. call.count + Len(chunk) \in Nat
    BY <1>2
  <2> QED BY <1>1, <1>4, <2>1 DEF CallType
<1>6. /\ c.given = call.given \o chunk /\ c.count = call.count + Len(chunk)
      /\ c.rest = <<>>
  BY <1>1, <1>2 DEF CallType
<1> HIDE DEF c, w
<1>7. Holding(c)
  BY <1>4, <1>5, <1>6 DEF Holding
<1>8. c.count = Len(c.given) /\ c.count \in 0 .. Len(c.given) /\ Dropped(c, c.count, err) = 0
  <2>1. c.given \in Seq(Item) /\ c.count = Len(c.given)
    BY <1>5, <1>7 DEF CallType, Holding
  <2>2. Dropped(c, c.count, err) = 0
    BY <1>5 DEF Dropped
  <2> QED BY <2>1, <2>2, LenNumber, Zenon
<1>9. Buffered(w) = <<>> /\ Buffered(writer) = <<>>
  BY <1>1, <1>3, SubSeqEmpty DEF Buffered
<1>10. Promise!Returns(Plain(c), <<>>, err)
  <2>1. Promise!Returns(Plain(c), Buffered(w), err)
    BY <1>1, <1>3, <1>5, <1>8, ReturnsWithAll
  <2> QED BY <1>9, <2>1
<1>11. writer'.err = err /\ Held(writer, call) = <<>>
  BY <1>1, <1>2, <1>3, <1>9, ConcatEmptySeq DEF Return, Held
<1>12. Plain(c) = [Plain(call) EXCEPT !.given = @ \o chunk] /\ Plain(call).op = "ReadFrom"
  <2> DEFINE r == Plain(call)
  <2>1. /\ r \in [op : Op, given : Seq(Item)]
        /\ r.op = "ReadFrom" /\ r.given = call.given
    BY <1>1, <1>2 DEF Plain, CallType
  <2>2. Plain(c) = [op |-> r.op, given |-> r.given \o chunk]
    BY <1>5, <1>6, <2>1 DEF Plain
  <2> HIDE DEF r
  <2>3. [r EXCEPT !.given = r.given \o chunk] = [op |-> r.op, given |-> r.given \o chunk]
    BY <1>4, <2>1, PlainExtended
  <2>4. Plain(c) = [r EXCEPT !.given = r.given \o chunk] /\ r.op = "ReadFrom"
    BY <2>1, <2>2, <2>3
  <2> QED BY <2>4 DEF r
<1>13. Promise!Absorb
  BY <1>1, <1>10, <1>11, <1>12 DEF Promise!Absorb, Held, Plain
<1> QED BY <1>13 DEF Promise!Next

LEMMA NextRefines == ASSUME Inv, [Next]_vars PROVE [Promise!Next]_(Promise!vars)
<1>1. CASE Calling
  BY <1>1, CallingRefines
<1>2. CASE Turn
  BY <1>2, TurnCount, FlushTurnRefines, DirectTurnRefines, ReadTurnRefines, PassOnTurnRefines
  DEF Turn
<1>3. CASE UNCHANGED vars
  BY <1>3 DEF vars, Promise!vars, Buffered
<1> QED BY <1>1, <1>2, <1>3 DEF Next

LEMMA InitRefines == ASSUME Init PROVE Promise!Init
<1>1. Buffered(writer) = <<>> /\ writer.err = "nil" /\ call = NoCall
  BY SubSeqEmpty DEF Init, NewWriter, Buffered
<1>2. Buffered(writer) \o call.rest = <<>>
  BY <1>1, ConcatEmptySeq DEF NoCall
<1> QED BY <1>1, <1>2 DEF Init, Promise!Init, NoCall, NoResult, Promise!NoCall, Promise!NoResult

(* Whatever the buffer's size, whatever its callers write and however the  *)
(* two other ends cut, refuse and fail: what was accepted is forwarded in  *)
(* order and once, or is still buffered, and counts and errors say which.  *)
THEOREM ForwardsInOrder == Spec => IsForwarder
<1>1. Init => Inv /\ Promise!Init
  BY InitType, InitRefines
<1>2. Inv /\ [Next]_vars => Inv' /\ [Promise!Next]_(Promise!vars)
  BY NextType, NextRefines
<1> QED BY <1>1, <1>2, PTL DEF Spec, IsForwarder, Promise!Spec

=============================================================================
