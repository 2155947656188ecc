-------------------------------- MODULE Buffer --------------------------------
(***************************************************************************)
(* Buffer[T] (buffer.go) with the peeks of peek.go and peek_buffer.go: one *)
(* slice that grows at its end and is read from its front, in memory that  *)
(* is reclaimed, slid down or reallocated by grow.  One action per method, *)
(* called in any order by one goroutine; ReadFrom and WriteTo are one step *)
(* per call they make on the caller's reader or writer.                    *)
(*                                                                         *)
(* buffer   the struct: cells is the array behind b.buf, up to its         *)
(*          capacity, of which the first len are b.buf; off and isReading  *)
(*          are the Go fields; made says that b.buf is not nil             *)
(* result   the last finished call: its arguments and what it returned     *)
(*          (err is the error, or the panic the caller recovered from)     *)
(* stream   the ReadFrom or WriteTo in progress: the items moved so far    *)
(*          (in Go only their count), what the reader has left, and the    *)
(*          length of the slice it has been handed (0 between two turns)   *)
(* promise  how many of the items that the last Grow made room for have    *)
(*          not been written yet (not a field of the program)              *)
(***************************************************************************)
EXTENDS Integers, Sequences

CONSTANTS
  Item, Zero,        (* the values of T, and its zero value              *)
  SmallBufferSize,   (* the first capacity of a nil buffer (64)          *)
  MinRead,           (* the room ReadFrom makes for each Read (512)      *)
  MaxInt,            (* the largest int                                  *)
  MaxAlloc,          (* the longest slice make can allocate              *)
  Slack,             (* how many items append may round a capacity up by *)
  Owned,             (* the slices callers pass to NewBuffer             *)
  Input,             (* the slices callers pass to Write                 *)
  Count,             (* the lengths, counts and indices callers pass     *)
  Room,              (* the counts callers pass to Grow                  *)
  Delim,             (* the delimiter functions, as sets of items        *)
  Length             (* how many items a reader given to ReadFrom has    *)

ASSUME BufferAssumption ==
  /\ Zero \in Item
  /\ SmallBufferSize \in 1 .. MaxAlloc /\ MinRead \in Nat \ {0} /\ Slack \in Nat
  /\ MaxAlloc \in Nat /\ MaxInt \in Nat /\ MaxAlloc <= MaxInt
  /\ Owned \subseteq Seq(Item) /\ \A s \in Owned : Len(s) <= MaxAlloc
  /\ Input \subseteq Seq(Item)
  /\ Count \subseteq Int /\ Room \subseteq Int
  /\ Delim \subseteq SUBSET Item /\ Length \subseteq Nat

VARIABLES buffer, result, stream, promise

vars == <<buffer, result, stream, promise>>

Zeros(n) == [i \in 1 .. n |-> Zero]
Smaller(a, b) == IF a < b THEN a ELSE b

(* new(Buffer[T]), and NewBuffer(s) for a slice without spare capacity.    *)
NewBuffer(s, made) ==
  [cells |-> s, len |-> Len(s), off |-> 0, isReading |-> FALSE, made |-> made]

Cap(b) == Len(b.cells)
BufLen(b) == b.len - b.off
Empty(b) == b.len <= b.off
Unread(b) == SubSeq(b.cells, b.off + 1, b.len)

NoStream == [op |-> "none", left |-> 0, room |-> 0, moved |-> <<>>]
NoResult == [op |-> "none", given |-> <<>>, args |-> <<>>, delim |-> {},
             n |-> 0, items |-> <<>>, err |-> "nil"]
Called(op, args) == [NoResult EXCEPT !.op = op, !.args = args]

Init ==
  /\ \/ buffer = NewBuffer(<<>>, FALSE)
     \/ \E s \in Owned : buffer = NewBuffer(s, TRUE)
  /\ result = NoResult /\ stream = NoStream /\ promise = 0

-----------------------------------------------------------------------------
(* What a method does to the struct.                                       *)

BufReset(b) == [b EXCEPT !.len = 0, !.off = 0, !.isReading = FALSE]

NotReading(b) == [b EXCEPT !.isReading = FALSE]

(* grow gives the front of the array back only once nothing is unread.     *)
Reclaimed(b) == IF BufLen(b) = 0 /\ b.off # 0 THEN BufReset(b) ELSE b

(* copy(b.buf, b.buf[b.off:])                                              *)
Slid(b) ==
  [b EXCEPT !.cells = Unread(b) \o SubSeq(b.cells, BufLen(b) + 1, Cap(b)),
            !.off = 0, !.len = BufLen(b)]

(* What growSlice(b.buf[b.off:], b.off+n) asks make for.                   *)
Asked(b, n) ==
  LET needed == b.len + n
      doubled == 2 * (Cap(b) - b.off)
  IN  IF needed < doubled THEN doubled ELSE needed

(* Mutant: growSlice copies from the start of the array, not from off.     *)
ReallocatedFromStart(b, n) ==
  {[b EXCEPT !.cells = SubSeq(b.cells, 1, BufLen(b)) \o Zeros(cap - BufLen(b)), !.off = 0,
             !.len = BufLen(b), !.made = TRUE]
     : cap \in Asked(b, n) .. Asked(b, n) + Slack}

Reallocated(b, n) ==
  {[b EXCEPT !.cells = Unread(b) \o Zeros(cap - BufLen(b)), !.off = 0,
             !.len = BufLen(b), !.made = TRUE]
     : cap \in Asked(b, n) .. Asked(b, n) + Slack}

Extended(b, n) == [b EXCEPT !.len = @ + n]

(* grow(n): the buffers it can leave, with b.buf n items longer; none when *)
(* it panics.  Sliding is left for when it at least halves the array's use.*)
Grown(b, n) ==
  LET r == Reclaimed(b) IN
  IF n <= Cap(r) - r.len THEN {Extended(r, n)}
  ELSE IF ~ r.made /\ n <= SmallBufferSize
    THEN {Extended([r EXCEPT !.cells = Zeros(SmallBufferSize), !.made = TRUE], n)}
  ELSE IF n <= Cap(r) \div 2 - BufLen(r) THEN {Extended(Slid(r), n)}
  ELSE IF Cap(r) > MaxInt - Cap(r) - n \/ Asked(r, n) > MaxAlloc THEN {}
  ELSE {Extended(g, n) : g \in Reallocated(r, n)}

(* Write and WriteItem try to reslice before they reclaim anything.        *)
Lengthened(b, n) == IF n <= Cap(b) - b.len THEN {Extended(b, n)} ELSE Grown(b, n)

(* Mutant: the copy starts one item early.                                 *)
PutEarly(b, at, p) ==
  [b EXCEPT !.cells = [i \in 1 .. Cap(b) |->
     IF at <= i /\ i < at + Len(p) THEN p[i - at + 1] ELSE b.cells[i]]]

(* copy(b.buf[at:], p)                                                     *)
Put(b, at, p) ==
  [b EXCEPT !.cells = [i \in 1 .. Cap(b) |->
     IF at < i /\ i <= at + Len(p) THEN p[i - at] ELSE b.cells[i]]]

-----------------------------------------------------------------------------
(* Calls that finish at once.                                              *)

Return(call, n, items, err) ==
  result' = [call EXCEPT !.n = n, !.items = items, !.err = err]

Leave(b, call, n, items, err) ==
  /\ stream = NoStream
  /\ buffer' = b
  /\ Return(call, n, items, err)
  /\ UNCHANGED stream

Do(b, call, n, items, err) == Leave(b, call, n, items, err) /\ UNCHANGED promise

Written(n) == promise' = IF n < promise THEN promise - n ELSE 0

AppendItems(call, p, n) ==
  LET b == NotReading(buffer) IN
  \/ /\ \E g \in Lengthened(b, Len(p)) :
          Leave(Put(g, g.len - Len(p), p), call, n, <<>>, "nil")
     /\ Written(Len(p))
  \/ Lengthened(b, Len(p)) = {} /\ Do(Reclaimed(b), call, 0, <<>>, "too large")

Write(p) == AppendItems([Called("Write", <<>>) EXCEPT !.given = p], p, Len(p))
WriteItem(x) == AppendItems([Called("WriteItem", <<>>) EXCEPT !.given = <<x>>], <<x>>, 0)

Read(k) ==
  /\ k >= 0
  /\ LET call == Called("Read", <<k>>)
         n == Smaller(k, BufLen(buffer))
     IN  IF Empty(buffer)
         THEN Do(BufReset(buffer), call, 0, <<>>, IF k = 0 THEN "nil" ELSE "EOF")
         ELSE Do([buffer EXCEPT !.off = @ + n, !.isReading = n > 0],
                 call, n, SubSeq(Unread(buffer), 1, n), "nil")

(* The slice returned is b.buf's own; b.buf[off:off+n] cannot be formed    *)
(* for a negative n.                                                       *)
NextItems(k) ==
  LET call == Called("Next", <<k>>)
      n == Smaller(k, BufLen(buffer))
  IN  IF k < 0 THEN Do(NotReading(buffer), call, 0, <<>>, "bounds")
      ELSE Do([buffer EXCEPT !.off = @ + n, !.isReading = n > 0],
              call, n, SubSeq(Unread(buffer), 1, n), "nil")

ReadItem ==
  IF Empty(buffer)
  THEN Do(BufReset(buffer), Called("ReadItem", <<>>), 0, <<>>, "EOF")
  ELSE Do([buffer EXCEPT !.off = @ + 1, !.isReading = TRUE],
          Called("ReadItem", <<>>), 1, <<buffer.cells[buffer.off + 1]>>, "nil")

(* readSlice: through the first item delim accepts, or all and io.EOF.     *)
ReadItems(delim) ==
  LET hits == {i \in buffer.off + 1 .. buffer.len : buffer.cells[i] \in delim}
      end == IF hits = {} THEN buffer.len
             ELSE CHOOSE i \in hits : \A j \in hits : i <= j
  IN  Do([buffer EXCEPT !.off = end, !.isReading = TRUE],
         [Called("ReadItems", <<>>) EXCEPT !.delim = delim], end - buffer.off,
         SubSeq(buffer.cells, buffer.off + 1, end), IF hits = {} THEN "EOF" ELSE "nil")

(* Mutant: off is not checked before the step back.                        *)
UnreadItemBelowZero ==
  IF ~ buffer.isReading THEN Do(buffer, Called("UnreadItem", <<>>), 0, <<>>, "unread")
  ELSE Do([buffer EXCEPT !.isReading = FALSE, !.off = @ - 1],
          Called("UnreadItem", <<>>), 0, <<>>, "nil")

UnreadItem ==
  IF ~ buffer.isReading THEN Do(buffer, Called("UnreadItem", <<>>), 0, <<>>, "unread")
  ELSE Do([buffer EXCEPT !.isReading = FALSE, !.off = IF @ > 0 THEN @ - 1 ELSE @],
          Called("UnreadItem", <<>>), 0, <<>>, "nil")

Value ==
  Do(buffer, Called("Value", <<>>), BufLen(buffer), Unread(buffer), "nil")

Truncate(n) ==
  LET call == Called("Truncate", <<n>>) IN
  IF n = 0 THEN Do(BufReset(buffer), call, 0, <<>>, "nil")
  ELSE IF n < 0 \/ n > BufLen(buffer)
    THEN Do(NotReading(buffer), call, 0, <<>>, "range")
  ELSE Do([NotReading(buffer) EXCEPT !.len = buffer.off + n], call, 0, <<>>, "nil")

Reset == Do(BufReset(buffer), Called("Reset", <<>>), 0, <<>>, "nil")

(* Mutant: the room is counted from off, not from len.                     *)
GrowFromOff(n) ==
  LET call == Called("Grow", <<n>>) IN
  \/ /\ n >= 0 /\ n <= Cap(buffer) - BufLen(buffer)
     /\ Leave(buffer, call, 0, <<>>, "nil") /\ promise' = n
  \/ /\ n > Cap(buffer) - BufLen(buffer)
     /\ \E g \in Grown(buffer, n) : Leave([g EXCEPT !.len = @ - n], call, 0, <<>>, "nil")
     /\ promise' = n

Grow(n) ==
  LET call == Called("Grow", <<n>>) IN
  \/ n < 0 /\ Do(buffer, call, 0, <<>>, "negative count")
  \/ /\ n >= 0
     /\ \E g \in Grown(buffer, n) : Leave([g EXCEPT !.len = @ - n], call, 0, <<>>, "nil")
     /\ promise' = IF n > promise THEN n ELSE promise
  \/ n >= 0 /\ Grown(buffer, n) = {} /\ Do(Reclaimed(buffer), call, 0, <<>>, "too large")

-----------------------------------------------------------------------------
(* Peeks: Peek, PeekFrom and PeekRange into a slice of length k.           *)

(* What they all do first with an empty buffer.                            *)
PeekEmpty(call, k) ==
  Do(BufReset(buffer), call, 0, <<>>, IF k = 0 THEN "nil" ELSE "EOF")

CopyFrom(from, k) == SubSeq(buffer.cells, from + 1, Smaller(from + k, buffer.len))

Peek(k) ==
  /\ k >= 0
  /\ LET call == Called("Peek", <<k>>) IN
     IF Empty(buffer) THEN PeekEmpty(call, k)
     ELSE Do(buffer, call, Len(CopyFrom(buffer.off, k)), CopyFrom(buffer.off, k), "nil")

OutOfBounds(idx) == idx < 0 \/ idx >= buffer.len

(* The offset counts from the start of b.buf, what is read included.       *)
PeekFrom(idx, k) ==
  /\ k >= 0
  /\ LET call == Called("PeekFrom", <<idx, k>>) IN
     IF OutOfBounds(idx) THEN Do(buffer, call, 0, <<>>, "index")
     ELSE IF Empty(buffer) THEN PeekEmpty(call, k)
     ELSE Do(buffer, call, Len(CopyFrom(idx, k)), CopyFrom(idx, k), "nil")

(* from and to are swapped so that from < to, and then used the other way  *)
(* round: b.buf[to:from] cannot be formed.                                 *)
PeekRange(from, to, k) ==
  /\ k >= 0
  /\ LET call == Called("PeekRange", <<>>) IN
     IF from = to THEN Do(buffer, call, 0, <<>>, "nil")
     ELSE IF OutOfBounds(from) \/ OutOfBounds(to) THEN Do(buffer, call, 0, <<>>, "index")
     ELSE IF Empty(buffer) THEN PeekEmpty(call, k)
     ELSE Do(buffer, call, 0, <<>>, "bounds")

-----------------------------------------------------------------------------
(* Streaming calls.                                                        *)

Begin(op, length) ==
  /\ stream = NoStream
  /\ stream' = [NoStream EXCEPT !.op = op, !.left = length]
  /\ buffer' = NotReading(buffer)
  /\ result' = NoResult
  /\ UNCHANGED promise

Finish(call, n, items, err) == Return(call, n, items, err) /\ stream' = NoStream

ReadFrom(length) == Begin("ReadFrom", length)

ReadFromReturns(moved, err) ==
  Finish([Called("ReadFrom", <<>>) EXCEPT !.given = moved],
         IF err \in {"nil", "fault"} THEN Len(moved) ELSE 0, <<>>, err)

(* Mutant: grow is asked for one item.                                     *)
ReadFromGrowsByOne ==
  /\ stream.op = "ReadFrom" /\ stream.room = 0
  /\ UNCHANGED <<promise, result>>
  /\ \E g \in Grown(buffer, 1) :
       /\ buffer' = [g EXCEPT !.len = @ - 1]
       /\ stream' = [stream EXCEPT !.room = Cap(g) - (g.len - 1)]

(* The top of the loop: make room for MinRead items and hand the reader    *)
(* the whole spare capacity.                                               *)
ReadFromGrows ==
  /\ stream.op = "ReadFrom" /\ stream.room = 0
  /\ UNCHANGED promise
  /\ \/ \E g \in Grown(buffer, MinRead) :
          /\ buffer' = [g EXCEPT !.len = @ - MinRead]
          /\ stream' = [stream EXCEPT !.room = Cap(g) - (g.len - MinRead)]
          /\ UNCHANGED result
     \/ /\ Grown(buffer, MinRead) = {}
        /\ buffer' = Reclaimed(buffer)
        /\ ReadFromReturns(stream.moved, "too large")

(* Mutant: io.EOF does not end the loop.                                   *)
ReadFromTurnPastEOF(chunk, err) ==
  /\ stream.op = "ReadFrom" /\ stream.room > 0
  /\ Len(chunk) <= stream.room /\ Len(chunk) <= stream.left
  /\ err = "EOF" => Len(chunk) = stream.left
  /\ buffer' = Put(Extended(buffer, Len(chunk)), buffer.len, chunk)
  /\ Written(Len(chunk))
  /\ LET moved == stream.moved \o chunk IN
     \/ /\ err \in {"nil", "EOF"}
        /\ stream' = [stream EXCEPT !.left = @ - Len(chunk), !.room = 0, !.moved = moved]
        /\ UNCHANGED result
     \/ err = "fault" /\ ReadFromReturns(moved, "fault")

(* r.Read returns chunk with err; what it read counts whatever err says.   *)
ReadFromTurn(chunk, err) ==
  /\ stream.op = "ReadFrom" /\ stream.room > 0
  /\ Len(chunk) <= stream.room /\ Len(chunk) <= stream.left
  /\ err = "EOF" => Len(chunk) = stream.left
  /\ buffer' = Put(Extended(buffer, Len(chunk)), buffer.len, chunk)
  /\ Written(Len(chunk))
  /\ LET moved == stream.moved \o chunk IN
     \/ /\ err = "nil"
        /\ stream' = [stream EXCEPT !.left = @ - Len(chunk), !.room = 0, !.moved = moved]
        /\ UNCHANGED result
     \/ err = "EOF" /\ ReadFromReturns(moved, "nil")
     \/ err = "fault" /\ ReadFromReturns(moved, "fault")

(* r.Read panics or returns a negative count.                              *)
ReadFromNegative ==
  /\ stream.op = "ReadFrom" /\ stream.room > 0
  /\ ReadFromReturns(stream.moved, "negative read")
  /\ UNCHANGED <<buffer, promise>>

(* An empty buffer is reset and nothing written.                           *)
WriteTo ==
  \/ BufLen(buffer) > 0 /\ Begin("WriteTo", 0)
  \/ BufLen(buffer) = 0 /\ Do(BufReset(buffer), Called("WriteTo", <<>>), 0, <<>>, "nil")

(* w.Write takes num of the unread items and returns err.  Only a count    *)
(* above what it was handed is refused.                                    *)
WriteToTurn(num, err) ==
  /\ stream.op = "WriteTo"
  /\ UNCHANGED promise
  /\ LET moved == SubSeq(Unread(buffer), 1, num)
         returns(n, items, e) == Finish(Called("WriteTo", <<>>), n, items, e)
     IN  \/ num > BufLen(buffer) /\ buffer' = buffer /\ returns(0, <<>>, "write count")
         \/ /\ num <= BufLen(buffer) /\ err # "nil"
            /\ buffer' = [buffer EXCEPT !.off = @ + num] /\ returns(num, moved, err)
         \/ /\ num < BufLen(buffer) /\ err = "nil"
            /\ buffer' = [buffer EXCEPT !.off = @ + num] /\ returns(num, moved, "short")
         \/ /\ num = BufLen(buffer) /\ err = "nil"
            /\ buffer' = BufReset(buffer) /\ returns(num, moved, "nil")

-----------------------------------------------------------------------------
(* Any caller: every method, with any argument, in any order.              *)

Chunk == UNION {[1 .. n -> Item] : n \in 0 .. MaxAlloc + Slack}
StreamErr == {"nil", "EOF", "fault"}

Writing ==
  \/ \E p \in Input : Write(p)
  \/ \E x \in Item : WriteItem(x)

Reading ==
  \/ \E k \in Count : Read(k) \/ NextItems(k)
  \/ ReadItem
  \/ UnreadItem
  \/ Value

Discarding == Reset \/ \E n \in Count : Truncate(n)

Streaming ==
  \/ \E length \in Length : ReadFrom(length)
  \/ ReadFromGrows
  \/ \E chunk \in Chunk, err \in StreamErr : ReadFromTurn(chunk, err)
  \/ ReadFromNegative
  \/ WriteTo
  \/ \E num \in 0 .. MaxAlloc + Slack, err \in StreamErr : WriteToTurn(num, err)

Next ==
  \/ Writing
  \/ Reading
  \/ Discarding
  \/ Streaming
  \/ \E delim \in Delim : ReadItems(delim)
  \/ \E n \in Room : Grow(n)
  \/ \E k \in Count : Peek(k)
  \/ \E i, k \in Count : PeekFrom(i, k)
  \/ \E i, j, k \in Count : PeekRange(i, j, k)

Spec == Init /\ [][Next]_vars

(* ReadFrom and WriteTo run on without the caller; a reader that is asked  *)
(* again and again delivers some of the items it still has, and reports    *)
(* the end of the stream once it has none; a writer returns.  A reader may *)
(* return (0, nil) in between, each time after grow made room, but not for *)
(* ever.                                                                   *)
Fairness ==
  /\ WF_vars(ReadFromGrows)
  /\ SF_vars(\E chunk \in Chunk \ {<<>>} : ReadFromTurn(chunk, "nil"))
  /\ SF_vars(ReadFromTurn(<<>>, "EOF"))
  /\ WF_vars(\E num \in 0 .. MaxAlloc + Slack, err \in StreamErr : WriteToTurn(num, err))

FairSpec == Spec /\ Fairness

=============================================================================
