------------------------------ MODULE ItemQueue ------------------------------
(***************************************************************************)
(* What a Buffer promises its caller, with no array, no offset and no      *)
(* capacity: an unbounded queue of items that are read in the order they   *)
(* were written, the last of which can be put back.                        *)
(*                                                                         *)
(* queue    the unread items, oldest first                                 *)
(* back     the item UnreadItem would put back: none, or one               *)
(* result   the last finished call: its arguments and what it returned     *)
(* stream   the ReadFrom or WriteTo in progress, and the items it moved    *)
(***************************************************************************)
EXTENDS Integers, Sequences

CONSTANTS
  Item, Initial, Input, Chunk, Count, Room, Delim

VARIABLES queue, back, result, stream

vars == <<queue, back, result, stream>>

NoResult == [op |-> "none", given |-> <<>>, args |-> <<>>, delim |-> {},
             n |-> 0, items |-> <<>>, err |-> "nil"]
NoStream == [op |-> "none", moved |-> <<>>]
Called(op, args) == [NoResult EXCEPT !.op = op, !.args = args]

Init ==
  /\ queue \in Initial /\ back = <<>>
  /\ result = NoResult /\ stream = NoStream

Return(call, n, items, err) ==
  result' = [call EXCEPT !.n = n, !.items = items, !.err = err]

LastOf(s) == IF s = <<>> THEN <<>> ELSE <<s[Len(s)]>>

-----------------------------------------------------------------------------
(* Calls that finish at once.                                              *)

Add(call, p, n) ==
  /\ queue' = queue \o p
  /\ Return(call, n, <<>>, "nil")

Write == \E p \in Input : Add([Called("Write", <<>>) EXCEPT !.given = p], p, Len(p))
WriteItem == \E x \in Item : Add([Called("WriteItem", <<>>) EXCEPT !.given = <<x>>], <<x>>, 0)

(* The first k items leave the queue.                                      *)
Take(call, k, err) ==
  LET got == SubSeq(queue, 1, k) IN
  /\ queue' = SubSeq(queue, k + 1, Len(queue))
  /\ back' = LastOf(got)
  /\ Return(call, k, got, err)

(* Up to k items; io.EOF when some were asked for and there are none.      *)
Read(k) ==
  LET n == IF k < Len(queue) THEN k ELSE Len(queue)
  IN  k >= 0 /\ Take(Called("Read", <<k>>), n, IF k > 0 /\ n = 0 THEN "EOF" ELSE "nil")

NextItems(k) ==
  LET n == IF k < Len(queue) THEN k ELSE Len(queue)
  IN  k >= 0 /\ Take(Called("Next", <<k>>), n, "nil")

ReadItem ==
  IF queue = <<>> THEN Take(Called("ReadItem", <<>>), 0, "EOF")
  ELSE Take(Called("ReadItem", <<>>), 1, "nil")

(* Through the first delimiter, or everything with io.EOF.                 *)
ReadItems(delim) ==
  LET call == [Called("ReadItems", <<>>) EXCEPT !.delim = delim] IN
  \/ \E k \in 1 .. Len(queue) :
       /\ queue[k] \in delim /\ \A i \in 1 .. k - 1 : queue[i] \notin delim
       /\ Take(call, k, "nil")
  \/ /\ \A i \in 1 .. Len(queue) : queue[i] \notin delim
     /\ Take(call, Len(queue), "EOF")

UnreadItem ==
  /\ queue' = back \o queue
  /\ back' = <<>>
  /\ Return(Called("UnreadItem", <<>>), 0, <<>>, IF back = <<>> THEN "unread" ELSE "nil")

(* Only the first n unread items stay.                                     *)
Keep(n) ==
  /\ n \in 0 .. Len(queue)
  /\ queue' = SubSeq(queue, 1, n)
  /\ Return(Called("Truncate", <<n>>), 0, <<>>, "nil")

Reset == queue' = <<>> /\ Return(Called("Reset", <<>>), 0, <<>>, "nil")

(* A look at the queue takes nothing from it.                              *)
Look(call, items, err) == UNCHANGED queue /\ Return(call, Len(items), items, err)

Peek(from, k, call) ==
  LET to == IF from + k < Len(queue) THEN from + k ELSE Len(queue)
  IN  Look(call, SubSeq(queue, from + 1, to), IF queue = <<>> /\ k > 0 THEN "EOF" ELSE "nil")

Looking ==
  \/ Look(Called("Value", <<>>), queue, "nil")
  \/ \E k \in Count : k >= 0 /\ Peek(0, k, Called("Peek", <<k>>))
  \/ \E i, k \in Count :
       /\ k >= 0
       /\ IF i \in 0 .. Len(queue) - 1 THEN Peek(i, k, Called("PeekFrom", <<i, k>>))
          ELSE Look(Called("PeekFrom", <<i, k>>), <<>>, "index")
  \/ \E err \in {"nil", "index", "EOF"} : Look(Called("PeekRange", <<>>), <<>>, err)
  \/ \E n \in Room : Look(Called("Grow", <<n>>), <<>>, "nil")

(* A call that panics takes nothing and adds nothing.                      *)
Panicking ==
  /\ UNCHANGED queue
  /\ \/ \E p \in Input :
          Return([Called("Write", <<>>) EXCEPT !.given = p], 0, <<>>, "too large")
     \/ \E x \in Item :
          Return([Called("WriteItem", <<>>) EXCEPT !.given = <<x>>], 0, <<>>, "too large")
     \/ \E n \in Count :
          \/ n < 0 /\ Return(Called("Next", <<n>>), 0, <<>>, "bounds")
          \/ n \notin 0 .. Len(queue) /\ Return(Called("Truncate", <<n>>), 0, <<>>, "range")
     \/ \E n \in Room :
          \/ n < 0 /\ Return(Called("Grow", <<n>>), 0, <<>>, "negative count")
          \/ n > 0 /\ Return(Called("Grow", <<n>>), 0, <<>>, "too large")

Call ==
  /\ stream = NoStream /\ UNCHANGED stream
  /\ \/ \/ \E k \in Count : Read(k) \/ NextItems(k)
        \/ ReadItem
        \/ \E delim \in Delim : ReadItems(delim)
        \/ UnreadItem
     \/ /\ Write \/ WriteItem \/ Reset \/ \E n \in Count : Keep(n)
        /\ back' = <<>>
     \/ /\ Looking \/ Panicking
        /\ back' \in {back, <<>>}

-----------------------------------------------------------------------------
(* Streaming calls.                                                        *)

Begin(op) ==
  /\ stream = NoStream
  /\ stream' = [NoStream EXCEPT !.op = op]
  /\ back' = <<>> /\ result' = NoResult
  /\ UNCHANGED queue

(* All that is read is queued, also what comes with the last error.        *)
Absorb ==
  /\ stream.op = "ReadFrom"
  /\ UNCHANGED back
  /\ \E chunk \in Chunk :
       LET moved == stream.moved \o chunk IN
       /\ queue' = queue \o chunk
       /\ \/ stream' = [stream EXCEPT !.moved = moved] /\ UNCHANGED result
          \/ /\ stream' = NoStream
             /\ \E err \in {"nil", "fault"} :
                  Return([Called("ReadFrom", <<>>) EXCEPT !.given = moved],
                         Len(moved), <<>>, err)

(* What the writer took has left the queue, whatever it answered; no error *)
(* means that it took everything.                                          *)
Emit ==
  /\ stream.op = "WriteTo"
  /\ stream' = NoStream /\ UNCHANGED back
  /\ \E k \in 0 .. Len(queue), err \in {"nil", "short", "EOF", "fault"} :
       /\ err = "nil" => k = Len(queue)
       /\ err = "short" => k < Len(queue)
       /\ queue' = SubSeq(queue, k + 1, Len(queue))
       /\ Return(Called("WriteTo", <<>>), k, SubSeq(queue, 1, k), err)

(* Nothing to write.                                                       *)
EmitNothing ==
  /\ stream = NoStream /\ queue = <<>>
  /\ back' = <<>> /\ UNCHANGED <<queue, stream>>
  /\ Return(Called("WriteTo", <<>>), 0, <<>>, "nil")

(* The other end breaks its contract, or there is no room: the call panics *)
(* and what was absorbed before stays.                                     *)
Break ==
  /\ stream # NoStream
  /\ stream' = NoStream /\ UNCHANGED <<queue, back>>
  /\ \/ \E err \in {"too large", "negative read"} :
          Return([Called("ReadFrom", <<>>) EXCEPT !.given = stream.moved], 0, <<>>, err)
     \/ Return(Called("WriteTo", <<>>), 0, <<>>, "write count")

Next == Call \/ Begin("ReadFrom") \/ Begin("WriteTo") \/ Absorb \/ Emit \/ EmitNothing \/ Break

Spec == Init /\ [][Next]_vars

=============================================================================
