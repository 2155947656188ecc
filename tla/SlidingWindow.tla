---------------------------- MODULE SlidingWindow ----------------------------
(***************************************************************************)
(* What a circular buffer promises its caller, with no slice and no        *)
(* indices: it holds the last N items written and not yet read, oldest     *)
(* first.  Writing more than fits forgets the oldest; reading takes from   *)
(* the front; a failed transfer keeps what was not transferred.            *)
(*                                                                         *)
(* window   the unread items, oldest first                                 *)
(* result   the last finished call: its arguments (given, arg, delim) and  *)
(*          what it returned (n, items, err)                               *)
(* stream   the streaming call in progress: which one, and the items it    *)
(*          has absorbed or handed on so far                               *)
(***************************************************************************)
EXTENDS Integers, Sequences

CONSTANTS
  N,      (* the capacity                                  *)
  Item,   (* what can be written                           *)
  Zero,   (* the value a cleared item takes                *)
  Input,  (* the sequences callers write                   *)
  Count,  (* the counts and offsets callers pass           *)
  Delim   (* the delimiters, as sets of the items they are *)

VARIABLES window, result, stream

vars == <<window, result, stream>>

NoResult == [op |-> "none", given |-> <<>>, arg |-> 0, delim |-> {},
             n |-> 0, items |-> <<>>, err |-> "nil"]
NoStream == [op |-> "none", moved |-> <<>>]

Smaller(a, b) == IF a < b THEN a ELSE b

(* The newest N items of s, its first k items, and what is left of it      *)
(* without those.                                                          *)
Newest(s) == IF Len(s) <= N THEN s ELSE SubSeq(s, Len(s) - N + 1, Len(s))
Front(s, k) == SubSeq(s, 1, Smaller(k, Len(s)))
Rest(s, k) == SubSeq(s, Smaller(k, Len(s)) + 1, Len(s))

Return(call, n, items, err) ==
  result' = [call EXCEPT !.n = n, !.items = items, !.err = err]

Init == window = <<>> /\ result = NoResult /\ stream = NoStream

-----------------------------------------------------------------------------
(* Calls that finish at once.                                              *)

Called(op) == [NoResult EXCEPT !.op = op]
With(op, k) == [NoResult EXCEPT !.op = op, !.arg = k]

Write(p) ==
  /\ window' = Newest(window \o p)
  /\ Return([Called("Write") EXCEPT !.given = p], Smaller(Len(p), N), <<>>, "nil")

WriteItem(x) ==
  /\ window' = Newest(Append(window, x))
  /\ Return([Called("WriteItem") EXCEPT !.given = <<x>>], 0, <<>>, "nil")

Take(call, k) ==
  /\ window' = Rest(window, k)
  /\ Return(call, Len(Front(window, k)), Front(window, k), "nil")

(* Everything unread; the caller cannot tell whether it stays unread.      *)
Peek(call) ==
  /\ window' \in {window, <<>>}
  /\ Return(call, Len(window), window, "nil")

(* The longest prefix free of delimiters.                                  *)
TakeUntil(delim) ==
  \E k \in 0 .. Len(window) :
    /\ \A i \in 1 .. k : window[i] \notin delim
    /\ k < Len(window) => window[k + 1] \in delim
    /\ Take([Called("ReadItems") EXCEPT !.delim = delim], k)

(* Put back what the last call took last.                                  *)
Untake ==
  /\ result.op \in {"Read", "ReadItem", "ReadItems", "Next", "Value"}
  /\ result.items # <<>>
  /\ window' = <<result.items[Len(result.items)]>> \o window
  /\ Return(Called("UnreadItem"), 0, <<>>, "nil")

(* Move on over k unread items, or back from their end over -k of them;    *)
(* the position returned is the implementor's.                             *)
Skip(k) ==
  /\ \/ k \in 0 .. Len(window) /\ window' = Rest(window, k)
     \/ -k \in 0 .. Len(window) /\ window' = Rest(window, Len(window) + k)
  /\ \E abs \in 0 .. N - 1 : Return(With("Seek", k), abs, <<>>, "nil")

(* Truncate forgets nothing: it blanks the first k unread items; with a k  *)
(* that is no number of unread items it empties the window, as Reset does. *)
Truncate(k) ==
  /\ window' = IF k \in 1 .. Len(window)
               THEN [i \in 1 .. Len(window) |-> IF i <= k THEN Zero ELSE window[i]]
               ELSE <<>>
  /\ Return(With("Truncate", k), 0, <<>>, "nil")
Reset == window' = <<>> /\ Return(Called("Reset"), 0, <<>>, "nil")

Refuse(call, err) == window' = window /\ Return(call, 0, <<>>, err)

Call ==
  /\ stream.op = "none"
  /\ UNCHANGED stream
  /\ \/ \E p \in Input : Write(p)
     \/ \E x \in Item : WriteItem(x)
     \/ \E k \in Count :
          \/ k >= 0 /\ Take(With("Read", k), k)
          \/ k <= Len(window) /\ Take(With("Next", k), IF k < 0 THEN 0 ELSE k)
          \/ k > Len(window) /\ Peek(With("Next", k))
          \/ Skip(k)
          \/ Truncate(k)
          \/ Refuse(With("Seek", k), "whence")
     \/ window # <<>> /\ Take(Called("ReadItem"), 1)
     \/ Peek(Called("Value"))
     \/ \E delim \in Delim : TakeUntil(delim)
     \/ Untake
     \/ Refuse(Called("UnreadItem"), "unread")
     \/ Reset

-----------------------------------------------------------------------------
(* Streaming calls.                                                        *)

Begin(op) ==
  /\ stream.op = "none"
  /\ stream' = [NoStream EXCEPT !.op = op]
  /\ result' = NoResult
  /\ UNCHANGED window

Absorb ==
  /\ stream.op = "ReadFrom"
  /\ \E n \in 1 .. N : \E chunk \in [1 .. n -> Item] :
       /\ window' = Newest(window \o chunk)
       /\ stream' = [stream EXCEPT !.moved = @ \o chunk]
  /\ UNCHANGED result

(* Hand on the first k unread items, and go on or finish; only a drained   *)
(* window finishes without an error.                                       *)
Emit ==
  /\ stream.op = "WriteTo"
  /\ \E k \in 0 .. Len(window) :
       LET moved == stream.moved \o Front(window, k) IN
       /\ window' = Rest(window, k)
       /\ \/ stream' = [stream EXCEPT !.moved = moved] /\ UNCHANGED result
          \/ /\ stream' = NoStream
             /\ \E err \in {"nil", "fault", "negative"} :
                  /\ err = "nil" => window' = <<>>
                  /\ Return(Called("WriteTo"), Len(moved), moved, err)

Finish ==
  /\ stream.op = "ReadFrom"
  /\ \E err \in {"nil", "fault", "negative"} :
       Return([Called("ReadFrom") EXCEPT !.given = stream.moved],
              Len(stream.moved), <<>>, err)
  /\ stream' = NoStream
  /\ UNCHANGED window

Next == Call \/ Begin("ReadFrom") \/ Begin("WriteTo") \/ Absorb \/ Emit \/ Finish

Spec == Init /\ [][Next]_vars

=============================================================================
