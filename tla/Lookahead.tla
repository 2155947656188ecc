------------------------------ MODULE Lookahead ------------------------------
(***************************************************************************)
(* What a gbufio.Reader and a gbufio.ComparableReader promise, with no     *)
(* buffer positions, no sliding, no memory of what has been searched and   *)
(* no count of empty reads: a queue of what the underlying reader delivered*)
(* and nobody has taken yet, and the error it owes its caller.             *)
(*                                                                         *)
(* queue   the items delivered and not taken                               *)
(* owed    the error the underlying reader ended with, or "nil"            *)
(* call    the method in progress: for Discard n is what remains; got and  *)
(*         count are what ReadItems gathered and WriteTo passed on         *)
(* result  the call that has just finished and what it returned            *)
(***************************************************************************)
EXTENDS Integers, Sequences

CONSTANTS Item, Zero, Size, Count, LineDelim, Chunk, SourceErr, SinkErr

VARIABLES queue, owed, call, result

vars == <<queue, owed, call, result>>

NoCall == [op |-> "none", n |-> 0, delim |-> Zero, got |-> <<>>, count |-> 0]
NoResult == [op |-> "none", n |-> 0, delim |-> Zero, items |-> <<>>, count |-> 0,
             prefix |-> FALSE, err |-> "nil"]
Called(op, n, delim) == [NoCall EXCEPT !.op = op, !.n = n, !.delim = delim]

Init == queue = <<>> /\ owed = "nil" /\ call = NoCall /\ result = NoResult

First(k, s) == SubSeq(s, 1, k)
After(k, s) == SubSeq(s, k + 1, Len(s))
Shorter(k, s) == IF k < Len(s) THEN k ELSE Len(s)

(* The call c is over and leaves q to be read and the error e owed.        *)
Returns(q, e, c, items, prefix, err) ==
  /\ queue' = q /\ owed' = e /\ call' = NoCall
  /\ result' = [op |-> c.op, n |-> c.n, delim |-> c.delim, items |-> items,
                count |-> c.count, prefix |-> prefix, err |-> err]

GoesOn(q, e, c) == queue' = q /\ owed' = e /\ call' = c /\ result' = NoResult

-----------------------------------------------------------------------------
(* What each method does as soon as q is there to be read and e is owed.   *)

(* The first n items; fewer only with the error that explains it.          *)
Peeked(q, e, c) ==
  \/ c.n <= Len(q) /\ Returns(q, e, c, First(c.n, q), FALSE, "nil")
  \/ c.n > Len(q) /\ c.n <= Size /\ e # "nil" /\ Returns(q, "nil", c, q, FALSE, e)
  \/ c.n > Size /\ (Len(q) = Size \/ e # "nil") /\ Returns(q, e, c, q, FALSE, "buffer full")
  \/ c.n > Len(q) /\ Len(q) < Size /\ e = "nil" /\ GoesOn(q, e, c)

Discarded(q, e, c) ==
  LET skip == Shorter(c.n, q)
      d == [c EXCEPT !.n = @ - skip, !.count = @ + skip]
  IN  \/ d.n = 0 /\ Returns(After(skip, q), e, d, <<>>, FALSE, "nil")
      \/ d.n > 0 /\ e # "nil" /\ Returns(<<>>, "nil", d, <<>>, FALSE, e)
      \/ d.n > 0 /\ e = "nil" /\ GoesOn(<<>>, e, d)

ItemRead(q, e, c) ==
  \/ q # <<>> /\ Returns(Tail(q), e, c, <<Head(q)>>, FALSE, "nil")
  \/ q = <<>> /\ e # "nil" /\ Returns(q, "nil", c, <<>>, FALSE, e)
  \/ q = <<>> /\ e = "nil" /\ GoesOn(q, e, c)

(* Read up to and with the first delimiter; else all there is, when an     *)
(* error is owed or no more fits.  ReadLine cuts the delimiter off and     *)
(* drops the error unless its line is empty; ReadItems goes on when no     *)
(* more fits.                                                              *)
Delimited(q, e, c) ==
  LET hits == {i \in 1 .. Len(q) : q[i] = c.delim}
      hit == CHOOSE i \in hits : \A j \in hits : i <= j
  IN  \/ /\ hits # {}
         /\ Returns(After(hit, q), e, c, c.got \o First(IF c.op = "ReadLine" THEN hit - 1 ELSE hit, q),
                    FALSE, "nil")
      \/ /\ hits = {} /\ e # "nil"
         /\ Returns(<<>>, "nil", c, c.got \o q, FALSE,
                    IF c.op = "ReadLine" /\ q # <<>> THEN "nil" ELSE e)
      \/ /\ hits = {} /\ e = "nil" /\ Len(q) = Size
         /\ \/ c.op = "ReadSlice" /\ Returns(<<>>, e, c, q, FALSE, "buffer full")
            \/ c.op = "ReadLine" /\ Returns(<<>>, e, c, q, TRUE, "nil")
            \/ c.op = "ReadItems" /\ GoesOn(<<>>, e, [c EXCEPT !.got = @ \o q])
      \/ hits = {} /\ e = "nil" /\ Len(q) < Size /\ GoesOn(q, e, c)

(* WriteTo is over when nothing is left to pass on; an end of file is no   *)
(* error.                                                                  *)
PassedOn(q, e, c) ==
  \/ q = <<>> /\ Returns(q, "nil", c, c.got, FALSE, IF e = "EOF" THEN "nil" ELSE e)
  \/ q # <<>> /\ GoesOn(q, e, c)

Proceeds(q, e, c) ==
  \/ c.op = "Peek" /\ Peeked(q, e, c)
  \/ c.op = "Discard" /\ Discarded(q, e, c)
  \/ c.op = "ReadItem" /\ ItemRead(q, e, c)
  \/ c.op \in {"ReadSlice", "ReadLine", "ReadItems"} /\ Delimited(q, e, c)
  \/ c.op = "WriteTo" /\ PassedOn(q, e, c)

-----------------------------------------------------------------------------

(* Discard with nothing to read asks for more even if an error is owed.    *)
Begin(op, n, delim) ==
  /\ call = NoCall
  /\ LET c == Called(op, n, delim) IN
     IF n < 0 THEN Returns(queue, owed, c, <<>>, FALSE, "negative count")
     ELSE IF op = "Discard" /\ n > 0 /\ queue = <<>> THEN GoesOn(queue, owed, c)
     ELSE IF op = "WriteTo" THEN GoesOn(queue, owed, c)
     ELSE Proceeds(queue, owed, c)

(* The underlying reader delivers a chunk, and then an error or not.  What *)
(* it says last is owed.                                                   *)
Arrive ==
  /\ call # NoCall
  /\ \E chunk \in Chunk, err \in SourceErr \cup {"no progress"} :
       /\ Len(chunk) <= Size - Len(queue)
       /\ \/ chunk = <<>> /\ err = "nil" /\ UNCHANGED vars
          \/ /\ chunk # <<>> \/ err # "nil"
             /\ Proceeds(queue \o chunk, IF err = "nil" THEN owed ELSE err, call)

(* Read: items that are there, or what one read of the underlying reader   *)
(* delivers, with its error only if the items did not have to be kept.     *)
Read(k) ==
  /\ call = NoCall /\ k >= 0
  /\ LET c == Called("Read", k, Zero)
         n == Shorter(k, queue)
     IN \/ queue # <<>> /\ Returns(After(n, queue), owed, c, First(n, queue), FALSE, "nil")
        \/ queue = <<>> /\ (k = 0 \/ owed # "nil") /\ Returns(queue, "nil", c, <<>>, FALSE, owed)
        \/ /\ k > 0 /\ queue = <<>> /\ owed = "nil"
           /\ \E chunk \in Chunk, err \in SourceErr :
                LET m == Shorter(k, chunk) IN
                \/ /\ Len(chunk) <= k /\ (k >= Size \/ chunk = <<>>)
                   /\ Returns(<<>>, "nil", c, chunk, FALSE, err)
                \/ /\ k < Size /\ Len(chunk) \in 1 .. Size
                   /\ Returns(After(m, chunk), err, c, First(m, chunk), FALSE, "nil")
                \/ chunk = <<>> /\ Returns(<<>>, err, c, <<>>, FALSE, "negative read")

(* WriteTo's writer takes the first k items; its error ends the call.      *)
(* A writer that takes nothing of a full queue breaks it.                  *)
Emit ==
  /\ call.op = "WriteTo"
  /\ \E k \in 0 .. Len(queue), err \in SinkErr :
       LET q == After(k, queue)
           c == [call EXCEPT !.got = @ \o First(k, queue), !.count = @ + k]
       IN  \/ err # "nil" /\ Returns(q, owed, c, c.got, FALSE, err)
           \/ err = "nil" /\ Len(q) < Size /\ GoesOn(q, owed, c)
           \/ err = "nil" /\ Len(q) = Size /\ Returns(q, owed, c, c.got, FALSE, "full panic")

(* The other two ends move items between themselves.                       *)
Direct ==
  /\ call.op = "WriteTo"
  /\ \E chunk \in Chunk, err \in SinkErr :
       Returns(queue, owed, [call EXCEPT !.count = @ + Len(chunk)], call.got \o chunk, FALSE, err)

(* An other end that returns a negative count ends the call.               *)
Broken ==
  /\ call # NoCall
  /\ \E err \in {"negative read", "negative write"} :
       /\ err = "negative write" => call.op = "WriteTo"
       /\ Returns(queue, owed, call, call.got, FALSE, err)

(* UnreadItem never succeeds: it refuses, or breaks and leaves one item    *)
(* more to be read.                                                        *)
UnreadItem ==
  /\ call = NoCall
  /\ LET c == Called("UnreadItem", 0, Zero) IN
     \/ Returns(queue, owed, c, <<>>, FALSE, "invalid use")
     \/ /\ Len(queue) < Size
        /\ \E x \in Item : Returns(<<x>> \o queue, owed, c, <<>>, FALSE, "nil pointer")

Reset ==
  /\ call = NoCall
  /\ \/ Returns(<<>>, "nil", Called("Reset", 0, Zero), <<>>, FALSE, "nil")
     \/ Returns(queue, owed, Called("Reset itself", 0, Zero), <<>>, FALSE, "nil")

Next ==
  \/ \E n \in Count : Begin("Peek", n, Zero) \/ Begin("Discard", n, Zero) \/ Read(n)
  \/ \E delim \in Item : Begin("ReadSlice", 0, delim) \/ Begin("ReadItems", 0, delim)
  \/ Begin("ReadItem", 0, Zero)
  \/ Begin("ReadLine", 0, LineDelim)
  \/ Begin("WriteTo", 0, Zero)
  \/ Arrive
  \/ Emit
  \/ Direct
  \/ Broken
  \/ UnreadItem
  \/ Reset

Spec == Init /\ [][Next]_vars

=============================================================================
