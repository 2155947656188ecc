--------------------------- MODULE ComparableReader ---------------------------
(***************************************************************************)
(* gbufio.ComparableReader[T] (gbufio/reader_comparable.go): a Reader that *)
(* can look for a delimiter.  Its three methods are loops over ReadSlice,  *)
(* and ReadSlice is a loop over the Reader's fill; they mix with the       *)
(* Reader's own methods, which it embeds.                                  *)
(*                                                                         *)
(* The constructor wraps a *Reader; given anything else it dereferences    *)
(* the nil *Reader it has not made yet.  It sets delim (LineDelim) and     *)
(* never excluded, whose branches in ReadLine are therefore not reachable. *)
(***************************************************************************)
EXTENDS BufioReader

CONSTANT LineDelim   (* the field delim *)

ASSUME DelimAssumption == LineDelim \in Item

(* Mutant: the search start is not counted from the read position.         *)
HitsFromStart(rd, c) == {i \in c.from + 1 .. rd.w : rd.buf[i] = c.delim}

(* The delimiter is looked for only in what has not been searched before.  *)
Hits(rd, c) == {i \in rd.r + c.from + 1 .. rd.w : rd.buf[i] = c.delim}

(* The head of ReadSlice's loop.  Sliced is what follows its return.       *)
SliceLoop(rd, c, Sliced(_, _, _, _)) ==
  LET hits == Hits(rd, c)
      hit == CHOOSE i \in hits : \A j \in hits : i <= j
      all == [rd EXCEPT !.r = rd.w]
  IN  IF hits # {}
      THEN Sliced([rd EXCEPT !.r = hit], c, SubSeq(rd.buf, rd.r + 1, hit), "nil")
      ELSE IF rd.err # "nil" THEN Sliced(ErrRead(all), c, Unread(rd), rd.err)
      ELSE IF Buffered(rd) >= Size THEN Sliced(all, c, rd.buf, "buffer full")
      ELSE Fill(rd, [c EXCEPT !.from = Buffered(rd)])

(* What ReadSlice remembers for UnreadItem before it returns line.         *)
Remember(rd, line) == [rd EXCEPT !.last = @ \/ line # <<>>]

(* ReadLine cuts the delimiter off, and keeps an error to itself if there  *)
(* is a line to return.                                                    *)
LineEnd(rd, c, line, err) ==
  IF err = "buffer full" THEN Return(rd, [c EXCEPT !.prefix = TRUE], line, 0, "nil")
  ELSE IF line = <<>> THEN Return(rd, c, <<>>, 0, err)
  ELSE Return(rd, c, IF line[Len(line)] = c.delim THEN SubSeq(line, 1, Len(line) - 1) ELSE line,
              0, "nil")

(* collectFragments copies a full buffer away and reads on.                *)
FragmentEnd(rd, c, line, err) ==
  IF err = "buffer full" THEN Fill(rd, [c EXCEPT !.got = @ \o line, !.from = 0])
  ELSE Return(rd, c, c.got \o line, 0, err)

SliceEnd(rd, c, line, err) ==
  \/ c.op = "ReadSlice" /\ Return(Remember(rd, line), c, line, 0, err)
  \/ c.op = "ReadLine" /\ LineEnd(Remember(rd, line), c, line, err)
  \/ c.op = "ReadItems" /\ FragmentEnd(Remember(rd, line), c, line, err)

ReadUntil(op, delim) ==
  call = NoCall /\ UNCHANGED left /\ SliceLoop(reader, Called(op, 0, delim), SliceEnd)

ReadSlice(delim) == ReadUntil("ReadSlice", delim)
ReadLine == ReadUntil("ReadLine", LineDelim)
ReadItems(delim) == ReadUntil("ReadItems", delim)

SliceResume(rd, c) ==
  c.op \in {"ReadSlice", "ReadLine", "ReadItems"} /\ SliceLoop(rd, c, SliceEnd)

SliceFillTurn(chunk, err) == FillRead(SliceResume, chunk, err)

-----------------------------------------------------------------------------

Delimiting ==
  \/ \E delim \in Item : ReadSlice(delim) \/ ReadItems(delim)
  \/ ReadLine
  \/ \E chunk \in Chunk, err \in SourceErr : SliceFillTurn(chunk, err)

ComparableNext == Next \/ Delimiting

ComparableSpec == Init /\ [][ComparableNext]_vars

=============================================================================
