--------------------------- MODULE FilterPipeline ----------------------------
(***************************************************************************)
(* Three of the package's types at work together: a RingFilter reads from  *)
(* a gbuf.Reader, and its process function writes what it is given to a    *)
(* RingBuffer, as in                                                       *)
(*   f := NewRingFilter(N, func(p []T) error { _, err := b.Write(p); ... })*)
(*   f.ReadFrom(r)                                                         *)
(* a variant of the README's converters, without the conversion.           *)
(* The caller may also write to the filter, read from it and from the      *)
(* buffer, and move the reader, between and after the filter's ReadFroms.  *)
(*                                                                         *)
(* ring, result, stream, fn   the RingFilter                               *)
(* reader, got   the gbuf.Reader                                           *)
(* sink     the RingBuffer, as long as the filter's ring                   *)
(* whole    what was to be read when the ReadFrom in progress began        *)
(***************************************************************************)
EXTENDS RingFilter

CONSTANTS Source, Room, Step, MaxIndex   (* as in SliceReader *)

VARIABLES reader, got, sink, whole

Src == INSTANCE SliceReader

ASSUME SourceAssumption == Src!SliceReaderAssumption /\ Source \subseteq Seq(Item)

filter == <<ring, result, stream, fn>>
source == <<reader, got>>
all == <<filter, source, sink, whole>>

PipelineInit == Init /\ Src!Init /\ sink = NewRing /\ whole = <<>>

(* Nothing but the reader's own calls moves the reader between ReadFroms.  *)
MoveReader == stream = Buf!NoStream /\ Src!Next /\ UNCHANGED <<filter, sink, whole>>

(* The filter reads and the buffer is read between and after all that.     *)
ReadFilter == Reading /\ UNCHANGED <<source, sink, whole>>
ReadSink(k) ==
  /\ stream = Buf!NoStream /\ sink' = RingRead(sink, k).ring
  /\ UNCHANGED <<filter, source, whole>>

WriteFilter ==
  /\ (\E p \in Input : Write(p)) \/ (\E x \in Item : WriteItem(x))
  /\ UNCHANGED <<source, sink, whole>>

Pump ==
  /\ reader.i >= 0
  /\ ReadFrom(Src!LenOf(reader)) /\ whole' = Src!Rest(reader)
  /\ UNCHANGED <<source, sink>>

(* The filter's ring has room from its write index to its end.             *)
PumpTurn ==
  LET o == Src!SourceRead(reader, N - ring.write) IN
  /\ ReadFromTurn(o.items, o.err)
  /\ reader' = o.reader /\ UNCHANGED <<got, sink, whole>>

(* Mutant: the process function writes only if the slice fits.             *)
FnWritesIfItFits(p) == IF Len(p) < N THEN RingWrite(sink, p).ring ELSE sink

FnWrites(p) == RingWrite(sink, p).ring

(* The process function runs and returns the error of Write, which is nil. *)
FnRuns ==
  /\ fn.busy /\ sink' = FnWrites(fn.slice)
  /\ WriteReturns("nil") \/ WriteItemReturns("nil") \/ ReadFromGoesOn
  /\ UNCHANGED <<source, whole>>

PipelineNext ==
  \/ MoveReader
  \/ ReadFilter
  \/ \E k \in Count : k >= 0 /\ ReadSink(k)
  \/ WriteFilter
  \/ Pump
  \/ PumpTurn
  \/ FnRuns

PipelineSpec == PipelineInit /\ [][PipelineNext]_all

-----------------------------------------------------------------------------

(* Whenever no process function is running, the buffer has the same items  *)
(* in the same slots as the filter and writes on at the same slot, though  *)
(* one of them fills its slice by Write and the other also by WriteItem    *)
(* and ReadFrom; only how much of it is unread is each one's own affair.   *)
Mirrored == ~ fn.busy => sink.items = ring.items /\ sink.write = ring.write

(* A ReadFrom from a gbuf.Reader counts and feeds all there was to read,   *)
(* once and in order, wherever the reader had been moved to, and leaves it *)
(* at its end.                                                             *)
DrainsAll ==
  [][ stream.op = "ReadFrom" /\ stream' = Buf!NoStream =>
        /\ result'.err = "nil" /\ result'.n = Len(whole) /\ fn.fed = whole
        /\ Src!AtEnd(reader') ]_all

(* The reader's index as the filter's ReadFroms move it too.               *)
BelowOnlyBy == Src!BelowOnlyBy

=============================================================================
