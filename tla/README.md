# A TLA+ verification of gbuf

`gbuf` is a Go library of generic buffers: a growing `Buffer[T]`, circular
buffers `RingBuffer[T]` and `RingFilter[T]`, peeking, a slice reader, generic
`container` types and, in `gbufio`, buffered readers, writers and a scanner.

These modules model the library's code, check the models with TLC on small
instances and prove the most important facts about them with TLAPS for every
value of the constants. Everything here is translated from the Go source. Where
a comment or the README of the repository promises something else, section 3
says so; for `gbufio.Reader.UnreadItem` a run refutes the promise and
`PROJECT.json` lists it under `findings`.

## 1. Inventory

The library has no goroutine and no lock. `Buffer.isReading` is an
`atomic.Bool`, but nothing else in the struct is synchronised, so a buffer is
used by one goroutine at a time. What makes the code hard is not concurrency
but *long sequences of legal calls* over a few interdependent indices, *calls
out* (a reader, a writer, a process function, each of which may take less than
it was offered, fail, or do both) in the middle of an update, and *boundaries*
(full, empty, wrapped, one slot, out of memory).

| component | state | operations | calls out | what is hard | what makes it correct |
|---|---|---|---|---|---|
| `RingBuffer` (`ringbuffer.go`) | `full`, `write`, `read`, `items` | Write, WriteItem, Read, ReadItem, ReadItems, Next, Value, UnreadItem, Seek, Truncate, Reset, ReadFrom, WriteTo, Len, Cap | reader, writer, delimiter | empty against full, wrapping, Go's `%` on negative numbers, chunks that overtake the read index, short transfers | what is unread is the newest items written and not read, in order; no panic; transfers end |
| `RingFilter` (`ringfilter.go`) | the same, and `fn` | the same | the same, and `fn` | `fn` runs with the ring half updated and may fail or panic | stores like a RingBuffer; `fn` sees what is stored |
| `Buffer` (`buffer.go`) | `buf` (array, length, capacity), `off`, `isReading` | Write, WriteItem, Read, ReadItem, ReadItems, Next, Value, UnreadItem, Truncate, Reset, Grow, ReadFrom, WriteTo, Len, Cap | reader, writer, delimiter | memory reclaimed, slid or reallocated under unread items; panic when too large | a FIFO queue with one item of put-back; Grow's room lasts |
| `Peek`, `PeekBuffer` (`peek.go`, `peek_buffer.go`) | a Buffer's | Peek, PeekFrom, PeekRange | none | indices into memory that has been read already | a look ahead that changes nothing |
| `Reader` (`reader.go`) | `s`, `i` | Read, ReadAt, ReadItem, UnreadItem, Seek, WriteTo, Reset | writer | seeking past the end, short writes | reads the slice once, in order |
| `List` (`list.go`) | doubly linked elements with an owner | Push*, Insert*, Move*, Remove, Push*List, Init | none | elements of another, or of a cleared, list | `next` and `prev` inverse, `len` right |
| `Ring` (`ring.go`) | circular links | Next, Prev, Move, Link, Unlink, Len, Do | callback | linking a ring to itself splits it | the nodes stay partitioned into cycles |
| `Heap` (`heap.go`) | the caller's array | Init, Push, Pop, Remove, Fix | Less, Swap, Push, Pop | Remove and Fix move both ways | heap order, nothing lost |
| `Repeat` (`items.go`) | none | Repeat | none | overflow, doubling copy | `count` copies |
| `gbufio.Reader` | `buf`, `r`, `w`, `err`, `lastItem` | Peek, Discard, Read, ReadItem, UnreadItem, WriteTo, Reset | reader, writer | error kept for a later call, empty reads, unread | no item lost, each error reported once |
| `gbufio.ComparableReader` | a Reader's, `delim`, `excluded` | ReadSlice, ReadLine, ReadItems | reader | a delimiter across a refill | lines whole, nothing scanned twice |
| `gbufio.Writer` | `buf`, `n`, `err` | Write, WriteItem, ReadFrom, Flush, Reset | writer, reader | short write, sticky error | forwarded ++ buffered = accepted |
| `gbufio.Scanner` | `buf`, `start`, `end`, `err`, `empties`, `done` | Scan, Buffer, Split | reader, split function | shift, growth, give-up counters | tokens partition the input, Scan returns |
| `gbufio` options, `ReadWriter`, `errors`, `errs`, `tools` | none | none | none | none | none |

How they interact: the rings and the buffers are readers and writers of each
other (`ReadFrom`, `WriteTo`), a `PeekBuffer` embeds a `Buffer`, a
`ComparableReader` embeds a `gbufio.Reader`, and a `RingFilter`'s process
function typically writes to another ring. All of it goes through the
interfaces of `gio` (outside this repository), which the models treat as the
caller's: any count and any error the interface allows. `FilterPipeline` puts
three of them together.

The hazards of each part, at the line where they bite, are in `PROJECT.json`.

## 2. Modules

| module | what it is |
|---|---|
| `RingOps` | the ring as a record of the Go fields, and each method as an operator from a ring to a ring and returned values; shared by the two rings, whose Go code is the same but for the process function |
| `RingBuffer` | one action per method of RingBuffer; ReadFrom and WriteTo one action per call out |
| `SlidingWindow` | what a RingBuffer promises: the last N items written and not yet read |
| `RingBufferContract` | the callers for whom it keeps the promise (`KeepingSpec`), the refinement `IsSlidingWindow`, and the invariant `Consistent` |
| `RingFilter` | one action per method; Write, WriteItem and ReadFrom split at the call of `fn`; refinement to `RingBuffer` |
| `Buffer` | one action per method of Buffer and PeekBuffer, `grow` with its four ways to find room |
| `ItemQueue` | what a Buffer promises: a FIFO queue with one item of put-back |
| `BufferContract` | the callers for whom it keeps the promise, `IsItemQueue`, and the invariants for any caller |
| `SliceReader` | the methods of `gbuf.Reader`, one operator and one disjunct each |
| `FilterPipeline` | a RingFilter that reads from a SliceReader and whose `fn` writes to a RingBuffer |
| `BufioWriter` | one action per method of `gbufio.Writer`, and one per call to the writer or reader behind it |
| `Forwarder` | what it promises: items go out in order, each once, and nothing moves after an error |
| `BufioWriterContract` | the refinement `IsForwarder`, and what the other ends must do for every call to return |
| `BufioReader` | one action per method of `gbufio.Reader`, and one per call to the reader or writer behind it |
| `ComparableReader` | the same for ReadSlice, ReadLine and ReadItems around it |
| `Lookahead` | what the two promise: a queue of what was delivered, and the error owed |
| `BufioReaderContract` | the refinement `IsLookahead`, fairness and `CallReturns` |
| `Scanner` | `gbufio.Scanner`: Scan with a step for every Read, Buffer and Split |
| `Tokenizer` | what it promises: tokens cut from the front of what was read |
| `ScannerContract` | the refinement `IsTokenizer`, fairness, `ScanReturns` and `ScanningEnds` |
| `List`, `ListSeqs`, `ListContract` | doubly linked lists over nodes; sequences; the refinement |
| `Ring`, `Cycles` | rings of linked elements, with the refinement of cycles |
| `Heap`, `PriorityQueue`, `HeapContract` | the heap routines on a slice; a bag; the refinement |
| `Repeat` | Repeat with machine integers that wrap round |
| `Containers` | the four side by side: a behaviour is one of any of them |
| `MC...` | the sets of arguments for TLC; `MCBufioReader` also states the comment of UnreadItem, which the code does not keep |
| `RingOps_proofs` | lemmas about the ring operators: what each one preserves |
| `RingBuffer_proofs` | `TypeCorrect`, `PanicsOnlyWhen`, `StaysConsistent`, `KeepingRefinesAny`, `RefinesWindow` |
| `RingFilter_proofs` | `TypeCorrect`, `StoresAlike`, `SawNewest`; of the pipeline `Mirroring`, `Draining`, `StaysInSlice` |
| `Buffer_proofs` | `TypeCorrect`, `RoomLasts`, `ReaderHasRoom`, `ReadsKeepMemory`, `RefinesQueue` |
| `BufioWriter_proofs` | `TypeCorrect`, `ForwardsInOrder` |
| `BufioReader_proofs` | `TypeCorrect`, `RefinesLookahead` |
| `Scanner_proofs` | `TypeCorrect`, `RefinesTokenizer` |
| `Containers_proofs` | `ListsStayLinked`, `ListsEnumerate`, `ListsAreSeqs`, `RingsStayClosed`, `RingsAreCycles`, `HeapStaysOrdered`, `HeapIsPriorityQueue`, `RepeatsOrPanics`, and the induction over loops |

### From the code to the model

*A ring* is `[full, write, read, items]`, the fields of the struct. `items` is a
function over `0 .. N-1`. Slice expressions are `Slice(items, from, to)`, and a
slice expression that panics in Go is a call that returns `"panic"` and leaves
the ring as it was at that point: the caller may recover, so the state goes on
being used. `GoMod` is Go's `%`, which keeps the sign of its left operand; it is
why `read` ranges over `(1-N) .. (N-1)`.

*A Buffer* is `[cells, len, off, isReading, made]`: `cells` is the array behind
`b.buf` to its capacity, `len` is `len(b.buf)`, `made` says `b.buf` is not nil.
`Grown(b, n)` is `grow(n)`: the set of buffers it may leave (`append` may round
a new capacity up, by at most `Slack`), empty when it panics with
ErrBufferTooLarge. The five steps are in the code's order: give the front back
if nothing is unread, reslice, allocate a first small array, slide down, or
reallocate.

*Calls* that finish on the struct alone are one action: the struct afterwards,
and in `result` what the call was and what it returned. *ReadFrom and WriteTo*
set `stream`, and every Read or Write of the other end is an action of its own,
with what it may deliver or take and which error it returns chosen freely.
*The process function* of a RingFilter is `fn`: the step that calls it leaves
the ring as it is at that line of the method, and the method goes on from there
with whatever `fn` answers, or not at all if `fn` panics.

*A gbufio.Writer, Reader or Scanner* is a record of its Go fields. A method
that comes to a call on its other end stops there: `call` has the method, the
line it waits at (`at`: "flush", "direct", "read", "pass on", "fill", ...) and
its locals, and the answer of the other end is an action of its own. What the
code does between two such calls is one operator, `Fill`, `WriteLoop`,
`SliceLoop` and the like, named after the loop head it stands for; where one
loop is shared by several methods, what follows it is an operator parameter
(`FillRead`, `SliceLoop`, and `PushList` of `List`).

*List and Ring* keep a function for each link, over nodes that are model values;
a zero `List` or `Ring` has `Nil` links, and each method links it lazily where
the code does. *Heap* is the caller's slice with `up` and `down` as recursive
functions over indices. *Repeat* keeps every `int` at most `MaxInt`, so that the
product that overflows really wraps.

`result`, the items in `stream.moved`, in the `given` and `got` of a call, and
`promise` and `taken` are not in the program (it counts the items moved, it does
not keep them). They record what a caller could have written down, so that the
properties can relate calls to each other. No guard of a `Spec` action reads
`result` or `promise`.

### What the models assume

- A reader fills at most the slice it is handed and a writer takes at most
  that (for `Buffer.WriteTo`, which checks, also more). Negative counts are
  modelled where the code tests for them.
- A reader, a writer, `fn` or a delimiter function does not call back into the
  structure that is calling it, and does not keep or change the slice.
- `int` and `int64` do not overflow, except in `grow`, whose comparison with
  `maxInt` is modelled (`MaxInt`), and in `Repeat`.
- Which error a method returns is modelled up to what a caller can act on. In
  particular, that RingBuffer.Seek and RingBuffer.ReadFrom return the
  `ErrRingFilter...` values (`ringbuffer.go:226`, `:390`) is not in the model.
- Heap routines are called as `heap.go` asks: Init first, Pop on a heap that
  is not empty, an index that there is. Elements of a list that Init cleared are
  not used again (the code would take them for its own and make `len` negative).
- `lastItem` of a gbufio.Reader is modelled as set or not set; the value it
  points to is never read on a path that returns.
- `NewBuffer` is given slices without spare capacity, or nothing at all.
- A slice a method returns is a value. What happens afterwards to the memory that
  `Buffer.Next` and `Buffer.Value` return is seen in `cells` (`MemoryKept`); that a
  caller writes to it is not in the model.

## 3. What the runs check

Every run has deadlock checking on.

### RingBuffer

`ring_any` (N = 4, 51,338 states): **any caller**, every method with any
argument in any order, also after panics. `TypeOK`: the fields stay in range.
`PanicOnlyWhen`: a call panics only (1) on a read index that UnreadItem or Seek
made negative, (2) on a Truncate across the end of the slice, (3) after a
writer took less of the tail than it was handed and returned no error. Every
other slice and index expression of the file is thereby shown in bounds.
`StreamEnds`: under `FairSpec`, ReadFrom and WriteTo return.

`ring_contract` (N = 4, 16,742 states): **callers that keep to the contract.** `ringbuffer.go` checks almost none of what its methods rely on, so
the promise one would like, `SlidingWindow`, holds only for callers that keep to
the `Fits...` conditions of `RingBufferContract`. `IsSlidingWindow` is the
refinement, as `SlidingWindow`'s specification under the mapping that takes the
window to the unread items: each step of the ring is a step of the window with
the same result. `Consistent` is what keeps the fields in step. Each condition
is needed: with any one of them dropped TLC finds the refinement violated.
They are what a user of the library must know:

| condition | otherwise |
|---|---|
| a slice as long as the ring is written only at write index 0 | it is read back rotated |
| ReadItem, ReadItems and WriteTo only with something unread | a stale item is returned and N - 1 more appear |
| Value, and Next past the end, only with the unread part in one piece or the ring full | the whole ring is returned |
| Truncate not across the end | panic |
| ReadItems only with a read part that starts at slot 0 or reaches the end | it scans from the wrong slot |
| UnreadItem directly after a read, not at slot 0, not to N unread items | read turns negative, or everything vanishes |
| Seek over unread items, not on a full ring | any of the above |
| the reader does not deliver items together with an error | they are dropped, and may have overwritten others |
| the writer returns an error when it takes less, and takes something of a full ring | panic, or the rest is lost |

Comments of `ringbuffer.go` that the code does not keep, in the terms of that
table: after an odd number of smaller writes, a Write as long as the ring is not
"in sequential order" (`:71`), and returns the ring's length for a longer slice
(`:72`); what a reader delivers together with io.EOF is not appended, nor
counted (`:210`); Read never returns io.EOF (`:117`) and ReadItem neither
(`:372`); Value is not "of length b.Len()" (`:150`); Truncate panics (`:187`);
WriteTo sends more than was unread (`:259`); and UnreadItem succeeds without a
read before it (`errors.go:41`).

### RingFilter

`filter_any` (N = 3, 21,949 states): any caller and any process function.
`FilterSawNewest`: while `fn` runs, the newest items of the ring are the last
ones it was fed in this call, in order, through every wrap, overwrite and
partial chunk, from whatever state earlier failures left.

`filter_alike`: the README's "stores the data the exact same way" is the
refinement `StoresAsRingBuffer`, with the whole `RingBuffer` specification as
the abstract one. It holds with these exceptions left out: an `fn` that fails
in ReadFrom or panics, Reset (also through Truncate) on a full ring, and
UnreadItem where "full" and "indices equal" differ. The mapping completes the
indices of the call in progress (`Settled`), so the call of `fn` is where the
write takes effect.

Those exceptions are where a comment or that sentence says otherwise: Reset,
unlike RingBuffer's, leaves a full ring full (`:321`); a chunk that ReadFrom has
stored, counted and fed is lost when `fn` refuses it (`:259`), while Write keeps
what `fn` refused. Besides, WriteItem's error is not "always nil" (`:113`), `fn`
is fed the new items and not "the entire unread buffer" (`:84`), after each Read
and not "for each complete cycle" (`:218`), and UnreadItem fails after a read
that drained the ring (`:349`).

### A pipeline

`pipeline` (N = 2, 62,176 states): a variant of the compositions the repository's
README shows, a RingFilter that ReadFroms a `gbuf.Reader` and whose process function
writes to a RingBuffer. (There the function converts the items and writes them to
another RingFilter, one without a function; here it writes what it is given.) `Mirrored`: whenever `fn` is not running, the buffer has
the same items in the same slots as the filter, although one gets them by Write
and the other also by WriteItem and ReadFrom. `DrainsAll`: a ReadFrom counts and
feeds all that was to be read, once and in order, wherever Seek had left the
reader, past its end included. `BelowOnlyBy`: nothing but a writer's negative
count takes the reader's index below 0, where its next Read would panic: WriteTo
of `reader.go` takes such a count for a short write (`:134`). It also returns
ErrReaderNegativeCount for a count that is too large.

### Buffer

`buffer_any` (143,000 states, `Slack = 1`): any caller, with an array of at most
4 (5 with rounding). `TypeOK`: `0 <= off <= len <= cap` and the maximum is never
passed. `GrowHolds`: after `Grow(n)` the room for n items is there until those n
are written, whatever is read, unread, truncated or reset in between, in several
writes or from a reader. `RoomForMinRead`: a reader is always handed at least
MinRead slots, and all there are. `StreamEnds`: under `FairSpec`, ReadFrom and
WriteTo return. `MemoryKept`: Next and Value hand out `b.buf`'s own memory, and
no call changes an item that stays within `b.buf`, except a Write, WriteItem,
Grow or ReadFrom that moves the unread items down to the front of the array. A slice
that was handed out is thus good for longer than the comment of Next
(`buffer.go:297`) promises, but for memory that Truncate or a reset cuts off `b.buf`,
which the property no longer speaks of. It is also stricter than needed: when
`grow` reallocates, the old array, which the caller then holds, stays as it is.

`buffer_queue` (31,000 states): `IsItemQueue`, the refinement to `ItemQueue`:
what is unread is what was written and not yet read, in order, through every
growth, slide, reset, failed transfer and panic; UnreadItem puts back the item
last read. It needs four conditions, each necessary: no reallocating Grow
between a read and its UnreadItem, ReadItems only with something unread,
PeekFrom only while nothing has been read, and PeekRange never with two
different offsets in range (it panics).

Comments the code does not keep: after Read and Grow, UnreadItem reports success
and unreads nothing (`buffer.go:335`), as it does after a ReadItems that took
nothing or hit the end (`buffer.go:337`); every PeekRange with two different
offsets in range panics while something is unread (`peek.go:56`,
`peek_buffer.go:56`); PeekFrom is not "just like Peek" (`peek.go:30`) once
something has been read.

### gbufio.Writer

`bufio_writer` (buffer of 3, 43,768 states): any caller, a writer that takes any
part of what it is handed and fails at any time, with and without a ReadFrom
method. `IsForwarder` is the refinement to `Forwarder`, whose whole state is the
queue of what is on its way: buffered items, then what the Write in progress has
still to place. It says that the direct path and the buffered one keep one
order, that a short flush neither loses nor repeats an item, that the counts of a
failed Write and ReadFrom are exactly what was kept, and that the first error
stops everything until Reset. `CallReturns`: every method returns, although
Write's loop has no counter. Unlike the rings it needs no condition on callers.

### gbufio.Reader and ComparableReader

`bufio_reader` (buffer of 2, 38,022 states): any mix of the two types' methods
over a reader that delivers any part, with any error, or nothing. `IsLookahead`
is the refinement to a queue and an owed error: but for the exceptions below, no
item is lost, repeated or reordered by any mix of methods; each error is reported
at most once; ReadSlice, which searches only what it has not searched before,
finds the first delimiter wherever the reads were cut. The abstract module has
to admit what the code does beyond that:

- UnreadItem panics when there is no last item (`reader.go:280`), after it has
  moved the read or write position: a caller that recovers finds one item more,
  which was read before or never delivered;
- a negative count of an other end is a panic (`:104`, `:337`) and throws away what
  ReadItems had gathered;
- after a short write without an error, WriteTo's direct path lets later items
  overtake those still buffered (`:300`, `:305`);
- WriteTo's loop fills a buffer that need not be empty, whatever its comment says
  (`:323`), and fill panics (`:97`) if the writer took nothing of a full one;
- Discard and WriteTo fill again (`:178`, `:313`, `:323`) although an error is owed,
  and may overwrite it (`:108`);
- ReadLine drops an error that comes with a line.

`CallReturns`: every method returns, though Discard, ReadItem, ReadSlice and
ReadItems have no counter over the fill that gives up after
`MaxConsecutiveEmptyReads`.

`reader_UnreadsLast` refutes the comment of UnreadItem (`reader.go:264`): called
directly after a ReadItem that returned an item it reports
ErrInvalidUnreadItem, because the test at `:270` refuses when `lastItem` is set;
when it is nil the method steps back and dereferences it. It never succeeds.

### Scanner

`scanner` (a largest buffer of 3, 200,842 states): Scan, Buffer and Split in any
order, with ScanLines or a split function that returns what it likes (an advance
out of range, a token without advance, ErrFinalToken, an error). `IsTokenizer`
is the refinement to a queue from whose front tokens are cut: the same line
wherever reads were cut and however the buffer was shifted and doubled,
"too long" exactly when the largest buffer is full without a token. `ScanReturns`
and `ScanningEnds`: Scan returns, and so does a loop around it, for lines always,
for any split function once the reader has ended.

The abstract module again admits what the code does: after ErrTooLong or an error
of the split function a later Scan may return true, though scanning is said to
stop "unrecoverably" (`scanner.go:22`); and ScanLines panics on the first line
that is not empty of a scanner with no excluded value, because `dropExcluded`
dereferences it ("Ignored if nil", `scanner.go:32`, `:289`). The comparison
`*zero != nil` in that line is between a type parameter and nil, which the Go
specification does not allow; it is modelled as true.

### List, Ring, Heap, Repeat

`containers` (1,692 states): every legal sequence of calls on two lists of 4
elements, on rings of 4 elements, on a heap of up to 7 items of 3 ranks, and of
Repeat with 4-bit integers. `IsListSeqs`: each method does to the sequence what
its comment says, moves among neighbours and copies of a list to itself
included. `EnumeratedBothWays` and `LinkedBothWays`: the links are inverse, each
end is reached after `len` steps, a removed element has no links. `IsCycles` and
`RingsClosed`: Link joins two rings, splits one, or does nothing, with the same
four assignments; zero values are linked at first use. `HeapOrder` and
`IsPriorityQueue`: Remove and Fix restore the order upwards or downwards, and
lose nothing. `Repeats`: `count` copies, or the panic its comment announces, for
every product that overflows.

### Bounds, and why they are enough

- Rings have 3 or 4 slots: 3 has a slot that is neither first nor last; 4 lets
  an unread part and a free part both be longer than one. (The theorems hold for
  every length, the ring of one slot included.) Two item values, one the zero value,
  tell order, staleness and clearing apart: an item in the wrong place shows in
  some assignment of values to places.
- Slices written and streams read go to N + 1, one past the ring; counts and
  offsets go past it in both directions.
- `SmallBufferSize` 64 is scaled down to 1 and `MinRead` 512 to 2, with memory
  for 4 items and `MaxInt` 8: all branches of `grow` are taken, reslicing,
  first allocation, sliding, reallocation, panic by `make`. The panic by
  `maxInt` comes after the one by memory at these bounds; both lead to the same
  state.
- Delimiters accept nothing, one value, or (for the rings) the other value.
- The pipeline has rings of 2, slices of up to 3 items and a reader of 3, more
  than one turn of the ring; `MaxIndex` (4) bounds how far callers seek past the
  reader's end, where all indices behave alike.
- `gbufio` buffers of 2 or 3 items have a first, a middle and a last position;
  what is written and read is longer by one or two, so that both the direct
  paths and two refills occur. The other ends of a gbufio.Writer or Reader deliver
  any slice in `Chunk`, which for TLC are all up to the longest stream (4), so that
  nothing a call could move is left out; a direct write takes any part of what it
  is handed. `MaxConsecutiveEmptyReads` 100 is scaled to 2, or 1
  in the Scanner, `defaultBufSize` 4096 to 1 (`StartBufSize`) and
  `MaxScanTokenSize` 65536 to 3: start, one doubling, one doubling that is cut
  to the maximum. `TooManyEmpties` caps the count of empty tokens where the code
  panics.
- 4 elements let an element, its mark and the neighbours of both be distinct;
  two lists let an element belong to the other one; ring counts go from -2 to 6,
  once round and on. A heap of 7 has three full levels. `MaxInt` 7 (4 bits) overflows
  with slices of 2 and 3, to either sign.
- `pipeline` and `containers` give TLC a VIEW without the variables that record
  what the last calls returned. No guard reads them, so two states that differ
  in them only have the same successors; the properties of those runs compare a
  step's results with the state before it, and every step is still generated.
  `containers` also has elements, and lists, as a symmetry set; it checks safety
  only.

All state spaces are finite without a state constraint: no counter grows
without bound, because `stream` is cleared between calls.

### Fairness

`ReadFrom` and `WriteTo` are loops, so a turn that can be taken is taken in the
end (weak fairness). That they end also depends on the other end: a reader that
still has items delivers some in the end and reports its end once it has none,
a writer returns. A reader may return `(0, nil)` any number of times in
between, but not for ever; this library's own `gio.Reader` documentation lies
outside the repository, and `bufio`-style readers count such reads, so this is
an assumption on callers, stated in `Fairness`. In `Buffer` the reader's turn
alternates with `grow`, so a turn is not continuously enabled and strong
fairness is needed for it. Nothing is assumed of the process function.

For `gbufio` the turns of a loop are weakly fair: a Read or Write that was called
returns. Of readers nothing more is asked, they may deliver nothing for ever,
because the code counts such reads. Of the writers that Writer.Write hands a
large slice to directly, and that Reader.WriteTo drains its buffer to, it is
asked that they take something in the end or return an error, if offered items
again and again (strong fairness, since other steps lie between two offers);
neither loop counts, so that without it both run for ever. `ScanningEnds` also
assumes that Scan is called again (`for s.Scan()`).

## 4. What is proved

For every size, every item type and every set of arguments, from the assumptions
on the constants that TLC evaluates as well (`RingAssumption`, `CallAssumption`,
`FilterAssumption`, `BufferAssumption`, `WriterAssumption`, `ReaderAssumption`,
`SourceAssumption`, `DelimAssumption`, `ScannerAssumption`,
`ContainersAssumption`). `Chunk`, the slices the other ends of a gbufio.Writer or
Reader may deliver at a time, is a parameter too, and may be all slices:

- `RingBuffer_proofs!TypeCorrect`: `Spec => []TypeOK`.
- `RingBuffer_proofs!PanicsOnlyWhen`: `Spec => PanicOnlyWhen`.
  `TypeOK` alone is not inductive enough for it: while WriteTo is sending the
  tail, that the next slice is in bounds depends on what the tail step found.
  The invariant `IInv == TypeOK /\ TailHeld` adds that `read >= write` during
  the tail.
- `RingBuffer_proofs!StaysConsistent`: `KeepingSpec => []Consistent`,
  with `KeepInv == TypeOK /\ Consistent /\ NothingReturned`: while a transfer
  is in progress no call has returned, so UnreadItem cannot follow it.
- `RingBuffer_proofs!KeepingRefinesAny`: `KeepingSpec => Spec`, so the
  first two hold for keeping callers too.
- `RingBuffer_proofs!RefinesWindow`: `KeepingSpec => IsSlidingWindow`.
  `WindowInv` adds `Counted` to `KeepInv`: the `n` of a transfer is the number of
  items it moved, and one that is sending the tail has something to send (or
  WriteTo would hand a writer what nobody wrote). All indices are counted
  backwards from the write index (`Ends`), because that is where a write puts its
  items whether or not it overwrites: `Grown` is the one lemma for the ways to
  store, `Shrunk` the one for the ways to take, and `FullFrom` says that each of
  the code's different tests for "the ring is full now" is `RingLen + c >= N`.
  Each method has a lemma on the unread items (`WriteWindow`, `ReadWindow`,
  `SeekWindow`, ...) and each action one that names the window's action it is.
- `RingFilter_proofs!TypeCorrect`: `Spec => []TypeOK`, with
  `IInv == Typed /\ Calls /\ TailHeld`, also while `fn` runs, fails or panics.
- `RingFilter_proofs!StoresAlike`: `AlikeSpec => StoresAsRingBuffer`, the
  refinement of RingBuffer's whole specification. The initial states are mapped by
  `InitIsPlain`; each group of actions has a lemma (`ReadingIsPlain`,
  `WritingIsPlain`, ...) that maps its steps to the RingBuffer's action, or to a
  stutter when `fn` returns. The `Same...` and `Plain...` lemmas at the head say
  that the operators reached through the two instances are one and the same.
- `RingFilter_proofs!SawNewest`: `Spec => []FilterSawNewest`. The property
  speaks of the moments `fn` runs, and ReadFrom calls it chunk after chunk, so the
  invariant `SawInv` carries it through the turns in between: the last
  `Kept(fn.fed)` slots before the write index hold the end of what was fed
  (`Sees`, counting backwards so that no modulus is left). `StoreSeen`,
  `StoreWholeSeen`, `WriteItemSeen` and `ChunkSeen` establish it for the four
  ways to store, from the lemmas on `Laid` in `RingOps_proofs`, which the window
  of RingBuffer rests on too.
- `RingFilter_proofs!Mirroring`, `Draining` and `StaysInSlice`: `PipelineSpec =>
  []Mirrored`, `PipelineSpec => DrainsAll` and `PipelineSpec => BelowOnlyBy`, from
  one invariant. `PInv` adds to the filter's `IInv` that the buffer as it will
  be once the process function has written its slice (`Due`) is `Alike` the
  filter's ring as it will be once the function has returned (`Settled`): the two
  differ while `fn` runs, so `Mirrored` is not inductive alone. `WriteAlike`,
  `WriteItemAlike` and `ReceiveAlike` say that the three ways to store a slice
  leave what Write of it leaves, whatever `full` and `read` are. `Owed` is what
  `DrainsAll` rests on: in a ReadFrom, what was fed and what the reader has left
  make up what there was (`SourceReadRest`). `PInv` holds, as an invariant, in
  all states of the `pipeline` instance.
- `Buffer_proofs!TypeCorrect`, `RoomLasts` and `ReaderHasRoom`: `Spec =>
  []TypeOK`, `[]GrowHolds` and `[]RoomForMinRead`, for every caller, with one
  invariant. The last two need each other and the first: a reader must not take
  more than is spare (`Handed`), or its turn would push `len` past the array, and
  a grow that reallocates must leave at least what was promised before, which it
  does because it reallocates only when more is asked for than is spare
  (`GrownIs`). A lemma says of each operator that it keeps the order of read,
  written and spare items and takes no room away; each group of actions follows.
- `Buffer_proofs!ReadsKeepMemory`: `Spec => MemoryKept`, for every caller.
  `FoundRoom` says of each way to find room that it either moves `off` to the front
  (`Moved`) or leaves the length and all cells below it alone (`InPlace`); a slide or
  a reallocation with `off` at the front already is the second (`FrontRoom`), and
  `RoomOnwards` joins it to the reset before it. `PutCells` is that
  items put in behind the length change nothing before it, which needs `len <= cap`
  from the invariant. A turn of ReadFrom, which puts items in without looking for
  room, so never moves anything (`ReadFromTurnCells`).
- `Buffer_proofs!RefinesQueue`: `KeepingSpec => IsItemQueue`. `KeepInv`
  adds to the invariant above what keeping callers add: after a read there is an
  item before `off` (without it UnreadItem would step back over nothing), and a
  streaming call has forgotten the last read (so that the array may move under
  it). Each operator has a lemma on what it does to the unread items
  (`Advanced`, `PutAppends`, `PutBack`, `CutBack`; `FoundRoom` says that grow
  leaves them as they are), and each action one that names the queue's action it
  is: `ReadStep`, `AppendStep`, `GrowStep`, ... A turn of ReadFrom that only
  makes room is a stutter (`ReadFromGrowsStep`). `StillReading` is where the
  contract's `FitsGrow` is used: if an item can still be put back after
  Grow, nothing was moved.
- `BufioWriter_proofs!TypeCorrect` and `ForwardsInOrder`: `Spec => []TypeOK` and
  `Spec => IsForwarder`. The invariant adds to the types what a method relies on
  where it waits (`Waiting`: a direct write has an empty buffer and a long rest, no
  method waits once an error is kept) and what it holds of its caller's items
  (`Holding`: count and rest make up what was given). A lemma for each loop head
  says that, entered with the invariant, it goes on or returns as the abstract
  specification allows; the actions follow from them.
- `BufioReader_proofs!TypeCorrect` and `RefinesLookahead`: `ComparableSpec =>
  []TypeOK` and `ComparableSpec => IsLookahead`. `TypeOK` is not inductive, for
  it says nothing of a call's locals. `Inv` adds what each method relies on while
  it waits: `Filling` (the arguments are still those a loop may be entered with),
  `Writing`, `Gathers` (only Discard and WriteTo count, only ReadItems and
  WriteTo gather, and no other method has anything to lose) and above all
  `Searched`: the first `from` unread items are not the delimiter. That is what
  ReadSlice's shorter search rests on, and it survives a fill because a fill
  slides the unread items to the start and appends behind them (`SlidIs`,
  `StoredIs`), and ReadItems' reset of `from` because it has emptied the buffer.
  `HitIs` turns it into the refinement's step: the earliest hit in the part that
  is searched is the earliest in the whole queue. Each loop head has a lemma
  (`PeekStep`, `DiscardStep`, `ItemStep`, `PassStep`, `SliceStep`) used twice, for
  the call that enters it and for the fill that resumes it; a fill that read
  nothing is a stutter (`FillTurnStep`). `Inv` itself holds, as an invariant,
  in all states of the `bufio_reader` instance.
- `Scanner_proofs!TypeCorrect` and `RefinesTokenizer`: `Spec => []TypeOK` and
  `Spec => IsTokenizer`. `Inv` adds to the types that the buffer is empty before
  the first Scan (or Buffer would throw items away), and that a Scan which waits
  for the reader has room, no error, and has returned nothing. `ShiftedIs`,
  `ResizedIs` and `DeliveredIs` say what shifting, doubling and a Read do to the
  items between `start` and `end`: nothing, nothing, and an append. `Like` is what
  all the changes within a Scan have in common (the configuration, and the number
  of items that are too many, which doubling must not change), so that a chain of
  them is one lemma per link. `RefillStep` is the end of a turn without a token,
  `TokenStep` one with an advance in range; `LinesStep` and `AnyStep` cover the two
  kinds of split function, and `TryStep` is used for Scan's first turn and for
  every Read that resumes it (`ArriveStep`). An empty Read is a stutter. `Inv`
  holds, as an invariant, in all 200,842 states of the `scanner` instance.
  The assumptions on the constants say that a nil token is no slice, which is how
  the code tells "no token" from an empty one, and that of the sizes callers pass
  one is the largest, as of any set of ints.

- `Containers_proofs!ListsStayLinked` and `ListsEnumerate`: `Spec =>
  []LinkedBothWays` and `Spec => []EnumeratedBothWays`, for any number of lists
  and elements. That links are inverse is not inductive, for it does not say
  that a ring of elements goes through its root: nothing would then keep `len`
  right. `ListInv` says that there are sequences which the memory `Holds`: from
  the root of each list the links run through its sequence and back, both ways
  (`Circle`), no element is in two places (`Single`), an element names the list
  it is in, and one outside has no links unless its list was cleared (`Owned`).
  `InsertedHolds`, `RemovedHolds`, `MovedHolds` and `ClearedHolds` say which
  sequences the memory holds after each helper's assignments, whichever of the
  nodes are the root or each other's neighbours; each method has a lemma over them
  (`PushFrontMoves`, `MoveBeforeMoves`, ...). The loops of PushBackList and
  PushFrontList follow a list while it grows when it is copied to itself;
  `Backs` and `Fronts` say what has been copied after `k` turns and where the
  loop stands, and the turns are an instance of `LoopHolds`. `ForwardsAre`
  and `BackwardsAre` are the walks of the two properties.
- `Containers_proofs!ListsAreSeqs`: `Spec => IsListSeqs`, the refinement of
  ListSeqs. The sequences of `ListInv` are what Front and Next enumerate
  (`HoldsSeen`), so the lemma of each method already says what it makes of them,
  by position; `InIs` and `FreeIs` turn positions into ListSeqs' "is in the list"
  and "is in none", `InsertAtIs` and `RemoveAtIs` its operators on sequences into
  `With` and `Without`. `MovesToIs` is where a mark has gone once the element
  before it has been taken out, `StaysShifts` that a move to where the element
  is, which the code skips, makes the same sequence as one that is made.
  `PutListIs` says that the new elements have the values of the other list in its
  order, which PushFrontList allocates last to first.
- `Containers_proofs!RingsStayClosed`: `Spec => []RingsClosed`, with
  `Closed`, which adds to it that links are elements or nil. The four assignments
  of Link keep it whether they join, split or do nothing, also when r and s, or
  their neighbours, are one element (`JoinedClosed`); a walk of any length stays
  among linked elements (`WalkedIn`), and NewRing's positions are inverse on the
  circle (`OnAndBack`).
- `Containers_proofs!RingsAreCycles`: `IsFiniteSet(Elem) /\ Spec => IsCycles`, the
  refinement of Cycles. That links are inverse says nothing of which ring an
  element is in, so the invariant `Rings` adds that next turns through a sequence
  from every element back to it (`Turning`), or that the element is a zero value
  (`Ringed`). Only there the elements must be finitely many, as a program's are:
  Len and Do end because a ring cannot be longer than the set it is of, by the
  pigeonhole principle (`VisitedIs`). `MovedToIs` is Move in both directions and
  for every count, as an index modulo the length. Two rings that share an element
  have the same ones (`MeetingIs`), so that a ring which does not hold an end
  of a new link stays as it was (`LeftAlone`); what is left are the rings Link
  makes, one of two (`JoinIs`) or two of one (`SplitIs`, with the first possibly
  `r` alone and the second possibly nothing), with the order of its assignments
  deciding when r and the element before s are the same. Unlink is a split
  (`CutIs`): it finds with Move where `n` modulo the length ends.
- `Containers_proofs!HeapStaysOrdered` and `HeapIsPriorityQueue`: `Spec =>
  []HeapOrder` and `Spec => IsPriorityQueue`, for heaps of every length. `up`,
  `down` and Init's loop are recursive functions, so that a loop invariant is
  proved by induction over its turns: `LoopExists` and `LoopHolds` do that once,
  from the well-foundedness of the naturals, for a loop given as a function of
  functions. Those invariants are `Falls` (all is in order but below item `i`,
  whose children are not less than its parent, and after `k` turns `i` has come
  to rest or is `k` further) and `Rises`. `DownOrUpIs` is the argument Remove and
  Fix rest on, that an item which does not fall may be sent up: if a child is
  less than item `i`, then `i` is not less than its parent. `SwapSame` counts the
  items, through every swap, and `FirstIsLeast` is why Pop takes item 0.

- `Containers_proofs!RepeatsOrPanics`: `Spec => []Repeats`, for ints of any range,
  64 bits included, slices of any length and any count. `OverflowsIs` is
  that `len(b)*count/count != len(b)` finds every product that wrapped round, also
  to a positive number. The loop's invariant `Repeating` is that `bp` is a
  multiple of `len(b)`, that what is before it are copies, and that it grows with
  every turn until it has reached the end, or has become negative, which takes a
  result of more than half of all ints (`TurnCopies`, and `LoopHolds` for the turns).

The proofs about ring buffers go operator by operator: `RingOps_proofs` has, for each operator,
that it maps a ring to a ring (Go's `%` needs `GoMod`'s own bounds, and copies
need the domains of `Overwrite` and `Slice`); the module proofs then have one
step per action.

Only model-checked: all liveness, which is out of the proof system's reach. Every
other property of the passing runs is proved.

## 5. Not modelled, and why

- The option setters of `gbufio/config.go`, `ReadWriter`, the error values and
  the build tools have no behaviour of their own.
- Construction: NewReader and NewWriter that hand back a Reader or Writer which
  is large enough; `newComparableReader`, which for anything but a Reader or
  ComparableReader calls `reset` on the nil `*Reader` it embeds and panics
  (`reader_comparable.go:47`), drops `delim` on its last branch and never sets
  `excluded`.
- Which array a slice that `Buffer.Next` or `Buffer.Value` returned belongs to, once
  `grow` has allocated another one, and callers that write to it.
- A process function, reader or writer that calls back into the structure it is
  called from.
- `Scanner`'s comparison of a doubled buffer with `maxInt/2` (`scanner.go:192`),
  which no memory reaches; `prevRune` of `gbuf.Reader`, which nothing reads; the
  nil `*Buffer` that the free functions of `peek.go` accept.

## 6. Plan

Done: every component that has behaviour of its own, with its abstract promise
and the refinement checked; the proofs of section 4. Left, in this order:

1. Arrays as identities, so that what a caller does with a slice from `Buffer.Next`
   or `Buffer.Value` can be followed through a reallocation.
2. Construction of the `gbufio` types, over readers and writers that already are
   one.
