# A TLA+ model of the PIX event runtime

This directory specifies the CPU side of the PIX event runtime: how an
application's events are laid out in blocks and decoded again, how blocks travel
from the threads that fill them to ETW, what happens to them while a capture is
switched on, off and flushed and when the DLL goes down, and what D3D12 is given
of an event on a command list.  The modules are translated from the source under
`src/`; TLC checks them on small instances.  TLAPS proves, for any size of the
system, the results about the worker, about the ownership, order and delivery of
blocks up to the last ones at exit, that nothing is used after its destruction,
that no event leaves its block or buffer, that a block holds every event as it was
passed, that the decoder finds these events again, with their arguments, where
headers can say their sizes, and that what D3D12 is given of an event is that event.

## 1. Inventory

| Component | Source | State | Operations | Talks to |
|---|---|---|---|---|
| `ThreadedWorker` | `runtime/lib/ThreadedWorker.cpp` | lock, condition variable, `m_worker`, `m_requestStop`, pending and back buffer | `Start`, `Stop`, `Add`, `Worker` | `BlockAllocator::WriteBlock` |
| `EtwWriter` | `runtime/lib/WinPixEventRuntime.cpp` | lock, `m_isEnabled`, threads, worker | `Enable`, `Disable`, `Flush`, `TakeBlock`, `RegisterThread`, `UnregisterThread` | called by the ETW callback and by every `ThreadData`; calls worker and threads with its lock held |
| `Threads` | `runtime/lib/Threads.cpp` | list of `ThreadData*` | `Add`, `Remove`, `UpdateThreads`, `Flush` | reaches into the `ThreadData` of other threads |
| `ThreadData` | `runtime/lib/ThreadData.cpp` | `PIXEventsThreadInfo`, `m_currentBlock`, `m_isEnabled` | constructor, destructor, `GetPixEventsThreadInfo`, `ReplaceBlock`, `Flush`, `SetEnabled` | `TakeBlock`, `BlockAllocator` |
| `BlockAllocator` | `runtime/lib/BlockAllocator.cpp` | heap, status of its creation | `Allocate`, `Free`, `WriteBlock` | ETW |
| Emission | `include/PIXEvents.h` | local copies of destination and limit | `PIXBeginEvent`, `PIXSetMarker`, `PIXEndEvent` and their `Allocate` halves | `PIXGetThreadInfo`, `PIXEventsReplaceBlock` |
| Record format | `include/PIXEventsCommon.h` | none (a record in a block) | `PIXEncodeEventInfo`, `PIXCopy...` | read by the decoder |
| Decoder | `decoder/lib` | position, restored time | `BlockParser::ProcessEvents`, `Read...` | reads what emission wrote |
| DLL | `runtime/dll/shared`, `runtime/lib/WinPixEventRuntime.cpp` | `g_detaching`, `g_etwWriter` | `DllMain`, `EtwEnableCallback`, `Initialize`, `Shutdown` | creates and destroys the writer and the heap |
| Context events | `include/PIXEvents.h`, `PIXEventsLegacy.h`, `pix3_win.h` | a buffer on the stack | the same events with a command list or queue | the block of the thread, D3D12 |
| Decoded list | `decoder/lib/PixEventDecoder.cpp` | the list | `DecodeTimingBlock`, `TryDecodePIXBeginEventOrPIXSetMarkerBlob` | the decoder |

What is hard here:

* **Threads.**  Application threads emit without a lock; one thread delivers the
  commands of ETW; the worker runs in the background; `Start` and `Stop` release
  their lock to join it, and anything may happen in between.
* **Ownership.**  A block belongs to a thread, the worker or the command that
  flushes, and moves between them without a lock of its own.
* **Order and completeness.**  A capture must hold every event once, those of a
  thread in their order.
* **Switching.**  Threads notice that a capture was enabled or disabled only at
  their next event, and may end at any point.
* **The end.**  At exit the other threads have been terminated wherever they
  were; ETW may still call back while the DLL goes down.
* **Two formats.**  A block may hold records of code compiled with different
  headers, and the older ones do not say how long they are.
* **Boundaries.**  Space reserved for a record, size and time fields narrower
  than their values, a heap that may be exhausted.

What makes each component correct is listed with the properties below; every
hazard, with its line and the properties that watch it, is in `PROJECT.json`.

## 2. Plan

1. `ThreadedWorker` and what it promises (`BlockSink`, `BlockQueue`); done,
   proved in `ThreadedWorkerProofs`.
2. `EtwWriter`: commands, threads, `ThreadData` and blocks around that worker;
   done, its safety proved in `EtwWriterProofs`.
3. `EventFormat` and `EventBlock`: the layout of records, the space they are
   guaranteed, the marker that ends a block, the saturating size; done, the space
   and the marker proved in `EventBlockProofs`, the content of records in
   `RoundTripProofs`.
4. `BlockParser`: the decoder, the restoration of times and the search for the
   next event, composed with `EventBlock` as the round trip `RoundTrip`; done,
   with `LegacyFormat` for the records of version 1 and the list that
   `DecodeTimingBlock` makes.  How one event is read is `EventReading`, proved in
   `EventReadingProofs`; the decoding of records whose size is known, and their
   list, proved in `DecoderProofs`.
5. `DllLifecycle`: `DllMain`, `g_detaching`, `Shutdown` against commands, the
   worker and threads that end late, and the creation of `BlockAllocator`'s heap;
   done, its safety proved in `DllLifecycleProofs`.
6. `ContextEvents`: the GPU half of events on a context, in both formats, and
   `ContextBlobs`: what is decoded of it; done, all of it proved in
   `ContextEventsProofs`.

Left for later: proofs about the search for the next event behind a record whose
size is not known, which need a statement of what memory may hold there.

## 3. Modules

`BlockSink` and `BlockQueue` are the abstract specifications: a set of blocks
that wait and are written once each, and the same as a FIFO.

`ThreadedWorker` has one action per critical section of `m_srwlock`.  Inside a
critical section no other thread can observe or change the object, so one step
is exact; the lock is a variable only because `Stop` keeps it over several
writes.  `Start` and `Stop` are split at the join, where they release the lock.
`m_worker.join()` returns once the thread has and clears `m_worker`, without the
lock.  `m_cv.wait` is a state of the worker; a notification or a spurious wakeup
(`SpuriousWake`) sends it back for the lock.  Assigning to a joinable
`std::thread` sets `terminated`, after which nothing happens any more.

`EtwWriter` composes the worker (`TW`) with `EtwWriter`, `Threads`, one
`ThreadData` per application thread, and the blocks.  `EtwWriter::m_srwlock` is
held by a command for all its steps and by a thread that registers, from the
reading of the writer's `m_isEnabled` (`Register`) until it is on the list
(`AddThread`); `LockFree` says that it can be taken.  `TakeBlock` and `Unregister`
are one step each under that lock, and so is `Switch`, which sets `m_isEnabled` and
what the threads on the list have been told: nobody who respects the lock sees the
list in between, and that a registration does respect it is what `ToldTheTruth`
tests.  Emission is split at every access to state that `Flush`
touches from the other thread: the limit is read, then the destination, then
the record is written; after a replacement both are read again.  A thread whose
capture is off reads that (`SkipEvent`), frees its block (`SkipReset`) and resets its
thread info (`SkipInfo`), and a command may come between any two.

`ThreadData::Flush` takes no lock and has two callers, so it is five steps in each:
the test of the thread info, the store of the end time through `m_currentBlock`, the
clearing of the thread info, and the two halves of the move, which reads
`m_currentBlock` and then resets it.  The thread itself runs `FlushTest`,
`FlushEndTime`, `FlushClear`, `FlushMove` and `FlushMoved`, in `ReplaceBlock` or in its
destructor, whose threads are in `ending`; the command runs `FlushThread`,
`CollectEndTime`, `CollectClear`, `CollectMove` and `CollectMoved` on the thread in
`taking`, with what it has read in `flushed`.  `Next` lets the two run on one
`ThreadData` in any order, and then a block may be taken twice; `RestNext`, and in
`DllLifecycle` `LifeNext` and `QuietNext`, say which orders a run allows (section 4).
`HasRoom` counts events instead of bytes.  `PIXEventsThreadInfo` is a record of the block
and of its limit, which is null, the `~0` that forces an allocation, or the
block's.  Times are reduced to the one question asked of them, whether a block
holds one later than the time its `Flush` took (`late`).  Blocks are numbered in
the order they are allocated and never used again: `MaxBlocks` is both the bound
and the size of a heap that then fails, which is a case the code handles.
`MCEtwWriter` adds the symmetry of the application threads for runs that check
safety only.

`DllLifecycle` extends it with the process around it.  `Callback` is the test of
`g_detaching` and `Dispatch` the command behind it, as any time may pass between
them.  `Detach` is `DLL_PROCESS_DETACH`: at exit the threads are no longer there,
and the worker counts as returned wherever it was, since a terminated thread can
be joined; when the DLL is unloaded nobody is registered and no worker runs.
Then `Shutdown` runs alone, in the steps of `Order`, and reuses the actions of
the commands' thread.  The heap is created by the first allocation, or fails.

`EventFormat` names the qwords of a record, with the headers of both formats.  A qword is known by what it was
written for: which event, which part of it, and its place in that part.
So a property can say that a qword is the right one without any characters, and
two qwords are never equal by chance.  Fields
that are narrower than what goes into them keep their width: the size saturates
at `SizeMax`, the time is reduced modulo `TimeModulus`.

`EventBlock` is the emission of one thread into its block.  One step is one call
of the copying functions of `PIXEventsCommon.h`, because another thread may take
the block between any two; offsets stand for pointers.  A record begins anywhere
below `BiasedLimit`, what is copied into it is cut at `CopyLimit`, and the end
marker is written without a test.  `AllocateBlock` is `PIXEventsReplaceBlock`:
the new block keeps what the memory held before, as `BlockAllocator` does not
clear it.  The order of the last two stores is the code's: the end marker, then
the header over the previous end marker; only `PIXEndEvent` without a context has
them the other way round, which is why it has a step `MarkEnd` of its own.

`EventReading` is how one event is read (`EventReading.cpp`): its operators take
the qwords, the place of the event and the limit, and give what is found and how
much of it was used.  An argument is decoded to the qwords it is taken from, `<<>>`
where the code has 0 or an empty string.

`BlockParser` is the decoder: one step is one turn of the loop in
`BlockParser::ProcessEvents`, with the reading of the event, the restoration of
its time and the choice of the place where it goes on.  It reads what is in
memory and nothing else; it is instantiated by `RoundTrip` on the variables of
`EventBlock`.

`LegacyFormat` is how `PIXEventsLegacy.h` writes a record of version 1: a string
info in front of the name, strings in chunks of one qword or, where they are
aligned, of two, and no size in the header.  `EventLayout` is the reference for
both formats: what an event ought to look like when nothing is cut, and what a
reader should find in it, from the request alone.

`RoundTrip` composes them.  `OldEvent` is an event of code compiled with an
earlier `pix3.h` that shares the block.  It is one step: what a flush meets within
an event is already there with the events of `EventBlock`.  `FlushBlock` takes the block at any point, also
within an event; then the decoder runs.  `DecodeTimingBlock` is the list made of
what was decoded, in its modes.  `MCRoundTrip` names the events the runs let the
application emit.

`ContextEvents` is the GPU half.  It extends the writer of `EventBlock`, remembers
where the CPU half left the record, and hands D3D12 either that record or one
made in a buffer on the stack, cut at the buffer's limit; a build without
`PIX_USE_GPU_MARKERS_V2` always makes one of version 1.  Capture is switched
between the two halves as well.  `ContextBlobs` adds `TryDecode`, the operators of
`EventReading` applied to such a blob, and what it has to find.

The configurations of the other modules instantiate them directly.  Definitions
that precede a test or an assignment with a comment of its own (`NotifyNobody` before
`NotifyAll`, `NoLock` before `LockFree`, ...) are faulty forms; nothing uses them
but the mutation runs, which put them in the place of the right one to show that
the property would notice.

## 4. Runs

| Run | Question | Bounds | Result |
|---|---|---|---|
| `worker_concurrent` | Do `Start`, `Stop` and `Add` work with nothing to serialise them, the situation of `ThreadedWorkerRaceTest.cpp`? | 3 blocks, 2 threads | holds |
| `worker_serial` | Is the worker a FIFO for callers who serialise their calls? | 3 blocks, 2 threads | holds |
| `etw_capture` | Do blocks keep one owner, and does `Flush` deliver everything in order, while threads come and go and capture is switched? | 2 threads, 2 blocks of 2 events, all commands | holds |
| `dll` | Do commands return, and are blocks written, also once the DLL goes down? Does `Shutdown` deliver, in an order in which nothing is used after its end, and return? | 1 thread, 3 blocks of 1 event, all commands | holds |
| `flush_endtime` | Does the end time of a block cover its events? | 1 thread | violated |
| `write_after_disable` | Is nothing written after `Disable`? | 1 thread | violated |
| `block_layout` | Is what is decoded what was written, for events of every shape? | 2 blocks of 10 qwords, 5 reserved, times modulo 5 | holds |
| `block_guess` | Is the next event found after a record whose size is not known, saturated or of version 1? | 1 block of 13 qwords, 6 reserved, sizes up to 3 | holds |
| `context_events` | Is what D3D12 is given the event, in either format, captured or not? | 2 blocks of 16 qwords, 8 reserved, a buffer of 8, sizes up to 7, 4 events | holds |
| `null_argument` | Are the arguments behind a null string the right ones? | 1 block | violated |
| `saturated_format` | Is an event with arguments formatted? | 1 block, sizes up to 3 | violated |
| `cut_at_string_info` | Is what is decoded of the arguments of a cut record part of what was passed? | 1 block of 10 qwords | violated |

The bounds.  Two identities for the worker are enough to have one thread that
has returned and is not joined while another would be created; a third could
only be needed if two were alive, which `OneWorker` excludes.  Three blocks let
one be written, one be in the back buffer and one be pending.  In `EtwWriter`
the worker's calls are serialised, so a single identity is enough: a new thread
is only created when the old one is joined, and with two identities nothing else
would happen but a renaming.  Two application threads are needed for the
interference of a thread with a command about another, and for one that keeps the
lock from the other.  Two blocks of two events give a thread that fills a block,
hands it over and fills the next, a thread that has one while the other's is on
its way, and an allocation that fails.  With two threads a third block makes for
more states than a run can go through; `dll`, with one thread, has three.  One
thread is enough for the liveness properties of `dll`: commands wait for the worker
and for nobody else, and the worker's blocks are alike.

A block of 10 qwords with 5 reserved has five places where a record may begin,
so a block holds up to five events that end, or two longer ones, and each of the
shapes in `LayoutRequests` can stand at each place it can reach in the code:
first, behind another one, and at the last place below the limit, where the long
ones are cut within the format string, in front of an argument, behind a string
info or within a string.  One qword is reserved behind the copy limit,
the least for which the code is right; the code has two.  A second block is
enough for reused memory, because what is in a block when it is allocated is then
any mixture the first one can leave behind.  In `block_layout` three arguments are
decoded at most and in the other runs two (`PIX_MAX_ARGUMENTS` is 16), with events
that pass three and ask for three.  Three are needed for two strings of which the
first is cut behind its string info, with a value behind them.  In
`block_layout` the clock advances by two and headers keep it modulo 5, so it wraps
at any place in a block; in `block_guess` events may share a time.  With sizes up to
3 nearly every record of `block_guess` saturates, and 13 qwords leave room for a
record behind one whose arguments the format string does not ask for, where the
next event has to be searched.  Its two qwords behind the copy limit are what a
pair of qwords of version 1 needs, which may go one beyond the limit.

In `context_events` a record may be longer than the buffer and than the size field
can say; 16 qwords
with 8 reserved let a record begin at eight places.  Two blocks, so that a record
may be the first in a block that replaced another; four events, one that fills
the block, one at its limit, one in the next block and one after capture was
switched back on.  There is no liveness property of
the decoder: `InStep` says that each turn of the loop has decoded exactly the events
before its place, so it cannot turn on the spot.

What the runs assume.  `worker_concurrent` makes no assumption about callers.
It shows what remains true without serialisation: no crash, no second worker, no
lost wakeup and no lost or repeated block.  Two things do not remain, which is
why the other properties are stated for `SerialSpec`: an `Add` between the join
of a `Stop` and its lock restarts the worker, so blocks can overtake each other,
and that `Stop` returns with a worker running.  `SerialisesWorker` shows that
`EtwWriter` is a caller that serialises, as a refinement of `SerialNext` from
the composed system.

`Flush` takes blocks from other threads unprotected, and the code says so
(`ThreadData.cpp:119-121`).  `etw_capture` therefore uses `RestSpec`: while the
blocks are collected (`Collecting`, from the list of threads to the last block
written), threads are outside an event and outside a `Flush` of their own, or wait
for the lock with no block in their `ThreadData` (`Rests`).  That excludes three
things the code does not: a thread in an event or in `ReplaceBlock`, which the comment
names; a thread that is freeing the block of an earlier capture; and a thread in the
`Flush` of its destructor, which the comment does not name: there the two `Flush`es of
one `ThreadData` find each other half done, and the assertion at line 134 fails or both
take the block.  That is a hazard no run covers.  Without the assumption none of
`OneOwner`, `WritesOwnBlock`, `AssertionsHold` and `ThreadOrder` holds: a thread writes
into a block that was taken, or both take the same. `FlushMeetsTheLiving` and
`ToldTheTruth` do not need it, and are proved without.
`dll` uses `QuietNext`, the stronger assumption of the unit tests, that no event is in
progress during a `Flush` (`Flushing`), because with the weaker one a command could
wait for the assumption itself.  What is proved of `DllLifecycle` is proved of
`LifeSpec`, which has the weaker one.

`dll` assumes of the loader and of ETW what the code does not check: no callback
is executing when `DllMain` is told to detach, the DLL is unloaded only when no
thread is registered and no worker runs, and no thread was terminated within a
critical section.  At exit threads need not rest: nobody is in an event any more,
and what a terminated thread had finished is delivered even if it was in the
middle of the next event or of a `Flush` of its own.  One place is excluded
(`NobodyTorn`): a thread terminated between the two stores of a skip, which frees its
block first and resets the thread info second, after capture was switched on again.
The thread info then has a block and `m_currentBlock` is null, and `Flush` would follow
it (`ThreadData.cpp:128`); this is a hazard, too.

`context_events` assumes that the block is not flushed between the two halves of
an event: `Flush` on the thread of the commands could free the record that D3D12
reads, which is the same race of `ThreadData::Flush`.

The runs of `RoundTrip` that hold use `EndedSpec`: a block is not taken between
the two stores of `PIXEndEvent`.  `FlushBlock` does not take it before its first
event is complete either.  At both moments it has no end marker, and the decoder
would go on into what the memory held before.  At all others there is one in place
(`Ended`).  The runs further assume, as the code does:

* What is no header does not pass for one.  `IsValidEventInfo` looks at a type
  and a time (`BlockParser.cpp:288-293`); a payload or old memory that has both
  by chance would be taken for an event.  Headers of old events in a reused block
  are in `block_layout`; the end marker keeps the decoder off them.
* Between two known events less than 2^44 ticks pass.  The decoder does not look
  at the times of events it does not know.
* The end time of a block is not before its events, which `flush_endtime` shows
  to be an assumption.
* The specifiers of a format string can be read from its first qword, and the
  arguments are of the kinds they ask for (`SpecifiersFit`).
* An event whose size the decoder does not know, because it saturates or is of
  version 1, has as many arguments as its format string asks for.  With fewer the
  decoder reads on into the next event, which is listed as a hazard and left out
  of `block_guess`.
* In `block_guess` the time does not wrap within a block: the search rejects a
  header whose time has (`BlockParser.cpp:132`), which is listed as a hazard.
* A block that was taken is not written to any more (`WritesOwnBlock`).

The violation runs show what is left when an assumption is dropped or what a
comment of the code promises and does not keep; each is a finding:

* `flush_endtime` against `PEvtBlk.h:25`: the end time is that of the last event.
  It is violated even when threads are at rest while blocks are collected,
  because the time is read before the worker is joined.
* `write_after_disable` against `ThreadData.cpp:61-64`: nothing gets written once
  capture is disabled.
* `cut_at_string_info` against `EventReading.cpp:334-335` and
  `PixEventTests.cpp:519-520`: an argument there was no space for is zero, and what is
  cut shows no garbage.  A string cut right behind its string info uses nothing, and
  the number behind it is read from the string info.  `CutIsPrefix` is the same
  property for records that are cut anywhere else, and holds.
* `null_argument` against `EventReading.cpp:102`: the bytes used by a string
  include its string info.  Nothing is used by a null string, so the arguments
  behind it are read one place too early.
* `saturated_format` against `EventReading.cpp:537`: an event with more than a
  format string is formatted.

Fairness.  Each thread that can take a step is scheduled (weak fairness of
`ControlStep` and of `WorkerStep` of each thread; in `EtwWriter` also of the
steps of a command that has begun).  Weak fairness is enough for the lock, too:
in these models a lock is only ever held over several steps by `Stop` or by a
command, which never wait for anybody who starves: one control thread exists, and
the additions are finite.  Nobody has to call `Start`, `Stop` or `Add`, no
command has to arrive, an application may stop at any point, and no spurious
wakeup is owed.  `FairLifeSpec` asks it of the thread of the commands, which also
executes `Shutdown` once the DLL goes down, and of the worker as long as the process has
not terminated it: no other thread has to run for `Shutdown` to return.
`RoundTrip` and `ContextEvents` need none.  `CHECK_DEADLOCK FALSE` is set because an
application may stop, and because the runs end when their blocks are used up or a
block is decoded.

## 5. Proofs

`ThreadedWorkerProofs` proves, for any set of blocks and threads and any callers,
`TypeOK`, `NoTerminate`, `OneWorker`, `NoLostWakeup` and `NoOrphans`.  The only
assumption is `NoThreadAssumption`.  None of them is inductive.  The invariant
adds what the code relies on and never says:

* `OnlyWorker`: the only thread that exists is the one in `m_worker`, even after
  it has returned and until it is joined.  That is why a thread created when
  `m_worker` is not joinable is alone.
* `BackInUse`: the back buffer is empty unless that thread is writing, so a swap
  never mixes old blocks with new ones.
* a joinable worker and `m_requestStop` together mean that a `Start` or `Stop` is
  joining, and nobody but that call may clear `m_worker`.  That is why `Add` must
  test both before it restarts.

Its second part builds on that: `ExactlyOnce`, and that every step of the worker
is a step of `BlockSink` or changes nothing the sink sees.  For serialised calls
it proves `InOrder`, `StoppedIsDrained` and that every step is a step of
`BlockQueue`; the strengthening is that between the join and the end of a `Stop`
there is no worker and the back buffer is empty, so what `Stop` writes itself
comes after everything else.

`EventBlockProofs` proves for blocks of any size and any set of events, with
strings and argument lists of any length, `WriterTypeOK`, `InBounds` and `Ended`.
Its second half are lemmas on layouts and copying, and with them that the record
that is being written is its event so far (`Progress`); the other four modules about
events rest on them.
`BlockAssumption` is what it needs of the constants: a tail of at least one qword
and three more reserved (header, color, and a null format string, which is
written without a test).  The code has 2 and 64.  It also says of the events that
one that ends has no color and no arguments, as `PIXEndEvent` takes none.  `InBounds` is not inductive: a
copy that stays below the limit says nothing about the stores that are not
tested.  The strengthening `Positions` gives, for each place an event can be at,
where it may stand: not beyond the copy limit, and up to the format string not
beyond the few qwords behind the biased limit that are written without a test.
That the end marker is never overwritten before there is another behind it (`Ended`) then
follows because everything is written behind the published destination.

`EtwWriterProofs` proves for any number of threads, blocks and events per block
`FlushMeetsTheLiving` and `ToldTheTruth` of `Spec`, whatever the threads do while
blocks are collected, and `WritesOwnBlock` and `AssertionsHold` of `RestSpec`.  For the
first two the strengthening is `ListInv`: the list has the threads between `AddThread`
and `Unregister` (`Listed`), what a command has still to go through is on it
(`CommandInv`), and a thread knows at any time what the writer knows, not only while no
command executes (`Told`).  All three hold because of the lock, which a thread that
registers has until it is on the list.  For the other two it is `OwnerInv`, which
relates `m_pixEventsThreadInfo.block`, `m_currentBlock` and the local copies for each
place that a thread, and the command with its `ThreadData`, can be at (`BlockOf`): the
two blocks agree but within a `Flush` or a skip and between `Allocate` and the lines
that publish the block, and a thread that hands its block over has none.  A `Flush` of
a thread that does not rest breaks exactly this, so it is proved of `RestSpec`.  The
worker's steps change nothing these theorems
speak of and are never expanded.

The module goes on with the refinement `SerialisesWorker` and
`OneOwner` and `TypeOK`, all of `RestSpec`.  That the runtime serialises the worker
cannot be had without knowing where the blocks are: a block that is handed over
twice would be a second `Add` of it, which is what two `Flush`es of one
`ThreadData` come to.  The invariant `PlaceInv` therefore has both
and is proved in one induction:

* `Flow!SInv` and `Flow!ExactlyOnce` are the invariants of `ThreadedWorkerProofs`,
  instantiated with the worker of this state.  Since a step of the runtime is for
  the worker a serialised call, a step of its own or nothing (`SerialStep`), they
  are preserved by its lemmas, and its actions are not taken apart again.
* `CallInv` says which command is in which call of the worker; in particular there
  is no worker while `Flush` collects the blocks of the threads.
* `OnePlace` says that what each thread, the command and the worker have, and what
  is done, are disjoint and together all the blocks that were allocated.  It is
  about sets alone; three lemmas (`Given`, `Written`, `Allocated`) say how it
  follows a block that moves, and every action is one of these moves or none.
* `Numbered` says that blocks are numbered in the order of their allocation, and
  that a thread about to get a block has none.

`FillInv` adds how full blocks are: a thread that found room still has it when it
writes, because nobody else has its block.

All of this assumes only `EtwAssumption`: the values that stand for nobody are
nobody's names, a block holds at least one event, and the number of allocations
before the heap fails is finite.

Its last part builds on that: `ThreadOrder` and `FlushDelivers`, of `RestSpec`.  `OrderInv` puts what is logged, the back buffer, the pending blocks,
the block of the command and those of the threads in one line, in which the
blocks of each thread ascend.  A `Flush` may write past the worker because the
worker has none then, and a swap keeps the line because the back buffer is empty.
For `FlushDelivers` the strengthening is `Collected`: a thread `Flush` has been to
gets no block until `Flush` returns, which needs it to be at rest.

`DllLifecycleProofs` proves `UsesWhatExists` of `LifeSpec`.  Beside `ListInv`, which the
end of the process leaves alone, `HeapInv` says that
until the heap is created nobody has a block, and `StageInv` what each stage of
`Shutdown` has left behind: no callback that could execute a command, no `Flush` in
progress when the worker is stopped, and no `Stop` when the writer goes.  It does
not rest on where the blocks are, for a worker that the process terminated has
left its own wherever they were.

It also proves `ShutdownDelivers` of `LifeSpec`: after `Shutdown` every block that was
allocated is written or freed, but for one a terminated thread had in its hands and,
when capture is off, the blocks threads had not yet given up, even though terminated threads and a terminated
worker have left theirs where they were.  `EndInv` is in two parts.  Until the DLL
goes down it is `PlaceInv` of `EtwWriterProofs`.  `Detach` invalidates that, because a
terminated worker may have left its back buffer half written, or the buffers
swapped, and what remains is weaker and enough: `Kept`, each block that was
allocated is with a thread, the command, the worker or done; `TakenInv`, what `Flush`
still has to take from which thread; and `StopInv`, what `Stop` still has to
write.  From there on only the thread that executes `DllMain` takes steps, and
each stage of `Shutdown` leaves one kind of place empty.

`RoundTripProofs` proves `RecordsWhole` of `EndedSpec`, for events of both formats
and any number of them in a block.  `Progress` of `EventBlockProofs` says of the record that is being
written, at each place within an event, that it holds the layout of its event up
to `position`, and that it has either all the arguments up to `argument` or reached
the copy limit.  `History` says it of the records that are complete, with their
sizes and where they begin, that a record which does not hold all of its event
ends at the limit, or one qword behind it in chunks of two, and that the next
event begins at `destination`, where the last ended.  That a cut record is the
last follows from the numbers alone: behind it there is no room below the biased
limit.  Publishing an event turns `Progress` into one more line of `History`, and
for an event of version 1 both happen in one step.  What is copied is related to
the layout by the lemmas of `EventBlockProofs`: what `CopyArgument`, `CopyChunks`
and the fold of `LegacyArguments` leave in a record is what the flattened layout
has at that place, cut where the space ends (`CopiedString`, `CopiedArgument`,
`RecordGoesOn`, `LayoutPlaces`).

The layouts are folds, so these lemmas need induction.  The library's theorems for
it take an operator as a parameter, which the provers cannot instantiate;
`EventBlockProofs` has its own from `WFMin` of the well-founded order of the naturals,
stated for sets (`Induction`), and with it that functions can be defined by recursion
over an interval (`Recursion`) and that the fold of the community modules over a
sequence is such a function (`FoldExists`).

`EventReadingProofs` is about the reader alone: where qwords are those of an event's
layout, as far as there was space for them, `ReadEvent` finds its color, context,
name and arguments (`EventRead`), of both formats, for any number and length of
arguments, wherever the record is cut.  `PopulateFormatArguments` folds over the
specifiers; `Populating` turns the fold into a sequence of intermediate results, and
one specifier more takes the reader (`ArgumentsGoOn`) from one of three places to one
of them:

* `OnTrack`: all arguments so far were there, and the reader is where the next begins;
* `AllUsed`: an argument was cut, what there was of it was taken, and nothing is left;
* `AtInfo`: a string was cut right behind its string info.  The code then uses
  nothing, not even the string info, and the next specifier of a value takes it for one.

The last is why a cut argument is not simply a prefix of what was passed
(`cut_at_string_info`): any specifier of a value behind it finds the string info, with
however many strings in between.  `IsReadOf` says what is read in general, `IsPartOf` what
is read where a record does not end like this, and `block_layout` decodes three
arguments to have two strings in front of a value.  A null string uses nothing where its 0
is, and a specifier of another kind than its argument uses what is not its own, so
both are excluded (`HasNull`, `SpecifiersFit`); `null_argument` is the former.

`DecoderProofs` proves `InStep`, `DecodedAsWritten`, `ArgumentsAsPassed`, `CutIsPrefix`,
`TimelinesComplete` and `TypeOK` of `EndedSpec` for the decoder where it can rely on
sizes.  `SizesKnown` says so: no record saturates
the size field, and only those of `PIXEndEvent` are of version 1.  `InTime` says that
between known events, and before the first, less time passes than a header can
tell.  Both are conditions on what the application emits, not on what the decoder
does, and every state of `block_layout` meets them; times wrap there, cut records
are there and so is the memory of earlier blocks.  Without `InTime` the events are
still found, with their times wrong, which is why only `DecodedAsWritten` and
`TimelinesComplete` have it.  `CutIsPrefix` excludes records that end with a string
info (`EndsAtInfo`), for which `NothingElseIsRead` is violated.
The argument, from the records up:

* A complete record is readable: its header says its size, and color, context,
  and name are at the places the reader goes to, whether the record is whole or
  cut (`HeaderRead`, `ReadFields`, `NameRead`).  A name is read up to its
  terminator or an end marker.  No qword of a name before its last is either
  (`NamesAreText`), and where it was cut before its terminator nothing is left of
  the record and the end marker stands right there, so exactly what was written of
  the name is read (`TextRead`).
* One turn of the loop at such a record appends what it reads, or nothing for an
  event it does not know, and goes on where the record ends (`TurnOfTheLoop`).
* `TimesInv`: the times of the events of a block ascend, from the time the block
  begins to the clock.  With that, and with `InTime`, adding the carry when the lower
  part of a time is less than that of the event before restores it; this is the
  arithmetic of `TimeRestored`, for every modulus.
* `FlushedInv`: a block that was taken has an end marker at `destination`, which is
  where the loop ends.  It is the place of the assumption of `EndedSpec`.
* `ReaderInv`: the decoder is behind the k-th record for some k, and has found as
  many events as are known among the first k (`Reached`), each as it was written
  (`Found`).  `KnownTrace` and `Grows` relate the known events among the first k to
  those among all; `RecordsAscend` turns the number of a record into its place.
  `AllRight` adds, by `EventRead`, that so are the arguments, whatever the times.
* For `TimelinesComplete`: the list has no, one or two entries of each event,
  and which depends on the event alone (`EntriesAre`).  The entries on a timeline and
  the events that belong there are both taken one event at a time, and agree after
  each (`StampsGrow`, `TimelinesEqual`).

`RoundTripAssumption` is what is asked of the events of version 1: their chunks
are of one or two qwords and no larger than the tail (the code has 2), they have a
color unless they end, a name is never null, and an event that ends has no
arguments.  These are the overloads of `PIXEventsLegacy.h`.

`ContextEventsProofs` proves all that `context_events` checks.  First `BufferFits` of
`Spec`: the buffer that
`PIXBeginEvent` and `PIXSetMarker` have on their stack is never overrun.  The
buffer has no guard like that of the block, only the limit that each copy tests, so
the proof is about the functions: no copy leaves the set of records that end at
most one qword behind the limit.  In the present format that one is the zero of a
null name, which is written without a test when color and context have used up a
buffer of the least size, in that of version 1 the second half of the last pair
(`LocalRecordWithin`, `LegacyRecordWithin`).  The fold over the arguments has its
values in that set (`FoldExists`, `WritingWithin`), and the 0 comes behind.

`BlobIsTheEvent` needs to know what is in that record, and what is in the block when
the GPU half takes it from there.  `ContextInv` is inductive:

* `WriterIInv` and `Progress`, as the CPU half is the writer of `EventBlock`;
* `PendingInv`: an event that waits for its GPU half is complete where it was left,
  with the layout of the event up to its size, whatever has been switched since;
* `CallInv`: what was handed over is that event, all of it, or at least as much as the
  buffer has space for.  A record whose size saturates is longer than the buffer.

`BlobRead` then is `EventRead` for a block that ends with the blob.  A name of version 1
that is nullptr has no string info, so that neither it nor any argument is found
(`NamelessRecord`).

`CaptureLosesNothing` compares two readings of the same event, one cut at the buffer
and one further on or not at all.  `BlobIsTheEvent` does not give it, since parts of
the same argument need not begin alike, and it has to hold for null strings and for
specifiers that do not fit, of which `EventRead` says nothing.  So the two are read
alongside, specifier by specifier (`BothGoOn`): either both have used the same
and are somewhere within the same argument, where they find the same, and the
longer at least as much (`ReadTogether`); or the shorter has ended, and finds nothing
any more; or it stands at the string info at its end, which is the one place where
it can find what the longer does not.

`ContextAssumption` asks for a tail of two qwords, the size of a pair, and
that the buffer has space for a header, a color, a context and a null name, written
without a test; the code has 2 and 62.

Only model-checked: liveness (`CallsReturn`, `CommandsReturn`, `TakenIsWritten`,
`ShutdownReturns` and the fairness part of the two refinements), which is out of
the prover's reach; `InStep`, `DecodedAsWritten` and the place of the decoder in
`TypeOK` of `RoundTrip` where a size is not known, because there the decoder searches
memory for the next header and what it may meet is the assumption on payloads of
section 4, which no specification states.  The same goes for the arguments and the
list of such events.

## 6. Not modelled

* Of records: the layout for Xbox, `%*s` (which takes two arguments), the text of
  arguments and their formatting, alignment within a qword, and the terminator
  that `ReadString` puts into the buffer of a string that has none.  A property
  about them would be one about characters, which the unit tests cover.
* Events of version 1 with fewer arguments than specifiers, and events of version
  1 with an opcode nobody emits.
* Exceptions and undefined behaviour of the library: a `std::thread` that cannot
  be created, which ends the process at a `noexcept` function, and the data race
  on the `std::thread` object (`join()` clears it while `Add` reads `joinable()`).
* D3D12 reading a record in a block while `Flush` on another thread frees it.
* A `ThreadData` that outlives the writer, a DLL that is unloaded under a live
  worker, and a callback that has passed the test of `g_detaching` when `Shutdown`
  begins: nothing in the code prevents them, and nothing there says what should
  happen.
* The exported forwarding functions, the ETW provider generated from its manifest
  and the other functions of `pix3_win.h` call Win32 and keep no state.
