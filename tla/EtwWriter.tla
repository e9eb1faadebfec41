------------------------------ MODULE EtwWriter ------------------------------
(***************************************************************************)
(* The runtime around the worker: EtwWriter (WinPixEventRuntime.cpp), the   *)
(* list of threads (Threads.cpp), each thread's ThreadData, and the blocks  *)
(* of BlockAllocator as they move between them.                             *)
(*                                                                          *)
(* Application threads emit events into a block of their own and replace it *)
(* when it is full; one thread of ETW delivers the commands to the runtime. *)
(* The worker is the detailed ThreadedWorker, whose variables are part of   *)
(* this state.  EtwWriter::m_srwlock is held over several steps by a        *)
(* command and by a thread that registers.  ThreadData::Flush, which takes  *)
(* no lock, is a step for each access: the thread itself runs it when it    *)
(* replaces its block and when it ends, a command for every thread.         *)
(***************************************************************************)
EXTENDS Naturals, Sequences, Functions, FiniteSets

CONSTANTS
    AppThreads,      \* threads that emit events
    Workers,         \* identities of the worker's std::threads
    NoWorker,
    NoThread,
    MaxBlocks,       \* allocations the heap satisfies before it fails
    BlockEvents,     \* events that fit into a block
    Commands         \* the commands ETW sends: "enable", "disable", "flush"

ASSUME EtwAssumption ==
    /\ NoWorker \notin Workers
    /\ NoThread \notin AppThreads
    /\ {"command", "worker"} \cap AppThreads = {}
    /\ MaxBlocks \in Nat
    /\ BlockEvents \in Nat \ {0}
    /\ Commands \subseteq {"enable", "disable", "flush"}

\* Blocks are numbered in the order of their allocation; 0 is nullptr.
Blocks == 1 .. MaxBlocks
NoBlock == 0

VARIABLES
    \* ThreadedWorker
    srwlock, worker, requestStop, pending, back, pc, control, terminated,
    added, written,
    \* EtwWriter and Threads
    isEnabled,       \* m_isEnabled
    registered,      \* m_threads
    etwPc,           \* the command that is executing and how far it is
    todo,            \* Threads::Flush(): the threads it has not come to
    taking,          \* Threads::Flush(): the thread whose Flush() it runs
    flushed,         \* Threads::Flush(): the block to be written next
    \* ThreadData, one per application thread
    enabled,         \* m_isEnabled
    info,            \* m_pixEventsThreadInfo
    current,         \* m_currentBlock
    appPc,           \* where the thread is in the emission of an event
    local,           \* the block the thread's local variables point to
    ending,          \* the threads in ~ThreadData
    \* blocks
    filler,          \* cpuHeader.threadId, NoThread before the allocation
    count,           \* the number of events in the block
    late,            \* blocks with a time later than the one Flush() took
    \* histories
    log,             \* the blocks in the order ETW received them
    dropped          \* the blocks freed without being written

workerVars == <<srwlock, worker, requestStop, pending, back, pc, control,
                terminated, added, written>>
commandVars == <<isEnabled, registered, etwPc, todo, taking, flushed>>
threadVars == <<enabled, info, current, appPc, local, ending>>
blockVars == <<filler, count, late>>
historyVars == <<log, dropped>>
vars == <<workerVars, commandVars, threadVars, blockVars, historyVars>>

TW == INSTANCE ThreadedWorker WITH Threads <- Workers, NoThread <- NoWorker

(* PIXEventsThreadInfo: the limit is null, the ~0 that forces an allocation *)
(* or that of the block, where the destination is the fill level count.     *)
NoInfo == [block |-> NoBlock, limit |-> "null"]

used == {b \in Blocks : filler[b] # NoThread}

Init ==
    /\ TW!Init
    /\ isEnabled = FALSE /\ registered = {}
    /\ etwPc = "idle" /\ todo = {} /\ taking = NoThread /\ flushed = NoBlock
    /\ enabled = [t \in AppThreads |-> FALSE]
    /\ info = [t \in AppThreads |-> NoInfo]
    /\ current = [t \in AppThreads |-> NoBlock]
    /\ appPc = [t \in AppThreads |-> "absent"]
    /\ local = [t \in AppThreads |-> NoBlock]
    /\ ending = {}
    /\ filler = [b \in Blocks |-> NoThread]
    /\ count = [b \in Blocks |-> 0]
    /\ late = {}
    /\ log = <<>> /\ dropped = {}

\* The command is in Threads::Flush, or anywhere in EtwWriter::Flush.
Collecting ==
    etwPc \in {"flushThreads", "flushEndTime", "flushClear", "flushMove", "flushMoved"}
Flushing == etwPc \in {"flushStop", "flushStopping"} \/ Collecting

\* ETW receives what the worker writes.
LogWritten ==
    log' = IF written' = written THEN log ELSE Append(log, written'[Len(written')])
-----------------------------------------------------------------------------
(* Tests and values of the code, each after a faulty form of it that the    *)
(* mutation runs put in its place.                                          *)

NoLock == TRUE
\* m_srwlock can be taken: no command is executing and no thread registers.
LockFree == etwPc = "idle" /\ \A t \in AppThreads : appPc[t] # "registering"

OffAtFirst == FALSE
\* Threads::Add tells a new thread whether capture is on.
NewThreadFlag == isEnabled

NotRemoved(t) == registered
\* Threads::Remove
Remove(t) == registered \ {t}

NotMoved(t) == current[t]
\* What the move out of m_currentBlock leaves in it.
AfterMove(t) == NoBlock

KeepInfo(t) == info[t]
\* The PIXEventsThreadInfo when the thread finds its capture off.
InfoWhenOff(t) == NoInfo

\* What ThreadData::Flush() leaves in the PIXEventsThreadInfo.
InfoAfterFlush(t) == NoInfo

FlushNobody == {}
\* The threads Threads::Flush goes through.
FlushList == registered
-----------------------------------------------------------------------------
(* Application threads.                                                     *)

Go(t, where) == appPc' = [appPc EXCEPT ![t] = where]

(* PIXGetThreadInfo() on a new thread: ThreadData is constructed.  With the *)
(* lock held m_isEnabled is read and handed to Threads::Add,                *)
Register(t) ==
    /\ appPc[t] = "absent" /\ LockFree
    /\ enabled' = [enabled EXCEPT ![t] = NewThreadFlag]
    /\ Go(t, "registering")
    /\ UNCHANGED <<workerVars, commandVars, info, current, local, ending, blockVars,
                   historyVars>>

\* which puts the thread on the list.
AddThread(t) ==
    /\ appPc[t] = "registering"
    /\ registered' = registered \cup {t}
    /\ Go(t, "ready")
    /\ UNCHANGED <<workerVars, isEnabled, etwPc, todo, taking, flushed, enabled, info,
                   current, local, ending, blockVars, historyVars>>

\* An event begins, and m_isEnabled says that the thread's capture is off:
SkipEvent(t) ==
    /\ appPc[t] = "ready" /\ ~enabled[t]
    /\ Go(t, "skip")
    /\ UNCHANGED <<workerVars, commandVars, enabled, info, current, local, ending,
                   blockVars, historyVars>>

\* what block there is is freed,
SkipReset(t) ==
    /\ appPc[t] = "skip"
    /\ current' = [current EXCEPT ![t] = NoBlock]
    /\ dropped' = dropped \cup ({current[t]} \ {NoBlock})
    /\ Go(t, "skipInfo")
    /\ UNCHANGED <<workerVars, commandVars, enabled, info, local, ending, blockVars,
                   log>>

\* the thread info is reset, and the event is skipped.
SkipInfo(t) ==
    /\ appPc[t] = "skipInfo"
    /\ info' = [info EXCEPT ![t] = InfoWhenOff(t)]
    /\ Go(t, "ready")
    /\ UNCHANGED <<workerVars, commandVars, enabled, current, local, ending, blockVars,
                   historyVars>>

HasRoom(t) == info[t].limit = "block" /\ count[info[t].block] < BlockEvents

(* An event begins.  GetPixEventsThreadInfo() makes sure the limit is not   *)
(* null, and the limit is read.                                             *)
BeginEvent(t) ==
    /\ appPc[t] = "ready" /\ enabled[t]
    /\ info' = [info EXCEPT ![t].limit = IF @ = "null" THEN "ones" ELSE @]
    /\ Go(t, "limit")
    /\ UNCHANGED <<workerVars, commandVars, enabled, current, local, ending,
                   blockVars, historyVars>>

(* The destination is read and is below the limit.  A destination that was  *)
(* reset in between is null, and below any limit.                           *)
FoundRoom(t) ==
    /\ appPc[t] = "limit"
    /\ HasRoom(t) \/ info[t].limit = "null"
    /\ local' = [local EXCEPT ![t] = info[t].block]
    /\ Go(t, "emit")
    /\ UNCHANGED <<workerVars, commandVars, enabled, info, current, ending,
                   blockVars, historyVars>>

\* The block is full, or there is none yet.
FoundNoRoom(t) ==
    /\ appPc[t] = "limit"
    /\ ~HasRoom(t) /\ info[t].limit # "null"
    /\ Go(t, "flush")
    /\ UNCHANGED <<workerVars, commandVars, enabled, info, current, local, ending,
                   blockVars, historyVars>>

(* ThreadData::Flush() by the thread itself, in ReplaceBlock() or in        *)
(* ~ThreadData().  It tests whether the thread info has a block;            *)
FlushTest(t) ==
    /\ appPc[t] = "flush"
    /\ Go(t, IF info[t].block # NoBlock THEN "endTime" ELSE "move")
    /\ UNCHANGED <<workerVars, commandVars, enabled, info, current, local, ending,
                   blockVars, historyVars>>

(* if so it stores the end time in the block's header, through              *)
(* m_currentBlock: were that null, the thread would fault here.  The time   *)
(* is taken after the last event, so it covers every event in the block;    *)
FlushEndTime(t) ==
    /\ appPc[t] = "endTime" /\ current[t] # NoBlock
    /\ late' = late \ {current[t]}
    /\ Go(t, "clear")
    /\ UNCHANGED <<workerVars, commandVars, enabled, info, current, local, ending,
                   filler, count, historyVars>>

\* and it clears the thread info.
FlushClear(t) ==
    /\ appPc[t] = "clear"
    /\ info' = [info EXCEPT ![t] = InfoAfterFlush(t)]
    /\ Go(t, "move")
    /\ UNCHANGED <<workerVars, commandVars, enabled, current, local, ending, blockVars,
                   historyVars>>

\* It moves the block to the caller, which reads m_currentBlock
FlushMove(t) ==
    /\ appPc[t] = "move"
    /\ local' = [local EXCEPT ![t] = current[t]]
    /\ Go(t, "moved")
    /\ UNCHANGED <<workerVars, commandVars, enabled, info, current, ending, blockVars,
                   historyVars>>

Resume(t) == IF t \in ending THEN "unregister" ELSE "allocate"

\* and then resets it.  The caller hands over what it has got.
FlushMoved(t) ==
    /\ appPc[t] = "moved"
    /\ current' = [current EXCEPT ![t] = AfterMove(t)]
    /\ Go(t, IF local[t] # NoBlock THEN "take" ELSE Resume(t))
    /\ UNCHANGED <<workerVars, commandVars, enabled, info, local, ending, blockVars,
                   historyVars>>

\* EtwWriter::TakeBlock() of the block in hand.
TakeBlock(t) ==
    /\ appPc[t] = "take" /\ LockFree
    /\ TW!Add(local[t])
    /\ local' = [local EXCEPT ![t] = NoBlock]
    /\ Go(t, Resume(t))
    /\ UNCHANGED <<commandVars, enabled, info, current, ending, blockVars, historyVars>>

(* m_currentBlock = BlockAllocator::Allocate(eventTime).  The time in the   *)
(* block's header, which is that of its first event, is taken here or, for  *)
(* an end event, before the replacement.                                    *)
ReplaceAllocate(t) ==
    /\ appPc[t] = "allocate"
    /\ LET b == Cardinality(used) + 1
       IN  /\ b \in Blocks
           /\ filler' = [filler EXCEPT ![b] = t]
           /\ current' = [current EXCEPT ![t] = b]
           /\ late' \in {late} \cup (IF Flushing THEN {late \cup {b}} ELSE {})
    /\ Go(t, "setInfo")
    /\ UNCHANGED <<workerVars, commandVars, enabled, info, local, ending, count,
                   historyVars>>

\* The heap is exhausted: ReplaceBlock() returns 0 and the event is dropped.
ReplaceFails(t) ==
    /\ appPc[t] = "allocate" /\ used = Blocks
    /\ Go(t, "ready")
    /\ UNCHANGED <<workerVars, commandVars, enabled, info, current, local,
                   ending, blockVars, historyVars>>

(* ReplaceBlock() publishes the new block in the PIXEventsThreadInfo.  It   *)
(* dereferences m_currentBlock: were that null, the thread would fault here. *)
ReplaceSetInfo(t) ==
    /\ appPc[t] = "setInfo" /\ current[t] # NoBlock
    /\ info' = [info EXCEPT ![t] = [block |-> current[t], limit |-> "block"]]
    /\ Go(t, "reread")
    /\ UNCHANGED <<workerVars, commandVars, enabled, current, local, ending,
                   blockVars, historyVars>>

(* PIXBeginEventAllocate() reads the destination and the limit again, and   *)
(* drops the event if the one is not below the other.                       *)
Reread(t) ==
    /\ appPc[t] = "reread"
    /\ local' = [local EXCEPT ![t] = info[t].block]
    /\ Go(t, IF info[t].block = NoBlock THEN "ready" ELSE "emit")
    /\ UNCHANGED <<workerVars, commandVars, enabled, info, current, ending,
                   blockVars, historyVars>>

(* The record is written at the destination, with the time it is written;   *)
(* only the first event of a block has the time in the block's header.  A   *)
(* write through a null destination does not come back.                     *)
Emit(t) ==
    /\ appPc[t] = "emit" /\ local[t] # NoBlock
    /\ count' = [count EXCEPT ![local[t]] = @ + 1]
    /\ late' = IF Flushing /\ count[local[t]] > 0 THEN late \cup {local[t]} ELSE late
    /\ local' = [local EXCEPT ![t] = NoBlock]
    /\ Go(t, "ready")
    /\ UNCHANGED <<workerVars, commandVars, enabled, info, current, ending, filler,
                   historyVars>>

(* ~ThreadData() when the thread ends: flush, TakeBlock, UnregisterThread.  *)
(* Until the last of them commands still find the thread on the list.       *)
Exit(t) ==
    /\ appPc[t] = "ready"
    /\ ending' = ending \cup {t}
    /\ Go(t, "flush")
    /\ UNCHANGED <<workerVars, commandVars, enabled, info, current, local, blockVars,
                   historyVars>>

Unregister(t) ==
    /\ appPc[t] = "unregister" /\ LockFree
    /\ registered' = Remove(t)
    /\ enabled' = [enabled EXCEPT ![t] = FALSE]
    /\ info' = [info EXCEPT ![t] = NoInfo]
    /\ ending' = ending \ {t}
    /\ Go(t, "absent")
    /\ UNCHANGED <<workerVars, isEnabled, etwPc, todo, taking, flushed, current, local,
                   blockVars, historyVars>>
-----------------------------------------------------------------------------
(* ETW commands.  They execute one after the other, each under the lock.    *)

GoEtw(from, to) == etwPc = from /\ etwPc' = to

\* Threads::UpdateThreads
UpdateThreads(on) ==
    enabled' = [t \in AppThreads |-> IF t \in registered THEN on ELSE enabled[t]]

Switch(on, next) ==
    /\ isEnabled = ~on /\ LockFree
    /\ GoEtw("idle", next)
    /\ isEnabled' = on
    /\ UpdateThreads(on)
    /\ UNCHANGED <<workerVars, registered, todo, taking, flushed, info, current, appPc,
                   local, ending, blockVars, historyVars>>

Enable == "enable" \in Commands /\ Switch(TRUE, "start")
Disable == "disable" \in Commands /\ Switch(FALSE, "stop")

\* Flush() takes the time it will put into the blocks of the threads.
Flush ==
    /\ "flush" \in Commands /\ isEnabled /\ LockFree
    /\ GoEtw("idle", "flushStop")
    /\ late' = late \cap Range(log)
    /\ UNCHANGED <<workerVars, isEnabled, registered, todo, taking, flushed, threadVars,
                   filler, count, historyVars>>

\* m_worker->Start()
CallStart ==
    /\ GoEtw("start", "starting")
    /\ TW!Start
    /\ UNCHANGED <<isEnabled, registered, todo, taking, flushed, threadVars,
                   blockVars, historyVars>>

\* m_worker->Stop(), which does nothing if no worker is joinable.
CallStop ==
    /\ GoEtw("stop", "stopping") \/ GoEtw("flushStop", "flushStopping")
    /\ TW!Stop \/ (worker = NoWorker /\ UNCHANGED workerVars)
    /\ UNCHANGED <<isEnabled, registered, todo, taking, flushed, threadVars,
                   blockVars, historyVars>>

\* The command goes on inside Start() or Stop().
InCall ==
    /\ TW!ControlStep
    /\ LogWritten
    /\ UNCHANGED <<commandVars, threadVars, blockVars, dropped>>

\* Start() or Stop() has returned, and with it Enable or Disable.
Return ==
    /\ control = "idle"
    /\ GoEtw("starting", "idle") \/ GoEtw("stopping", "idle")
    /\ UNCHANGED <<workerVars, isEnabled, registered, todo, taking, flushed, threadVars,
                   blockVars, historyVars>>

\* Flush(): the worker is stopped, on to Threads::Flush().
FlushThreads ==
    /\ control = "idle"
    /\ GoEtw("flushStopping", "flushThreads")
    /\ todo' = FlushList
    /\ UNCHANGED <<workerVars, isEnabled, registered, taking, flushed, threadVars,
                   blockVars, historyVars>>

(* thread->Flush(eventTime), run by the thread of the command: the test,    *)
FlushThread(t) ==
    /\ t \in todo /\ flushed = NoBlock
    /\ GoEtw("flushThreads",
             IF info[t].block # NoBlock THEN "flushEndTime" ELSE "flushMove")
    /\ todo' = todo \ {t} /\ taking' = t
    /\ UNCHANGED <<workerVars, isEnabled, registered, flushed, threadVars, blockVars,
                   historyVars>>

(* the end time, which is the one taken when the command began, so that     *)
(* late stays as it is,                                                     *)
CollectEndTime ==
    /\ GoEtw("flushEndTime", "flushClear")
    /\ current[taking] # NoBlock
    /\ UNCHANGED <<workerVars, isEnabled, registered, todo, taking, flushed, threadVars,
                   blockVars, historyVars>>

\* the thread info,
CollectClear ==
    /\ GoEtw("flushClear", "flushMove")
    /\ info' = [info EXCEPT ![taking] = InfoAfterFlush(taking)]
    /\ UNCHANGED <<workerVars, isEnabled, registered, todo, taking, flushed, enabled,
                   current, appPc, local, ending, blockVars, historyVars>>

\* and the move of the block, which reads m_currentBlock and then resets it.
CollectMove ==
    /\ GoEtw("flushMove", "flushMoved")
    /\ flushed' = current[taking]
    /\ UNCHANGED <<workerVars, isEnabled, registered, todo, taking, threadVars,
                   blockVars, historyVars>>

CollectMoved ==
    /\ GoEtw("flushMoved", "flushThreads")
    /\ current' = [current EXCEPT ![taking] = AfterMove(taking)]
    /\ taking' = NoThread
    /\ UNCHANGED <<workerVars, isEnabled, registered, todo, flushed, enabled, info,
                   appPc, local, ending, blockVars, historyVars>>

\* WriteBlock() of what the thread had.
FlushWrite ==
    /\ etwPc = "flushThreads" /\ flushed # NoBlock
    /\ log' = Append(log, flushed)
    /\ flushed' = NoBlock
    /\ UNCHANGED <<workerVars, isEnabled, registered, etwPc, todo, taking, threadVars,
                   blockVars, dropped>>

FlushDone ==
    /\ todo = {} /\ flushed = NoBlock
    /\ GoEtw("flushThreads", "idle")
    /\ UNCHANGED <<workerVars, isEnabled, registered, todo, taking, flushed, threadVars,
                   blockVars, historyVars>>

\* The worker's threads run by themselves.
WorkerRuns ==
    /\ \E w \in Workers : TW!WorkerStep(w) \/ TW!SpuriousWake(w)
    /\ LogWritten
    /\ UNCHANGED <<commandVars, threadVars, blockVars, dropped>>
-----------------------------------------------------------------------------
AppStep(t) ==
    \/ Register(t) \/ AddThread(t) \/ Exit(t) \/ Unregister(t)
    \/ SkipEvent(t) \/ SkipReset(t) \/ SkipInfo(t)
    \/ BeginEvent(t) \/ FoundRoom(t) \/ FoundNoRoom(t) \/ Reread(t) \/ Emit(t)
    \/ FlushTest(t) \/ FlushEndTime(t) \/ FlushClear(t) \/ FlushMove(t) \/ FlushMoved(t)
    \/ TakeBlock(t) \/ ReplaceAllocate(t) \/ ReplaceFails(t) \/ ReplaceSetInfo(t)

\* A command goes on once it has begun.
CommandStep ==
    \/ CallStart \/ CallStop \/ InCall \/ Return
    \/ FlushThreads \/ (\E t \in AppThreads : FlushThread(t)) \/ FlushWrite \/ FlushDone
    \/ CollectEndTime \/ CollectClear \/ CollectMove \/ CollectMoved

Next ==
    /\ ~terminated
    /\ \/ \E t \in AppThreads : AppStep(t)
       \/ Enable \/ Disable \/ Flush
       \/ CommandStep
       \/ WorkerRuns

(* Threads::Flush takes the blocks of other threads with no protection, so  *)
(* it needs threads that are at rest: outside an event and outside a Flush  *)
(* of their own, or waiting for the lock with no block in their ThreadData. *)
Rests(t) == appPc[t] \in {"absent", "ready", "take", "unregister"}
AtRest == \A t \in AppThreads : Rests(t)

\* The threads are at rest while their blocks are collected.
RestNext == Next /\ (Collecting' => AtRest')

(* Fairness: the ETW thread finishes the command it has begun, and the      *)
(* worker's threads are scheduled.  Applications may stop at any point and  *)
(* ETW need not send any command.                                           *)
Fairness ==
    /\ WF_vars(~terminated /\ CommandStep)
    /\ \A w \in Workers : WF_vars(~terminated /\ TW!WorkerStep(w) /\ WorkerRuns)

Spec == Init /\ [][Next]_vars
FairSpec == Spec /\ Fairness
RestSpec == Init /\ [][RestNext]_vars
-----------------------------------------------------------------------------
AppPcs == {"absent", "registering", "ready", "skip", "skipInfo", "limit", "reread", "emit",
           "flush", "endTime", "clear", "move", "moved", "take", "allocate", "setInfo",
           "unregister"}
EtwPcs == {"idle", "start", "starting", "stop", "stopping", "flushStop", "flushStopping",
           "flushThreads", "flushEndTime", "flushClear", "flushMove", "flushMoved"}
Limits == {"null", "ones", "block"}

\* The types of the state.
TypeOK ==
    /\ TW!TypeOK
    /\ isEnabled \in BOOLEAN /\ registered \subseteq AppThreads
    /\ etwPc \in EtwPcs
    /\ todo \subseteq registered /\ flushed \in Blocks \cup {NoBlock}
    /\ taking \in registered \cup {NoThread}
    /\ taking # NoThread <=> Collecting /\ etwPc # "flushThreads"
    /\ enabled \in [AppThreads -> BOOLEAN]
    /\ info \in [AppThreads -> [block : Blocks \cup {NoBlock}, limit : Limits]]
    /\ current \in [AppThreads -> Blocks \cup {NoBlock}]
    /\ appPc \in [AppThreads -> AppPcs]
    /\ local \in [AppThreads -> Blocks \cup {NoBlock}]
    /\ ending \subseteq registered
    /\ filler \in [Blocks -> AppThreads \cup {NoThread}]
    /\ count \in [Blocks -> 0 .. BlockEvents]
    /\ late \subseteq Blocks
    /\ log \in Seq(Blocks) /\ dropped \subseteq Blocks

(* EtwWriter's lock serialises the worker: seen from ThreadedWorker, no     *)
(* block is added while a Start or Stop is executing, and each only once.   *)
SerialisesWorker == TW!Init /\ [][TW!SerialNext]_workerVars

(* A command calls Flush() of a ThreadData without looking whether the      *)
(* thread is still there: none that it has on its list, or is at work on,   *)
(* can have been destroyed since it read the list.                          *)
FlushMeetsTheLiving ==
    \A t \in todo \cup ({taking} \ {NoThread}) : appPc[t] # "absent"

(* While no command executes, every thread has been told whether capture is *)
(* on, whether it registered before or after the command.                   *)
ToldTheTruth == etwPc = "idle" => \A t \in registered : enabled[t] = isEnabled

(* A block that was allocated and neither written nor freed has one owner:  *)
(* a thread, the command that flushes, or the worker.  Nobody owns another. *)
(* A block that the command has read from a ThreadData is the command's.    *)
Holds(owner) ==
    CASE owner \in AppThreads ->
            (IF etwPc = "flushMoved" /\ owner = taking THEN {} ELSE {current[owner]})
            \cup (IF appPc[owner] \in {"moved", "take"} THEN {local[owner]} ELSE {})
      [] owner = "command" -> {flushed}
      [] owner = "worker"  -> Range(pending) \cup Range(back)
OneOwner ==
    \A b \in Blocks :
        Cardinality({o \in AppThreads \cup {"command", "worker"} : b \in Holds(o)})
            = IF b \in used \ (Range(log) \cup dropped) THEN 1 ELSE 0

(* PEvtBlk.h:29: a block is exclusively owned by a single user mode thread: *)
(* the block a thread is writing an event to is its own, nobody has taken,  *)
(* written or freed it.                                                     *)
WritesOwnBlock ==
    \A t \in AppThreads : appPc[t] = "emit" => local[t] # NoBlock /\ local[t] = current[t]

(* The assertions of ThreadData.cpp (lines 96, 126, 134) and its pointers   *)
(* (lines 109-113 and 128): whoever begins a Flush, the thread or a         *)
(* command, finds a block in m_currentBlock exactly if the thread info has  *)
(* one, and still has it to put the end time in; ReplaceBlock allocates     *)
(* only when there is no block and publishes one.                           *)
AssertionsHold ==
    /\ \A t \in AppThreads :
          \/ appPc[t] = "flush"
          \/ etwPc = "flushThreads" /\ t \in todo /\ flushed = NoBlock
          => (info[t].block # NoBlock <=> current[t] # NoBlock)
    /\ etwPc = "flushEndTime" => current[taking] # NoBlock
    /\ \A t \in AppThreads :
          /\ appPc[t] \in {"endTime", "setInfo"} => current[t] # NoBlock
          /\ appPc[t] = "allocate" => current[t] = NoBlock

(* PEvtBlk.h:25: no event in a block that is written is later than the end  *)
(* time in the block's header.                                              *)
TimesCover == late \cap Range(log) = {}

\* The blocks of one thread reach ETW in the order the thread filled them.
ThreadOrder ==
    \A i, j \in DOMAIN log :
        i < j /\ filler[log[i]] = filler[log[j]] => log[i] < log[j]

(* When Flush returns, every event emitted before has been written: no      *)
(* block is left with the worker or a thread, but for those that a thread   *)
(* is about to hand over and waits for the lock.                            *)
FlushDelivers ==
    [][etwPc = "flushThreads" /\ etwPc' = "idle"
         => used \subseteq Range(log) \cup dropped \cup Range(local)]_vars

(* ThreadData.cpp:61-62: "As the capture is disabled we want to ensure that *)
(* nothing gets written", once the command that disabled it has returned.   *)
QuietWhenDisabled == [][~isEnabled /\ etwPc = "idle" => log' = log]_vars
=============================================================================
