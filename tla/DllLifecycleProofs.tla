-------------------------- MODULE DllLifecycleProofs --------------------------
(***************************************************************************)
(* The writer and the heap are destroyed in an order that leaves nobody who *)
(* still uses them, for any number of threads and blocks, and whatever the  *)
(* threads were doing when the process terminated them.                     *)
(***************************************************************************)
EXTENDS DllLifecycle, EtwWriterProofs

\* No block was ever allocated, and nobody has one.
NoBlocks ==
    /\ filler = [b \in Blocks |-> NoThread]
    /\ pending = <<>> /\ back = <<>> /\ flushed = NoBlock
    /\ \A t \in AppThreads :
          /\ current[t] = NoBlock /\ local[t] = NoBlock /\ info[t].block = NoBlock
          /\ appPc[t] # "take"

(* There are blocks only once there is a heap, and it goes after the        *)
(* writer.                                                                  *)
HeapInv ==
    /\ heap \in {"none", "failed", "created", "destroyed"}
    /\ heap \in {"none", "failed"} => NoBlocks
    /\ heap = "destroyed" => dll \in {"detached", "unregistered"}

(* Only the exit of the process brings the DLL down while there are         *)
(* threads.  What the stages of Shutdown have left behind: no callback can  *)
(* execute a command, no Flush executes when the worker is stopped for the  *)
(* last time, and that Stop has returned when the writer is destroyed.      *)
StageInv ==
    /\ dll = "loaded" => ~exiting
    /\ dll # "loaded" => callback = NoCommand
    /\ dll \in {"writer", "heap", "detached", "unregistered"} => etwPc = "idle"
    /\ dll \in {"heap", "detached", "unregistered"} => control = "idle"

LifeInv == ListInv /\ HeapInv /\ StageInv
-----------------------------------------------------------------------------
\* Where each stage leads.
LEMMA Stages ==
    /\ Proceed("flush") => dll = "flush" /\ dll' = "reset"
    /\ Proceed("reset") => dll = "reset" /\ dll' = "worker"
    /\ Proceed("worker") => dll = "worker" /\ dll' = "writer"
    /\ Proceed("writer") => dll = "writer" /\ dll' = "heap"
    /\ Proceed("heap") => dll = "heap" /\ dll' = "detached"
    /\ Proceed("detached") => dll = "detached" /\ dll' = "unregistered"
BY DEF Proceed, Order

\* Without a heap a thread gets no block.
LEMMA ThreadsNeedHeap ==
    ASSUME ThreadTypes, NoBlocks, NEW t \in AppThreads, AppStep(t), filler' = filler
    PROVE  NoBlocks' /\ UNCHANGED <<log, dropped, count>>
<1> USE DEF NoBlocks, ThreadTypes, Go, workerVars, commandVars, blockVars, historyVars
<1>1. CASE Register(t)
  BY <1>1 DEF Register
<1>2. CASE AddThread(t)
  BY <1>2 DEF AddThread
<1>3. CASE Exit(t)
  BY <1>3 DEF Exit
<1>4. CASE Unregister(t)
  BY <1>4 DEF Unregister, NoInfo
<1>5. CASE SkipEvent(t)
  BY <1>5 DEF SkipEvent
<1>6. CASE SkipReset(t)
  BY <1>6 DEF SkipReset
<1>7. CASE SkipInfo(t)
  BY <1>7 DEF SkipInfo, InfoWhenOff, NoInfo
<1>8. CASE BeginEvent(t)
  <2>1. UNCHANGED <<pending, back, flushed, filler, current, local, log, dropped, count>>
        /\ appPc' = [appPc EXCEPT ![t] = "limit"]
    BY <1>8 DEF BeginEvent
  <2>2. \E limit : info' = [info EXCEPT ![t].limit = limit]
    BY <1>8 DEF BeginEvent
  <2>3. \A u \in AppThreads : info'[u].block = info[u].block
    BY <2>2
  <2> QED
    BY <2>1, <2>3
<1>9. CASE FoundRoom(t)
  BY <1>9 DEF FoundRoom
<1>10. CASE FoundNoRoom(t)
  BY <1>10 DEF FoundNoRoom
<1>11. CASE Reread(t)
  BY <1>11 DEF Reread
<1>12. CASE Emit(t)
  BY <1>12 DEF Emit
<1>13. CASE FlushTest(t)
  BY <1>13 DEF FlushTest
<1>14. CASE FlushEndTime(t)
  BY <1>14 DEF FlushEndTime
<1>15. CASE FlushClear(t)
  BY <1>15 DEF FlushClear, InfoAfterFlush, NoInfo
<1>16. CASE FlushMove(t)
  BY <1>16 DEF FlushMove
<1>17. CASE FlushMoved(t)
  BY <1>17 DEF FlushMoved, AfterMove, Resume
<1>18. CASE TakeBlock(t)
  BY <1>18 DEF TakeBlock, Resume
<1>19. CASE ReplaceAllocate(t)
  <2>1. PICK b \in Blocks : b = Cardinality(used) + 1 /\ filler' = [filler EXCEPT ![b] = t]
    BY <1>19 DEF ReplaceAllocate
  <2>2. filler'[b] = t /\ filler[b] = NoThread
    BY <2>1
  <2> QED
    BY <2>2, EtwAssumption
<1>20. CASE ReplaceFails(t)
  BY <1>20 DEF ReplaceFails
<1>21. CASE ReplaceSetInfo(t)
  BY <1>21 DEF ReplaceSetInfo
<1> QED
  BY <1>1, <1>2, <1>3, <1>4, <1>5, <1>6, <1>7, <1>8, <1>9, <1>10, <1>11,
     <1>12, <1>13, <1>14, <1>15, <1>16, <1>17, <1>18, <1>19, <1>20, <1>21 DEF
     AppStep

\* Neither the worker nor a command makes a block out of nothing.
LEMMA WorkerNeedsHeap ==
    ASSUME NoBlocks, WorkerRuns
    PROVE  NoBlocks' /\ UNCHANGED <<log, dropped, count, filler>>
<1>1. /\ LogWritten /\ UNCHANGED <<commandVars, threadVars, blockVars, dropped>>
      /\ \E w \in Workers : TW!WorkerStep(w) \/ TW!SpuriousWake(w)
  BY DEF WorkerRuns
<1>2. UNCHANGED <<flushed, current, local, info, appPc, filler, count, dropped>>
  BY <1>1 DEF commandVars, threadVars, blockVars
<1>3. pending' = <<>> /\ back' = <<>> /\ written' = written
  BY <1>1 DEF NoBlocks, TW!WorkerStep, TW!WorkerEntry, TW!WorkerWrite, TW!WorkerWritten,
     TW!WorkerCheck, TW!SpuriousWake, TW!SwapBuffers
<1> QED
  BY <1>1, <1>2, <1>3 DEF NoBlocks, LogWritten

LEMMA NoneTaken ==
    ASSUME ListInv, NoBlocks, CollectMove
    PROVE  current[taking] = NoBlock
<1>1. taking \in AppThreads
  BY DEF ListInv, ThreadTypes, CommandInv, CollectMove, GoEtw, Collecting
<1> QED
  BY <1>1 DEF NoBlocks

LEMMA CommandsNeedHeap ==
    ASSUME ListInv, NoBlocks, Enable \/ Disable \/ Flush \/ CommandStep
    PROVE  NoBlocks' /\ UNCHANGED <<log, dropped, count, filler>>
<1>0. ThreadTypes
  BY DEF ListInv
<1>1. CASE Enable \/ Disable \/ Flush \/ CallStart \/ CallStop \/ Return \/ FlushThreads
           \/ FlushWrite \/ FlushDone
  BY <1>1 DEF NoBlocks, Enable, Disable, Switch, Flush, CallStart, CallStop, Return,
     FlushThreads, FlushWrite, FlushDone, TW!Start, TW!Stop, workerVars, commandVars,
     threadVars, blockVars, historyVars
<1>2. CASE InCall
  <2>1. /\ LogWritten /\ UNCHANGED <<commandVars, threadVars, blockVars, dropped>>
        /\ TW!ControlStep
    BY <1>2 DEF InCall
  <2>2. UNCHANGED <<flushed, current, local, info, appPc, filler, count, dropped>>
    BY <2>1 DEF commandVars, threadVars, blockVars
  <2>3. pending' = <<>> /\ back' = <<>> /\ written' = written
    BY <2>1 DEF NoBlocks, TW!ControlStep, TW!Join, TW!StartRelock, TW!StopRelock, TW!StopWrite,
       TW!StopReturn
  <2> QED
    BY <2>1, <2>2, <2>3 DEF NoBlocks, LogWritten
<1>3. ASSUME NEW t \in AppThreads, FlushThread(t)
      PROVE  NoBlocks' /\ UNCHANGED <<log, dropped, count, filler>>
  BY <1>3 DEF NoBlocks, FlushThread, workerVars, threadVars, blockVars, historyVars
<1>4. CASE CollectEndTime
  BY <1>4 DEF NoBlocks, CollectEndTime, workerVars, threadVars, blockVars, historyVars
<1>5. CASE CollectClear
  BY <1>5 DEF NoBlocks, ThreadTypes, CollectClear, InfoAfterFlush, NoInfo, workerVars, blockVars,
     historyVars
<1>6. CASE CollectMove
  BY <1>6, NoneTaken DEF NoBlocks, CollectMove, workerVars, threadVars, blockVars, historyVars
<1>7. CASE CollectMoved
  BY <1>7 DEF NoBlocks, ThreadTypes, CollectMoved, AfterMove, workerVars, blockVars, historyVars
<1> QED
  BY <1>1, <1>2, <1>3, <1>4, <1>5, <1>6, <1>7 DEF CommandStep

(* With no command of ETW, only the Stop of the worker's destructor goes on. *)
LEMMA IdleCommands ==
    ASSUME etwPc = "idle", CommandStep
    PROVE  InCall /\ control # "idle" /\ etwPc' = "idle"
BY DEF CommandStep, CallStart, CallStop, InCall, Return, FlushThreads, FlushThread, FlushWrite,
   FlushDone, CollectEndTime, CollectClear, CollectMove, CollectMoved, GoEtw, commandVars,
   TW!ControlStep, TW!Join, TW!StartRelock, TW!StopRelock, TW!StopWrite, TW!StopReturn
-----------------------------------------------------------------------------
\* What UsesWhatExists says of a step.
Uses ==
    /\ <<isEnabled, registered, etwPc, pending, worker>>'
         # <<isEnabled, registered, etwPc, pending, worker>>
         => dll \notin {"heap", "detached", "unregistered"}
    /\ <<log, dropped, filler, count>>' # <<log, dropped, filler, count>>
         => heap' = "created"

\* The list of threads is a matter of what commands and threads have.
LEMMA SameList ==
    ASSUME ListInv, UNCHANGED <<commandVars, threadVars>>
    PROVE  ListInv'
BY DEF ListInv, ThreadTypes, Listed, Told, CommandInv, Collecting, commandVars, threadVars

LEMMA StepsKeepList ==
    ASSUME ListInv,
           \/ Enable \/ Disable \/ Flush \/ CommandStep \/ WorkerRuns
           \/ \E t \in AppThreads : AppStep(t)
    PROVE  ListInv'
BY CommandsKeepTypes, CommandsKeepList, ThreadsKeepTypes, ThreadsKeepList DEF ListInv

LEMMA LifeStep == LifeInv /\ [LifeNext]_allVars => LifeInv' /\ [Uses]_allVars
<1> SUFFICES ASSUME LifeInv, [LifeNext]_allVars PROVE LifeInv' /\ [Uses]_allVars
  OBVIOUS
<1> USE DEF LifeInv
<1>1. CASE UNCHANGED allVars
  <2>1. UNCHANGED <<vars, dll, exiting, callback, heap>>
    BY <1>1 DEF allVars, lifeVars
  <2>2. LifeInv'
    BY <2>1, SameList DEF HeapInv, StageInv, NoBlocks, vars, workerVars, commandVars,
                threadVars, blockVars
  <2> QED
    BY <1>1, <2>2
<1>2. CASE ThreadsRun
  <2>1. /\ dll = "loaded" /\ UNCHANGED <<dll, exiting, callback>>
        /\ IF filler' = filler THEN heap' = heap ELSE heap # "failed" /\ heap' = "created"
        /\ WorkerRuns \/ \E t \in AppThreads : AppStep(t)
    BY <1>2 DEF ThreadsRun
  <2>2. ListInv'
    BY <2>1, StepsKeepList
  <2>3. heap' # "created" => heap \in {"none", "failed"} /\ heap' = heap /\ filler' = filler
    BY <2>1 DEF HeapInv
  <2>4. heap' # "created" => NoBlocks' /\ UNCHANGED <<log, dropped, count, filler>>
    BY <2>1, <2>3, ThreadsNeedHeap, WorkerNeedsHeap DEF HeapInv, ListInv
  <2> QED
    BY <2>1, <2>2, <2>3, <2>4 DEF HeapInv, StageInv, Uses
<1>3. ASSUME NEW t \in AppThreads, NoHeap(t) PROVE LifeInv' /\ Uses
  <2>1. /\ dll = "loaded" /\ UNCHANGED <<dll, exiting, callback, log, dropped, filler, count>>
        /\ heap \in {"none", "failed"} /\ heap' = "failed"
        /\ appPc[t] = "allocate" /\ appPc' = [appPc EXCEPT ![t] = "ready"]
        /\ UNCHANGED <<commandVars, enabled, info, current, local, ending, pending, back>>
    BY <1>3 DEF NoHeap, Go, workerVars, blockVars, historyVars
  <2>2. ThreadTypes'
    BY <2>1 DEF ListInv, ThreadTypes, AppPcs, commandVars
  <2>3. Listed' /\ Told' /\ CommandInv'
    BY <2>1 DEF ListInv, ThreadTypes, Listed, Told, CommandInv, Collecting, commandVars
  <2>4. HeapInv'
    BY <2>1 DEF ListInv, ThreadTypes, HeapInv, NoBlocks, commandVars
  <2> QED
    BY <2>1, <2>2, <2>3, <2>4 DEF ListInv, StageInv, Uses
<1>4. ASSUME NEW command \in Commands, Callback(command) PROVE LifeInv' /\ Uses
  <2>1. dll = "loaded" /\ UNCHANGED <<vars, dll, exiting, heap>>
    BY <1>4 DEF Callback, MayProcess
  <2> QED
    BY <2>1, SameList DEF HeapInv, NoBlocks, StageInv, Uses, vars, workerVars, commandVars,
                threadVars, blockVars, historyVars
<1>5. CASE Dispatch
  <2>1. /\ dll = "loaded" /\ UNCHANGED <<dll, exiting, heap>>
        /\ Enable \/ Disable \/ Flush \/ UNCHANGED vars
    BY <1>5 DEF Dispatch, StageInv
  <2>2. CASE UNCHANGED vars
    BY <2>1, <2>2, SameList DEF HeapInv, NoBlocks, StageInv, Uses, vars, workerVars,
                      commandVars, threadVars, blockVars, historyVars
  <2>3. CASE Enable \/ Disable \/ Flush
    BY <2>1, <2>3, StepsKeepList, CommandsNeedHeap DEF HeapInv, StageInv, Uses
  <2> QED
    BY <2>1, <2>2, <2>3
<1>6. CASE CommandRuns
  <2>1. CommandStep /\ UNCHANGED <<dll, exiting, callback, heap>>
    BY <1>6 DEF CommandRuns, lifeVars
  <2>2. dll \notin {"heap", "detached", "unregistered"}
    BY <2>1, IdleCommands DEF StageInv
  <2>3. dll = "writer" => etwPc' = "idle"
    BY <2>1, IdleCommands DEF StageInv
  <2>4. heap # "created" => NoBlocks' /\ UNCHANGED <<log, dropped, count, filler>>
    BY <2>1, <2>2, CommandsNeedHeap DEF HeapInv
  <2> QED
    BY <2>1, <2>2, <2>3, <2>4, StepsKeepList DEF HeapInv, StageInv, Uses
<1>7. CASE Detach
  <2>1. /\ dll = "loaded" /\ dll' = "flush" /\ callback' = callback /\ callback = NoCommand
        /\ UNCHANGED <<pending, back, commandVars, threadVars, blockVars, historyVars, heap>>
    BY <1>7 DEF Detach
  <2> QED
    BY <2>1, SameList DEF HeapInv, NoBlocks, StageInv, Uses, commandVars, threadVars,
                blockVars, historyVars
<1>8. CASE ShutdownFlush
  <2>1. /\ dll \in {"flush", "reset"} /\ dll' \in {"reset", "worker"}
        /\ UNCHANGED <<callback, heap>>
        /\ Flush \/ UNCHANGED vars
    BY <1>8, Stages DEF ShutdownFlush
  <2>2. CASE UNCHANGED vars
    BY <2>1, <2>2, SameList DEF HeapInv, NoBlocks, StageInv, Uses, vars, workerVars,
                      commandVars, threadVars, blockVars, historyVars
  <2>3. CASE Flush
    BY <2>1, <2>3, StepsKeepList, CommandsNeedHeap DEF HeapInv, StageInv, Uses
  <2> QED
    BY <2>1, <2>2, <2>3
<1>9. CASE DestroyWorker
  <2>1. /\ dll = "worker" /\ dll' = "writer" /\ etwPc = "idle"
        /\ UNCHANGED <<callback, heap, pending, back, commandVars, threadVars, blockVars,
                       historyVars>>
    BY <1>9, Stages DEF DestroyWorker, TW!Stop, workerVars
  <2> QED
    BY <2>1, SameList DEF HeapInv, NoBlocks, StageInv, Uses, commandVars, threadVars,
                blockVars, historyVars
<1>10. CASE DestroyWriter
  <2>1. /\ dll = "writer" /\ dll' = "heap" /\ control = "idle" /\ control' = control
        /\ pending' = <<>> /\ back' = <<>>
        /\ dropped' = dropped \cup Range(pending) \cup Range(back)
        /\ UNCHANGED <<callback, heap, worker, commandVars, threadVars, blockVars, log>>
    BY <1>10, Stages DEF DestroyWriter
  <2>2. heap = "created" \/ dropped' = dropped
    BY <2>1 DEF HeapInv, NoBlocks, Range
  <2> QED
    BY <2>1, <2>2, SameList DEF HeapInv, NoBlocks, StageInv, Uses, commandVars, threadVars,
                      blockVars
<1>11. CASE DestroyHeap \/ EndRegistration
  <2>1. /\ dll \in {"heap", "detached"} /\ dll' \in {"detached", "unregistered"}
        /\ UNCHANGED <<vars, callback>>
        /\ heap' = heap \/ (heap = "created" /\ heap' = "destroyed")
    BY <1>11, Stages DEF DestroyHeap, EndRegistration
  <2> QED
    BY <2>1, SameList DEF HeapInv, NoBlocks, StageInv, Uses, vars, workerVars, commandVars,
                threadVars, blockVars, historyVars
<1> QED
  BY <1>1, <1>2, <1>3, <1>4, <1>5, <1>6, <1>7, <1>8, <1>9, <1>10, <1>11
     DEF LifeNext, ShutdownStep

LEMMA LifeInitially == LifeInit => LifeInv
<1> SUFFICES ASSUME LifeInit PROVE LifeInv
  OBVIOUS
<1>1. Init /\ dll = "loaded" /\ heap = "none" /\ ~exiting
  BY DEF LifeInit
<1>2. NoBlocks
  BY <1>1 DEF Init, TW!Init, NoBlocks, NoInfo
<1> QED
  BY <1>1, <1>2, ListInit DEF LifeInv, HeapInv, StageInv

(* While the DLL goes down nothing uses the writer after it, or a block     *)
(* after the heap, has been destroyed, and no block was ever had without a  *)
(* heap, also when its creation fails.                                      *)
THEOREM NothingIsUsedAfterItsEnd == LifeSpec => UsesWhatExists
<1>1. UsesWhatExists <=> [][Uses]_allVars
  BY DEF UsesWhatExists, Uses
<1>2. LifeInv /\ [WholeNext]_allVars => LifeInv' /\ [Uses]_allVars
  BY LifeStep DEF WholeNext
<1> QED
  BY <1>1, <1>2, LifeInitially, PTL DEF LifeSpec
-----------------------------------------------------------------------------
(* Where the blocks are while the DLL goes down.  That the worker has the   *)
(* back buffer to itself is lost when its thread is terminated, and nobody  *)
(* needs it any more: a block stays where it is until a Flush or the last   *)
(* Stop writes it, or the destructor frees it.                              *)

\* A block that was allocated is in somebody's hands, with the worker, or done.
Kept == \A b \in used : \/ \E t \in AppThreads : b \in InHand(t)
                        \/ b \in WithCommand \cup WithWorker \cup Done

\* What Stop has to do: with no worker and no Stop executing nothing is pending.
StopInv ==
    /\ worker \in Workers \cup {NoWorker}
    /\ pending \in Seq(Blocks) /\ back \in Seq(Blocks) /\ written \in Seq(Blocks)
    /\ control \in {"idle", "stopJoin", "stopRelock", "stopDrain"}
    /\ control \in {"stopRelock", "stopDrain"} => worker = NoWorker
    /\ control = "idle" /\ worker = NoWorker => pending = <<>>
    /\ dll = "writer" /\ control = "idle" => worker = NoWorker
    /\ dll \in {"heap", "detached", "unregistered"} => pending = <<>> /\ back = <<>>

(* What Flush has to do: in the end no thread has a block of its own, if     *)
(* capture is on.                                                           *)
TakenInv ==
    /\ etwPc \in {"idle", "flushStop", "flushStopping"} \/ Collecting
    /\ etwPc \notin {"flushThreads", "flushMoved"} => flushed = NoBlock
    /\ flushed \in Blocks \cup {NoBlock} /\ log \in Seq(Blocks)
    /\ \A t \in AppThreads \ registered : current[t] = NoBlock
    /\ Collecting => \A t \in AppThreads \ (todo \cup {taking}) : current[t] = NoBlock
    /\ dll \notin {"loaded", "flush"} /\ (dll = "reset" => etwPc = "idle") /\ isEnabled
          => \A t \in AppThreads : current[t] = NoBlock

DownInv == StopInv /\ TakenInv /\ Kept

EndInv ==
    /\ LifeInv
    /\ dll = "loaded" => PlaceInv
    /\ dll # "loaded" => DownInv
-----------------------------------------------------------------------------
\* A thread that gets no heap hands nothing over.
LEMMA NoHeapKeeps ==
    ASSUME PlaceInv, NEW t \in AppThreads, NoHeap(t), ListInv'
    PROVE  PlaceInv'
<1>0. ThreadTypes /\ CommandInv /\ (Collecting => AtRest) /\ \A u \in AppThreads : BlockOf(u)
  BY PlaceFacts
<1>1. /\ UNCHANGED <<workerVars, commandVars, enabled, info, current, local, blockVars,
                     historyVars>>
      /\ appPc[t] = "allocate" /\ appPc' = [appPc EXCEPT ![t] = "ready"]
  BY DEF NoHeap, Go
<1>2. OwnerInv'
  <2>1. ~Collecting /\ ~Collecting'
    BY <1>0, <1>1 DEF AtRest, Rests, Collecting, commandVars
  <2>2. \A u \in AppThreads : ~HalfTaken(u) /\ ~HalfTaken(u)'
    BY <2>1 DEF HalfTaken, Collecting
  <2>3. BlockOf(t)'
    <3>1. BlockOf(t) /\ ~HalfTaken(t) /\ ~HalfTaken(t)'
      BY <1>0, <2>2
    <3>2. appPc[t] = "allocate" /\ appPc'[t] = "ready"
      BY <1>0, <1>1 DEF ThreadTypes
    <3>3. ~Collecting' /\ UNCHANGED <<info, current, local, flushed, taking, etwPc>>
      BY <1>1, <2>1 DEF commandVars
    <3> QED
      BY <3>1, <3>2, <3>3 DEF BlockOf, Collecting
  <2>4. ASSUME NEW u \in AppThreads \ {t} PROVE BlockOf(u)'
    <3>1. BlockOf(u) /\ ~HalfTaken(u) /\ ~HalfTaken(u)' /\ appPc'[u] = appPc[u]
      BY <1>0, <1>1, <2>2 DEF ThreadTypes
    <3>2. UNCHANGED <<info, current, local, flushed, taking, etwPc>>
      BY <1>1 DEF commandVars
    <3> QED
      BY <3>1, <3>2 DEF BlockOf
  <2> QED
    BY <2>1, <2>3, <2>4 DEF OwnerInv
<1>3. Flow!SInv' /\ Flow!ExactlyOnce'
  BY <1>1, WorkerKeeps DEF PlaceInv
<1>4. CallInv' /\ Numbered'
  BY <1>0, <1>1 DEF PlaceInv, CallInv, Collecting, Numbered, ThreadTypes, AppPcs, used,
     workerVars, commandVars, blockVars, historyVars
<1>5. Hands' = Hands
  <2>1. \A u \in AppThreads : InHand(u)' = InHand(u)
    BY <1>0, <1>1 DEF InHand, ThreadTypes, commandVars
  <2> QED
    BY <2>1, Zenon DEF Hands
<1>6. used' = used /\ WithCommand' = WithCommand /\ WithWorker' = WithWorker /\ Done' = Done
  BY <1>1 DEF used, WithCommand, WithWorker, Done, workerVars, commandVars, blockVars,
     historyVars
<1> QED
  BY <1>2, <1>3, <1>4, <1>5, <1>6 DEF PlaceInv

\* While the DLL is loaded everything is a step of EtwWriter, but that one.
LEMMA LoadedKeeps ==
    ASSUME PlaceInv, ThreadsRun \/ Dispatch \/ CommandRuns, ~terminated,
           (Collecting => AtRest)'
    PROVE  PlaceInv'
<1>1. [Next]_vars
  BY DEF ThreadsRun, Dispatch, CommandRuns, Next
<1> QED
  BY <1>1, PlaceStep DEF RestNext

(* The process exits, or the DLL is unloaded, while no command executes:    *)
(* threads stop where they are.                                             *)
LEMMA DetachStops ==
    ASSUME PlaceInv, Detach
    PROVE  DownInv'
<1>1. /\ dll' = "flush" /\ etwPc = "idle"
      /\ UNCHANGED <<srwlock, worker, requestStop, pending, back, control, terminated, added,
                     written, commandVars, threadVars, blockVars, historyVars>>
  BY DEF Detach, LockFree
<1>2. /\ Flow!TypeOK /\ Flow!NoOrphans
      /\ CallInv /\ ThreadTypes /\ Numbered /\ Listed /\ \A t \in AppThreads : BlockOf(t)
      /\ OnePlace(Hands, WithCommand, WithWorker, Done, used)
  BY PlaceFacts DEF PlaceInv, Flow!SInv, Flow!IInv
<1>3. control = "idle"
  BY <1>1, <1>2 DEF CallInv, Flow!TypeOK, Flow!Controls
<1>4. StopInv'
  BY <1>1, <1>2, <1>3 DEF StopInv, Flow!TypeOK, Flow!NoOrphans
<1>5. TakenInv'
  <2>1. \A t \in AppThreads \ registered : current[t] = NoBlock
    BY <1>2 DEF Listed, BlockOf
  <2>2. UNCHANGED <<etwPc, flushed, log, registered, current, isEnabled>>
    BY <1>1 DEF commandVars, threadVars, historyVars
  <2>3. flushed = NoBlock /\ flushed \in Blocks \cup {NoBlock} /\ log \in Seq(Blocks)
    BY <1>1, <1>2 DEF CallInv, Numbered
  <2> QED
    BY <1>1, <2>1, <2>2, <2>3 DEF TakenInv, Collecting
<1>6. Kept
  BY <1>2 DEF Kept, OnePlace, Hands
<1>7. Kept'
  BY <1>1, <1>6 DEF Kept, used, InHand, WithCommand, WithWorker, Done, commandVars, threadVars,
     blockVars, historyVars
<1> QED
  BY <1>4, <1>5, <1>7 DEF DownInv
-----------------------------------------------------------------------------
\* The lists of blocks after their first one was moved to the end of another.
LEMMA HeadMoves ==
    ASSUME NEW s \in Seq(Blocks), s # <<>>, NEW r \in Seq(Blocks)
    PROVE  /\ Head(s) \in Blocks /\ Tail(s) \in Seq(Blocks)
           /\ Append(r, Head(s)) \in Seq(Blocks) /\ Append(r, Head(s)) # r
           /\ Append(r, Head(s))[Len(Append(r, Head(s)))] = Head(s)
           /\ Range(s) = {Head(s)} \cup Range(Tail(s))
           /\ Range(Append(r, Head(s))) = Range(r) \cup {Head(s)}
<1>1. /\ Head(s) \in Blocks /\ Tail(s) \in Seq(Blocks)
      /\ Range(s) = {Head(s)} \cup Range(Tail(s))
  BY EtwAssumption, Flow!HeadTailElements, SameRange
<1> DEFINE b == Head(s)
<1> HIDE DEF b
<1>2. b \in Blocks
  BY <1>1 DEF b
<1>3. /\ Append(r, b) \in Seq(Blocks) /\ Append(r, b) # r
      /\ Append(r, b)[Len(Append(r, b))] = b
  BY <1>2, AppendProperties
<1>4. Range(Append(r, b)) = Range(r) \cup {b}
  BY <1>2, EtwAssumption, Flow!AppendElements, SameRange
<1> QED
  BY <1>1, <1>3, <1>4 DEF b

(* Stop, in a Flush or for the last time, with the worker's thread gone.    *)
LEMMA StopGoesOn ==
    ASSUME DownInv, dll # "loaded", dll' = dll, InCall
    PROVE  DownInv'
<1>1. /\ LogWritten
      /\ UNCHANGED <<commandVars, threadVars, blockVars, dropped>>
  BY DEF InCall
<1>2. /\ \A t \in AppThreads : InHand(t)' = InHand(t)
      /\ used' = used /\ WithCommand' = WithCommand
  BY <1>1 DEF commandVars, threadVars, blockVars, used, InHand, WithCommand
<1>3. CASE TW!StopWrite
  <2>1. /\ control = "stopDrain" /\ pending # <<>>
        /\ written' = Append(written, Head(pending)) /\ pending' = Tail(pending)
        /\ UNCHANGED <<worker, control, back>>
    BY <1>3 DEF TW!StopWrite, TW!ctlVars
  <2>2. /\ pending \in Seq(Blocks) /\ written \in Seq(Blocks) /\ log \in Seq(Blocks)
    BY DEF DownInv, StopInv, TakenInv
  <2>3. /\ Head(pending) \in Blocks /\ pending' \in Seq(Blocks)
        /\ written' \in Seq(Blocks) /\ written' # written
        /\ written'[Len(written')] = Head(pending)
        /\ Range(pending) = {Head(pending)} \cup Range(pending')
    BY <2>1, <2>2, HeadMoves
  <2>4. log' = Append(log, Head(pending))
    BY <1>1, <2>3 DEF LogWritten
  <2>5. log' \in Seq(Blocks) /\ Range(log') = Range(log) \cup {Head(pending)}
    BY <2>1, <2>2, <2>4, HeadMoves
  <2>6. WithWorker \cup Done = WithWorker' \cup Done'
    BY <1>1, <2>1, <2>3, <2>5 DEF WithWorker, Done
  <2>7. Kept'
    BY <1>2, <2>6 DEF DownInv, Kept
  <2>8. TakenInv'
    BY <1>1, <2>5 DEF DownInv, TakenInv, Collecting, commandVars, threadVars
  <2>9. StopInv'
    BY <2>1, <2>3 DEF DownInv, StopInv
  <2> QED
    BY <2>7, <2>8, <2>9 DEF DownInv
<1>4. CASE TW!Join \/ TW!StopRelock \/ TW!StopReturn \/ TW!StartRelock
  <2>1. UNCHANGED <<pending, back, written>>
    BY <1>4 DEF TW!Join, TW!StopRelock, TW!StopReturn, TW!StartRelock
  <2>2. log' = log
    BY <1>1, <2>1 DEF LogWritten
  <2>3. Kept' /\ TakenInv'
    BY <1>1, <1>2, <2>1, <2>2 DEF DownInv, Kept, TakenInv, Collecting, WithWorker, Done,
       commandVars, threadVars
  <2>4. StopInv'
    BY <1>4, <2>1 DEF DownInv, StopInv, TW!Join, TW!StopRelock, TW!StopReturn, TW!StartRelock,
       TW!Drained
  <2> QED
    BY <2>3, <2>4 DEF DownInv
<1> QED
  BY <1>3, <1>4 DEF InCall, TW!ControlStep

(* Flush takes the block of a thread wherever that was terminated, and      *)
(* writes it.                                                               *)
LEMMA FlushGoesOn ==
    ASSUME DownInv, ListInv, dll # "loaded", dll' = dll, CommandStep, ~InCall
    PROVE  DownInv'
<1>0. ThreadTypes /\ CommandInv
  BY DEF ListInv
<1>1. CASE CallStart \/ Return
  BY <1>1 DEF CallStart, Return, GoEtw, DownInv, TakenInv, Collecting
<1>2. CASE CallStop
  <2>1. /\ etwPc = "flushStop" /\ etwPc' = "flushStopping"
        /\ UNCHANGED <<pending, back, written, worker, isEnabled, registered, todo, flushed,
                       threadVars, blockVars, historyVars>>
        /\ control' = control \/ (worker # NoWorker /\ control' = "stopJoin")
    BY <1>2 DEF CallStop, GoEtw, DownInv, TakenInv, Collecting, TW!Stop, TW!RequestStop,
       workerVars
  <2>2. StopInv' /\ TakenInv'
    BY <2>1 DEF DownInv, StopInv, TakenInv, Collecting, threadVars, historyVars
  <2>3. Kept'
    BY <2>1 DEF DownInv, Kept, used, InHand, WithCommand, WithWorker, Done, threadVars,
       blockVars, historyVars
  <2> QED
    BY <2>2, <2>3 DEF DownInv
<1>3. CASE FlushThreads \/ FlushDone
  <2>1. UNCHANGED <<workerVars, isEnabled, registered, flushed, threadVars, blockVars,
                    historyVars>>
    BY <1>3 DEF FlushThreads, FlushDone
  <2>2. \/ etwPc' = "flushThreads" /\ todo' = registered
        \/ /\ etwPc = "flushThreads" /\ etwPc' = "idle"
           /\ todo = {} /\ flushed = NoBlock
    BY <1>3 DEF FlushThreads, FlushDone, GoEtw, FlushList
  <2>3. StopInv'
    BY <2>1 DEF DownInv, StopInv, workerVars
  <2>4. etwPc # "flushThreads" \/ taking = NoThread
    BY <1>0 DEF CommandInv
  <2>5. etwPc' = "idle" => \A t \in AppThreads : current[t] = NoBlock
    BY <2>2, <2>4, EtwAssumption DEF DownInv, TakenInv, Collecting
  <2>6. /\ UNCHANGED <<current, flushed, log, registered, isEnabled, dll>>
        /\ \/ etwPc' = "flushThreads" /\ etwPc # "idle"
           \/ etwPc' = "idle"
    BY <1>3, <2>1 DEF FlushThreads, FlushDone, GoEtw, threadVars, historyVars
  <2>7. TakenInv'
    BY <2>2, <2>5, <2>6 DEF DownInv, TakenInv, Collecting
  <2>8. Kept'
    BY <1>3, <2>1, <2>2 DEF FlushThreads, GoEtw, DownInv, Kept, used, InHand, WithCommand,
       WithWorker, Done, workerVars, threadVars, blockVars, historyVars
  <2> QED
    BY <2>3, <2>7, <2>8 DEF DownInv
<1>4. CASE (\E t \in AppThreads : FlushThread(t)) \/ CollectEndTime \/ CollectClear
  <2>1. /\ UNCHANGED <<workerVars, isEnabled, registered, flushed, current, appPc, local,
                       filler, historyVars>>
        /\ etwPc \in {"flushThreads", "flushEndTime", "flushClear"}
        /\ etwPc' \in {"flushEndTime", "flushClear", "flushMove"}
    BY <1>4 DEF FlushThread, CollectEndTime, CollectClear, GoEtw, threadVars, blockVars
  <2>2. StopInv'
    BY <2>1 DEF DownInv, StopInv, workerVars
  <2>3. Collecting /\ Collecting' /\ flushed = NoBlock
    BY <1>4, <2>1 DEF Collecting, DownInv, TakenInv, FlushThread, CollectEndTime, CollectClear,
       GoEtw
  <2>4. todo \cup {taking} \subseteq todo' \cup {taking'} \cup {NoThread}
    BY <1>0, <1>4, <2>1 DEF CommandInv, FlushThread, CollectEndTime, CollectClear, GoEtw
  <2>5. TakenInv'
    BY <2>1, <2>3, <2>4, EtwAssumption DEF DownInv, TakenInv, historyVars
  <2>6. Kept'
    BY <2>1 DEF DownInv, Kept, used, InHand, WithCommand, WithWorker, Done, workerVars,
       historyVars
  <2> QED
    BY <2>2, <2>5, <2>6 DEF DownInv
<1>5. CASE CollectMove \/ CollectMoved
  <2>1. PICK t \in AppThreads : t = taking
    BY <1>0, <1>5 DEF CommandInv, ThreadTypes, Collecting, CollectMove, CollectMoved, GoEtw
  <2>2. /\ UNCHANGED <<workerVars, isEnabled, registered, todo, appPc, local, filler,
                       historyVars>>
        /\ Collecting /\ Collecting'
    BY <1>5 DEF CollectMove, CollectMoved, GoEtw, Collecting, threadVars, blockVars
  <2>3. StopInv'
    BY <2>2 DEF DownInv, StopInv, workerVars
  <2>4. \/ /\ etwPc = "flushMove" /\ etwPc' = "flushMoved" /\ taking' = taking
           /\ current' = current /\ flushed = NoBlock /\ flushed' = current[t]
        \/ /\ etwPc = "flushMoved" /\ etwPc' = "flushThreads" /\ flushed' = flushed
           /\ current' = [current EXCEPT ![t] = NoBlock]
    BY <1>5, <2>1 DEF CollectMove, CollectMoved, GoEtw, AfterMove, DownInv, TakenInv, threadVars
  <2>5. current' \in [AppThreads -> Blocks \cup {NoBlock}]
        /\ \A u \in AppThreads \ {t} : current'[u] = current[u]
        /\ current'[t] \in {NoBlock, current[t]}
        /\ etwPc' = "flushThreads" => current'[t] = NoBlock
    BY <1>0, <2>4 DEF ThreadTypes
  <2>6. flushed' \in Blocks \cup {NoBlock}
    BY <1>0, <2>4 DEF DownInv, TakenInv, ThreadTypes
  <2>7. TakenInv'
    BY <2>1, <2>2, <2>4, <2>5, <2>6 DEF DownInv, TakenInv, historyVars
  <2>8. UNCHANGED <<used, WithWorker, Done>>
    BY <2>2 DEF used, WithWorker, Done, workerVars, historyVars
  <2>9. \A u \in AppThreads : InHand(u) \subseteq InHand(u)' \cup WithCommand'
    BY <2>1, <2>2, <2>4, <2>5 DEF InHand, WithCommand
  <2>10. WithCommand \subseteq WithCommand'
    BY <2>4 DEF WithCommand
  <2>11. Kept'
    BY <2>8, <2>9, <2>10 DEF DownInv, Kept
  <2> QED
    BY <2>3, <2>7, <2>11 DEF DownInv
<1>6. CASE FlushWrite
  <2>1. /\ flushed # NoBlock /\ flushed' = NoBlock /\ log' = Append(log, flushed)
        /\ UNCHANGED <<workerVars, isEnabled, registered, etwPc, todo, taking, threadVars,
                       blockVars, dropped>>
        /\ etwPc = "flushThreads"
    BY <1>6 DEF FlushWrite
  <2>2. flushed \in Blocks /\ log \in Seq(Blocks)
    BY <2>1 DEF DownInv, TakenInv
  <2>3. log' \in Seq(Blocks) /\ Range(log') = Range(log) \cup {flushed}
    BY <2>1, <2>2, EtwAssumption, Flow!AppendElements, SameRange
  <2>4. StopInv' /\ TakenInv'
    BY <2>1, <2>3 DEF DownInv, StopInv, TakenInv, Collecting, workerVars, threadVars
  <2>5. /\ \A u \in AppThreads : InHand(u)' = InHand(u)
        /\ UNCHANGED <<used, WithWorker>>
        /\ WithCommand \subseteq Done' /\ Done \subseteq Done'
    BY <2>1, <2>3 DEF used, InHand, WithCommand, WithWorker, Done, workerVars, threadVars,
       blockVars
  <2>6. Kept'
    BY <2>5 DEF DownInv, Kept
  <2> QED
    BY <2>4, <2>6 DEF DownInv
<1> QED
  BY <1>1, <1>2, <1>3, <1>4, <1>5, <1>6 DEF CommandStep
-----------------------------------------------------------------------------
\* The stages of Shutdown.
LEMMA ShutdownGoesOn ==
    ASSUME DownInv, LifeInv, dll # "loaded", ShutdownStep
    PROVE  DownInv'
<1>1. CASE ShutdownFlush
  <2>1. /\ dll \in {"flush", "reset"} /\ etwPc = "idle"
        /\ dll' = IF dll = "flush" THEN "reset" ELSE "worker"
        /\ Flush \/ (~isEnabled /\ UNCHANGED vars)
    BY <1>1, Stages DEF ShutdownFlush
  <2>2. /\ UNCHANGED <<workerVars, isEnabled, registered, todo, taking, flushed, threadVars,
                       filler, historyVars>>
        /\ \/ etwPc' = "flushStop"
           \/ ~isEnabled /\ etwPc' = "idle"
    BY <2>1 DEF Flush, GoEtw, vars, commandVars, blockVars
  <2>3. StopInv'
    BY <2>1, <2>2 DEF DownInv, StopInv, workerVars
  <2>4. TakenInv'
    BY <2>1, <2>2 DEF DownInv, TakenInv, Collecting, threadVars, historyVars
  <2>5. Kept'
    BY <2>1, <2>2 DEF DownInv, Kept, used, InHand, WithCommand, WithWorker, Done, workerVars,
       threadVars, historyVars
  <2> QED
    BY <2>3, <2>4, <2>5 DEF DownInv
<1>2. CASE DestroyWorker
  <2>1. /\ dll = "worker" /\ dll' = "writer" /\ etwPc = "idle"
        /\ UNCHANGED <<pending, back, written, worker, commandVars, threadVars, blockVars,
                       historyVars>>
        /\ \/ worker # NoWorker /\ control' = "stopJoin"
           \/ worker = NoWorker /\ control' = control
    BY <1>2, Stages DEF DestroyWorker, TW!Stop, TW!RequestStop, workerVars
  <2>2. StopInv'
    BY <2>1 DEF DownInv, StopInv
  <2>3. TakenInv'
    BY <2>1 DEF DownInv, TakenInv, Collecting, commandVars, threadVars, historyVars
  <2>4. Kept'
    BY <2>1 DEF DownInv, Kept, used, InHand, WithCommand, WithWorker, Done, commandVars,
       threadVars, blockVars, historyVars
  <2> QED
    BY <2>2, <2>3, <2>4 DEF DownInv
<1>3. CASE DestroyWriter
  <2>1. /\ dll = "writer" /\ dll' = "heap" /\ control = "idle" /\ control' = control
        /\ pending' = <<>> /\ back' = <<>>
        /\ dropped' = dropped \cup Range(pending) \cup Range(back)
        /\ UNCHANGED <<worker, written, commandVars, threadVars, blockVars, log>>
    BY <1>3, Stages DEF DestroyWriter
  <2>2. StopInv'
    BY <2>1 DEF DownInv, StopInv
  <2>3. TakenInv'
    BY <2>1 DEF DownInv, TakenInv, Collecting, commandVars, threadVars
  <2>4. /\ \A u \in AppThreads : InHand(u)' = InHand(u)
        /\ UNCHANGED <<used, WithCommand>>
        /\ WithWorker \cup Done \subseteq Done'
    BY <2>1 DEF used, InHand, WithCommand, WithWorker, Done, commandVars, threadVars, blockVars
  <2>5. Kept'
    BY <2>4 DEF DownInv, Kept
  <2> QED
    BY <2>2, <2>3, <2>5 DEF DownInv
<1>4. CASE DestroyHeap \/ EndRegistration
  <2>1. /\ dll \in {"heap", "detached"} /\ dll' \in {"detached", "unregistered"}
        /\ UNCHANGED vars
    BY <1>4, Stages DEF DestroyHeap, EndRegistration
  <2> QED
    BY <2>1 DEF DownInv, StopInv, TakenInv, Collecting, Kept, used, InHand, WithCommand,
       WithWorker, Done, vars, workerVars, commandVars, threadVars, blockVars, historyVars
<1> QED
  BY <1>1, <1>2, <1>3, <1>4 DEF ShutdownStep

LEMMA EndStep == EndInv /\ [LifeNext]_allVars => EndInv'
<1> SUFFICES ASSUME EndInv, [LifeNext]_allVars PROVE EndInv'
  OBVIOUS
<1>0. LifeInv /\ LifeInv' /\ ListInv /\ ListInv'
  BY LifeStep DEF EndInv, LifeInv
<1>1. CASE UNCHANGED allVars
  <2>1. UNCHANGED vars /\ dll' = dll
    BY <1>1 DEF allVars, lifeVars
  <2>2. dll = "loaded" => PlaceInv'
    BY <2>1, PlaceStep DEF EndInv
  <2>3. dll # "loaded" => DownInv'
    BY <2>1 DEF EndInv, DownInv, StopInv, TakenInv, Collecting, Kept, used, InHand, WithCommand,
       WithWorker, Done, vars, workerVars, commandVars, threadVars, blockVars, historyVars
  <2> QED
    BY <1>0, <2>1, <2>2, <2>3 DEF EndInv
<1>2. CASE LifeNext /\ dll = "loaded"
  <2>1. /\ PlaceInv /\ ~terminated
        /\ dll' = "loaded" => (Collecting => AtRest)'
    BY <1>0, <1>2 DEF EndInv, LifeInv, StageInv, LifeNext
  <2>2. ~ShutdownStep
    BY <1>2, Stages DEF ShutdownStep, ShutdownFlush, DestroyWorker, DestroyWriter, DestroyHeap,
       EndRegistration
  <2>3. CASE Detach
    BY <1>0, <2>1, <2>3, DetachStops DEF Detach, EndInv
  <2>4. ASSUME NEW t \in AppThreads, NoHeap(t) PROVE EndInv'
    BY <1>0, <1>2, <2>1, <2>4, NoHeapKeeps DEF NoHeap, EndInv
  <2>5. CASE ThreadsRun \/ Dispatch \/ CommandRuns
    <3>1. dll' = dll
      BY <2>5 DEF ThreadsRun, Dispatch, CommandRuns, lifeVars
    <3> QED
      BY <1>0, <1>2, <2>1, <2>5, <3>1, LoadedKeeps DEF EndInv
  <2>6. ASSUME NEW command \in Commands, Callback(command) PROVE EndInv'
    <3>1. UNCHANGED vars /\ dll' = dll
      BY <2>6 DEF Callback
    <3> QED
      BY <1>0, <1>2, <2>1, <3>1, PlaceStep DEF EndInv
  <2> QED
    BY <1>2, <2>2, <2>3, <2>4, <2>5, <2>6 DEF LifeNext
<1>3. CASE LifeNext /\ dll # "loaded"
  <2>1. DownInv /\ callback = NoCommand
    BY <1>0, <1>3 DEF EndInv, LifeInv, StageInv
  <2>2. CommandRuns \/ ShutdownStep
    BY <1>3, <2>1 DEF LifeNext, ThreadsRun, NoHeap, Callback, MayProcess, Dispatch, Detach
  <2>3. CASE CommandRuns
    <3>1. CommandStep /\ dll' = dll
      BY <2>3 DEF CommandRuns, lifeVars
    <3>2. DownInv'
      BY <1>0, <1>3, <2>1, <3>1, StopGoesOn, FlushGoesOn
    <3> QED
      BY <1>0, <1>3, <3>1, <3>2 DEF EndInv
  <2>4. CASE ShutdownStep
    <3>1. DownInv'
      BY <1>0, <1>3, <2>1, <2>4, ShutdownGoesOn
    <3>2. dll' # "loaded"
      BY <2>4, Stages DEF ShutdownStep, ShutdownFlush, DestroyWorker, DestroyWriter,
         DestroyHeap, EndRegistration
    <3> QED
      BY <1>0, <3>1, <3>2 DEF EndInv
  <2> QED
    BY <2>2, <2>3, <2>4
<1> QED
  BY <1>1, <1>2, <1>3

(* Nothing is pending when the worker is destroyed, and after Shutdown      *)
(* every block has been written or freed, also that of a thread terminated  *)
(* in the middle of an event, but for the one such a thread was about to    *)
(* hand over and those of threads that had not noticed that capture is off. *)
THEOREM ShutdownDeliversAll == LifeSpec => []ShutdownDelivers
<1>1. LifeInit => EndInv
  <2> SUFFICES ASSUME LifeInit PROVE EndInv
    OBVIOUS
  <2>1. Init /\ dll = "loaded" /\ LifeInv
    BY LifeInitially DEF LifeInit
  <2> QED
    BY <2>1, PlaceInit DEF EndInv
<1>2. EndInv => ShutdownDelivers
  <2> SUFFICES ASSUME EndInv PROVE ShutdownDelivers
    OBVIOUS
  <2>1. dll = "writer" /\ control = "idle" => pending = <<>>
    BY DEF EndInv, DownInv, StopInv
  <2>2. ASSUME dll = "unregistered"
        PROVE  used \ Done \subseteq Range(local)
                                        \cup (IF isEnabled THEN {} ELSE Range(current))
    <3>1. /\ DownInv /\ ThreadTypes /\ etwPc = "idle"
          /\ pending = <<>> /\ back = <<>> /\ flushed = NoBlock
      BY <2>2 DEF EndInv, LifeInv, ListInv, StageInv, DownInv, StopInv, TakenInv
    <3>2. WithCommand = {} /\ WithWorker = {}
      BY <3>1 DEF WithCommand, WithWorker, Range
    <3>3. isEnabled => \A t \in AppThreads : current[t] = NoBlock
      BY <2>2, <3>1 DEF DownInv, TakenInv
    <3>4. \A t \in AppThreads : local[t] \in Range(local) /\ current[t] \in Range(current)
      BY <3>1 DEF ThreadTypes, Range
    <3>5. \A b \in used \ Done : \E t \in AppThreads : b \in InHand(t)
      BY <3>1, <3>2 DEF DownInv, Kept
    <3> QED
      BY <3>3, <3>4, <3>5 DEF InHand
  <2> QED
    BY <2>1, <2>2 DEF ShutdownDelivers, Done
<1>3. EndInv /\ [WholeNext]_allVars => EndInv'
  BY EndStep DEF WholeNext
<1> QED
  BY <1>1, <1>2, <1>3, PTL DEF LifeSpec
=============================================================================
