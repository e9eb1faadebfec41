--------------------------- MODULE EtwWriterProofs ---------------------------
(***************************************************************************)
(* What holds of the runtime around the worker for any number of threads,   *)
(* blocks and events.                                                       *)
(*                                                                          *)
(* With a Flush at any time: the list holds the threads that exist, and     *)
(* those know whether capture is on.                                        *)
(*                                                                          *)
(* If Flush collects blocks only from threads at rest: a block that was     *)
(* allocated is in one place until it has been written or freed; no thread  *)
(* ever writes to a block that is not its own; the assertions hold; the     *)
(* worker is only called serially, so what ThreadedWorkerProofs proves of   *)
(* serialised calls holds here; and all types are right.  Then what reaches *)
(* ETW: the blocks of a thread in the order it filled them, and everything  *)
(* that was emitted before a Flush returns.                                 *)
(*                                                                          *)
(* Of the steps of the worker the proofs know only what they do with the    *)
(* blocks: to the lists of threads and what these know they do nothing.     *)
(***************************************************************************)
EXTENDS EtwWriter, FiniteSetTheorems, SequenceTheorems, TLAPS

\* The types of what the theorems need.
ThreadTypes ==
    /\ isEnabled \in BOOLEAN /\ registered \subseteq AppThreads
    /\ todo \subseteq AppThreads /\ taking \in AppThreads \cup {NoThread}
    /\ ending \subseteq AppThreads
    /\ enabled \in [AppThreads -> BOOLEAN]
    /\ info \in [AppThreads -> [block : Blocks \cup {NoBlock}, limit : Limits]]
    /\ current \in [AppThreads -> Blocks \cup {NoBlock}]
    /\ appPc \in [AppThreads -> AppPcs]
    /\ local \in [AppThreads -> Blocks \cup {NoBlock}]

\* The list holds the threads from AddThread to Unregister.
Listed == registered = {t \in AppThreads : appPc[t] \notin {"absent", "registering"}}

(* A thread is told when it registers and with every command; so it knows   *)
(* at any time, not only while no command executes.                         *)
Told == \A t \in AppThreads : appPc[t] # "absent" => enabled[t] = isEnabled

\* The command that executes, and the threads it still has to come to.
CommandInv ==
    /\ etwPc \in EtwPcs
    /\ todo \subseteq registered /\ ending \subseteq registered
    /\ taking \in registered \cup {NoThread}
    /\ taking # NoThread <=> Collecting /\ etwPc # "flushThreads"
    /\ ~Collecting => todo = {}

ListInv == ThreadTypes /\ Listed /\ Told /\ CommandInv

\* The command has reset the thread info of t, and not yet m_currentBlock.
HalfTaken(t) == taking = t /\ etwPc \in {"flushMove", "flushMoved"}

(* What PIXEventsThreadInfo points to is m_currentBlock, but within a Flush *)
(* or a skip, and between Allocate and the lines that publish the block.  A *)
(* thread that hands its block over, or is about to allocate one, has none. *)
BlockOf(t) ==
    /\ appPc[t] \notin {"skipInfo", "move", "moved", "setInfo"} /\ ~HalfTaken(t)
          => info[t].block = current[t]
    /\ appPc[t] \in {"move", "moved", "setInfo"} \/ HalfTaken(t)
          => info[t].block = NoBlock
    /\ \/ appPc[t] \in {"endTime", "clear", "setInfo"}
       \/ taking = t /\ etwPc \in {"flushEndTime", "flushClear"}
       => current[t] # NoBlock
    /\ appPc[t] \in {"absent", "registering", "skipInfo", "take", "allocate", "unregister"}
          => current[t] = NoBlock
    /\ appPc[t] = "moved" => local[t] = current[t]
    /\ taking = t /\ etwPc = "flushMoved" => flushed = current[t]
    /\ info[t].limit = "block" => info[t].block # NoBlock
    /\ appPc[t] = "limit" => info[t].limit # "null"
    /\ appPc[t] = "emit" => local[t] # NoBlock /\ local[t] = current[t]

OwnerInv ==
    /\ ListInv
    /\ Collecting => AtRest
    /\ \A t \in AppThreads : BlockOf(t)
-----------------------------------------------------------------------------
\* nullptr is not a block.
LEMMA NullIsNoBlock == NoBlock \notin Blocks
BY EtwAssumption DEF NoBlock, Blocks

LEMMA TypesHoldInitially == Init => ThreadTypes
<1> SUFFICES ASSUME Init PROVE ThreadTypes
  OBVIOUS
<1>1. enabled \in [AppThreads -> BOOLEAN] /\ isEnabled \in BOOLEAN
  BY Zenon DEF Init
<1>2. info \in [AppThreads -> [block : Blocks \cup {NoBlock}, limit : Limits]]
  BY DEF Init, NoInfo, Limits
<1>3. /\ current \in [AppThreads -> Blocks \cup {NoBlock}]
      /\ local \in [AppThreads -> Blocks \cup {NoBlock}]
      /\ appPc \in [AppThreads -> AppPcs]
  BY DEF Init, AppPcs
<1> QED
  BY <1>1, <1>2, <1>3 DEF Init, ThreadTypes

\* A thread leaves the command and the other threads alone.
LEMMA ThreadFrame ==
    ASSUME ThreadTypes, NEW t \in AppThreads, AppStep(t)
    PROVE  /\ UNCHANGED <<isEnabled, etwPc, todo, taking, flushed>>
           /\ \A u \in AppThreads \ {t} :
                 /\ enabled'[u] = enabled[u] /\ info'[u] = info[u]
                 /\ current'[u] = current[u] /\ appPc'[u] = appPc[u]
                 /\ local'[u] = local[u]
BY DEF ThreadTypes, AppStep, Register, AddThread, Exit, Unregister, SkipEvent, SkipReset,
   SkipInfo, BeginEvent, FoundRoom, FoundNoRoom, Reread, Emit, FlushTest, FlushEndTime,
   FlushClear, FlushMove, FlushMoved, TakeBlock, ReplaceAllocate, ReplaceFails, ReplaceSetInfo,
   Go, commandVars, threadVars

\* Every step of a thread preserves the types.
LEMMA ThreadsKeepTypes ==
    ASSUME ThreadTypes, NEW t \in AppThreads, AppStep(t)
    PROVE  ThreadTypes'
<1> USE DEF ThreadTypes, AppPcs, Limits, Go, NoInfo, blockVars, commandVars, threadVars
<1>1. CASE Register(t)
  BY <1>1 DEF Register, NewThreadFlag
<1>2. CASE AddThread(t)
  BY <1>2 DEF AddThread
<1>3. CASE Exit(t)
  BY <1>3 DEF Exit
<1>4. CASE Unregister(t)
  BY <1>4 DEF Unregister, Remove
<1>5. CASE SkipEvent(t)
  BY <1>5 DEF SkipEvent
<1>6. CASE SkipReset(t)
  BY <1>6 DEF SkipReset
<1>7. CASE SkipInfo(t)
  BY <1>7 DEF SkipInfo, InfoWhenOff
<1>8. CASE BeginEvent(t)
  BY <1>8 DEF BeginEvent
<1>9. CASE FoundRoom(t)
  BY <1>9 DEF FoundRoom
<1>10. CASE FoundNoRoom(t)
  BY <1>10 DEF FoundNoRoom
<1>11. CASE Reread(t)
  BY <1>11 DEF Reread
<1>12. CASE Emit(t)
  BY <1>12 DEF Emit
<1>13. CASE FlushTest(t)
  BY <1>13 DEF FlushTest
<1>14. CASE FlushEndTime(t)
  BY <1>14 DEF FlushEndTime
<1>15. CASE FlushClear(t)
  BY <1>15 DEF FlushClear, InfoAfterFlush
<1>16. CASE FlushMove(t)
  BY <1>16 DEF FlushMove
<1>17. CASE FlushMoved(t)
  BY <1>17 DEF FlushMoved, AfterMove, Resume
<1>18. CASE TakeBlock(t)
  BY <1>18 DEF TakeBlock, Resume
<1>19. CASE ReplaceAllocate(t)
  BY <1>19 DEF ReplaceAllocate
<1>20. CASE ReplaceFails(t)
  BY <1>20 DEF ReplaceFails
<1>21. CASE ReplaceSetInfo(t)
  BY <1>21 DEF ReplaceSetInfo
<1> QED
  BY <1>1, <1>2, <1>3, <1>4, <1>5, <1>6, <1>7, <1>8, <1>9, <1>10, <1>11,
     <1>12, <1>13, <1>14, <1>15, <1>16, <1>17, <1>18, <1>19, <1>20, <1>21 DEF
     AppStep

(* A command changes of the threads only the flags and, at rest, what       *)
(* Flush takes; the worker changes nothing of theirs.                       *)
LEMMA CommandsKeepTypes ==
    ASSUME ThreadTypes, Enable \/ Disable \/ Flush \/ CommandStep \/ WorkerRuns
    PROVE  ThreadTypes'
<1> USE DEF ThreadTypes, commandVars, threadVars, GoEtw
<1>1. CASE Enable \/ Disable
  <2>1. enabled' \in [AppThreads -> BOOLEAN] /\ isEnabled' \in BOOLEAN
    BY <1>1, Zenon DEF Enable, Disable, Switch, UpdateThreads
  <2> QED BY <1>1, <2>1 DEF Enable, Disable, Switch
<1>2. CASE Flush \/ CallStart \/ CallStop \/ InCall \/ Return \/ FlushWrite \/ FlushDone
           \/ WorkerRuns
  BY <1>2 DEF Flush, CallStart, CallStop, InCall, Return, FlushWrite, FlushDone, WorkerRuns
<1>3. CASE FlushThreads
  BY <1>3 DEF FlushThreads, FlushList
<1>4. ASSUME NEW u \in AppThreads, FlushThread(u) PROVE ThreadTypes'
  BY <1>4 DEF FlushThread
<1>5. CASE CollectEndTime \/ CollectMove \/ CollectMoved
  BY <1>5 DEF CollectEndTime, CollectMove, CollectMoved, AfterMove
<1>6. CASE CollectClear
  BY <1>6 DEF CollectClear, InfoAfterFlush, NoInfo, Limits
<1> QED BY <1>1, <1>2, <1>3, <1>4, <1>5, <1>6 DEF CommandStep
-----------------------------------------------------------------------------
LEMMA ListInit == Init => ListInv
<1> SUFFICES ASSUME Init PROVE ListInv
  OBVIOUS
<1>1. Listed /\ Told /\ CommandInv
  BY DEF Init, Listed, Told, CommandInv, Collecting, EtwPcs
<1> QED BY <1>1, TypesHoldInitially DEF ListInv

\* Only the two ends of a thread's life change the list.
LEMMA ThreadsKeepList ==
    ASSUME ListInv, NEW t \in AppThreads, AppStep(t)
    PROVE  Listed' /\ Told' /\ CommandInv'
<1>0. /\ ThreadTypes /\ Listed /\ Told /\ CommandInv
      /\ UNCHANGED <<isEnabled, etwPc, todo, taking, flushed>>
      /\ \A u \in AppThreads \ {t} : enabled'[u] = enabled[u] /\ appPc'[u] = appPc[u]
      /\ Collecting' <=> Collecting
  BY ThreadFrame DEF ListInv, Collecting
<1>1. CASE Register(t)
  <2>1. /\ registered' = registered /\ ending' = ending
        /\ appPc[t] = "absent" /\ appPc'[t] = "registering" /\ enabled'[t] = isEnabled
    BY <1>0, <1>1 DEF ThreadTypes, Register, NewThreadFlag, Go, commandVars
  <2> QED BY <1>0, <2>1 DEF Listed, Told, CommandInv
<1>2. CASE AddThread(t)
  <2>1. /\ registered' = registered \cup {t} /\ ending' = ending /\ enabled' = enabled
        /\ appPc[t] = "registering" /\ appPc'[t] = "ready"
    BY <1>0, <1>2 DEF ThreadTypes, AddThread, Go
  <2> QED BY <1>0, <2>1 DEF Listed, Told, CommandInv
<1>3. CASE Exit(t)
  <2>1. /\ registered' = registered /\ ending' = ending \cup {t} /\ enabled' = enabled
        /\ appPc[t] = "ready" /\ appPc'[t] = "flush"
    BY <1>0, <1>3 DEF ThreadTypes, Exit, Go, commandVars
  <2> QED BY <1>0, <2>1 DEF Listed, Told, CommandInv
<1>4. CASE Unregister(t)
  <2>1. /\ registered' = registered \ {t} /\ ending' = ending \ {t} /\ ~Collecting
        /\ appPc[t] = "unregister" /\ appPc'[t] = "absent"
    BY <1>0, <1>4 DEF ThreadTypes, Unregister, Remove, Go, LockFree, Collecting
  <2> QED BY <1>0, <2>1 DEF Listed, Told, CommandInv
<1>5. CASE ~Register(t) /\ ~AddThread(t) /\ ~Exit(t) /\ ~Unregister(t)
  <2>1. /\ registered' = registered /\ ending' = ending /\ enabled' = enabled
        /\ appPc[t] \notin {"absent", "registering"}
        /\ appPc'[t] \notin {"absent", "registering"}
    BY <1>0, <1>5 DEF ThreadTypes, AppStep, SkipEvent, SkipReset, SkipInfo, BeginEvent,
       FoundRoom, FoundNoRoom, Reread, Emit, FlushTest, FlushEndTime, FlushClear, FlushMove,
       FlushMoved, TakeBlock, ReplaceAllocate, ReplaceFails, ReplaceSetInfo, Resume, Go,
       commandVars
  <2> QED BY <1>0, <2>1 DEF Listed, Told, CommandInv
<1> QED BY <1>1, <1>2, <1>3, <1>4, <1>5

(* A command tells every thread on the list, and no thread is registering   *)
(* meanwhile.                                                               *)
LEMMA CommandsKeepList ==
    ASSUME ListInv, Enable \/ Disable \/ Flush \/ CommandStep \/ WorkerRuns
    PROVE  Listed' /\ Told' /\ CommandInv'
<1>0. ThreadTypes /\ Listed /\ Told /\ CommandInv
  BY DEF ListInv
<1> USE DEF GoEtw
<1>1. ASSUME NEW next \in {"start", "stop"}, NEW on \in BOOLEAN, Switch(on, next)
      PROVE  Listed' /\ Told' /\ CommandInv'
  <2>1. /\ UNCHANGED <<registered, todo, taking, appPc, ending>> /\ isEnabled' = on
        /\ etwPc = "idle" /\ etwPc' = next /\ UpdateThreads(on)
        /\ \A t \in AppThreads : appPc[t] # "registering"
    BY <1>1 DEF Switch, LockFree
  <2>2. \A t \in registered : enabled'[t] = isEnabled'
    BY <1>0, <2>1, Zenon DEF UpdateThreads, ThreadTypes
  <2>3. ~Collecting /\ ~Collecting' /\ etwPc' \in EtwPcs
    BY <2>1 DEF Collecting, EtwPcs
  <2> QED
    BY <1>0, <2>1, <2>2, <2>3 DEF Listed, Told, CommandInv
<1>2. CASE Enable \/ Disable
  BY <1>1, <1>2 DEF Enable, Disable
<1>3. ASSUME UNCHANGED <<isEnabled, registered, enabled, appPc, ending, todo, taking>>,
             etwPc' # etwPc => ~Collecting /\ ~Collecting' /\ etwPc' \in EtwPcs
      PROVE  Listed' /\ Told' /\ CommandInv'
  <2>1. etwPc' = etwPc => (Collecting' <=> Collecting)
    BY DEF Collecting
  <2> QED BY <1>0, <1>3, <2>1 DEF Listed, Told, CommandInv
<1> DEFINE Same == UNCHANGED <<isEnabled, registered, enabled, appPc, ending>>
<1>4. Same => Listed' /\ Told'
  BY <1>0 DEF Listed, Told
<1>5. CASE Flush
  BY <1>3, <1>5 DEF Flush, threadVars, Collecting, EtwPcs
<1>6. CASE CallStart
  BY <1>3, <1>6 DEF CallStart, threadVars, Collecting, EtwPcs
<1>7. CASE CallStop
  BY <1>3, <1>7 DEF CallStop, threadVars, Collecting, EtwPcs
<1>8. CASE InCall \/ WorkerRuns
  BY <1>3, <1>8 DEF InCall, WorkerRuns, threadVars, commandVars
<1>9. CASE Return
  BY <1>3, <1>9 DEF Return, threadVars, Collecting, EtwPcs
<1>10. CASE FlushThreads
  <2>1. Same /\ ~Collecting /\ etwPc' = "flushThreads" /\ taking' = taking /\ todo' = registered
    BY <1>10 DEF FlushThreads, FlushList, Collecting, threadVars
  <2> QED BY <1>0, <1>4, <2>1 DEF CommandInv, Collecting, EtwPcs
<1>11. CASE FlushWrite
  BY <1>3, <1>11 DEF FlushWrite, threadVars
<1>12. CASE FlushDone
  <2>1. Same /\ Collecting /\ etwPc = "flushThreads" /\ etwPc' = "idle" /\ taking' = taking
        /\ todo' = {}
    BY <1>12 DEF FlushDone, Collecting, threadVars
  <2> QED BY <1>0, <1>4, <2>1 DEF CommandInv, Collecting, EtwPcs
<1>13. ASSUME NEW t \in AppThreads, FlushThread(t) PROVE Listed' /\ Told' /\ CommandInv'
  <2>1. Same /\ t \in todo /\ todo' = todo \ {t} /\ taking' = t /\ t # NoThread
        /\ etwPc' \in {"flushEndTime", "flushMove"}
    BY <1>13, EtwAssumption DEF FlushThread, threadVars
  <2>2. etwPc' \in EtwPcs /\ Collecting' /\ etwPc' # "flushThreads"
    BY <2>1 DEF EtwPcs, Collecting
  <2> QED BY <1>0, <1>4, <2>1, <2>2 DEF CommandInv
<1>14. CASE CollectEndTime \/ CollectClear \/ CollectMove
  <2>1. Same /\ UNCHANGED <<todo, taking>>
        /\ etwPc \in {"flushEndTime", "flushClear", "flushMove"}
        /\ etwPc' \in {"flushClear", "flushMove", "flushMoved"}
    BY <1>14 DEF CollectEndTime, CollectClear, CollectMove, threadVars
  <2>2. /\ Collecting /\ etwPc # "flushThreads"
        /\ etwPc' \in EtwPcs /\ Collecting' /\ etwPc' # "flushThreads"
    BY <2>1 DEF EtwPcs, Collecting
  <2> QED BY <1>0, <1>4, <2>1, <2>2 DEF CommandInv
<1>15. CASE CollectMoved
  <2>1. Same /\ todo' = todo /\ taking' = NoThread
        /\ etwPc = "flushMoved" /\ etwPc' = "flushThreads"
    BY <1>15 DEF CollectMoved
  <2>2. Collecting /\ etwPc' \in EtwPcs /\ Collecting'
    BY <2>1 DEF EtwPcs, Collecting
  <2> QED BY <1>0, <1>4, <2>1, <2>2 DEF CommandInv
<1> QED
  BY <1>2, <1>5, <1>6, <1>7, <1>8, <1>9, <1>10, <1>11, <1>12, <1>13, <1>14, <1>15
     DEF CommandStep

LEMMA ListStep == ListInv /\ [Next]_vars => ListInv'
<1> SUFFICES ASSUME ListInv, [Next]_vars PROVE ListInv'
  OBVIOUS
<1>1. CASE UNCHANGED vars
  BY <1>1 DEF ListInv, ThreadTypes, Listed, Told, CommandInv, Collecting, vars, commandVars,
              threadVars
<1>2. ASSUME NEW t \in AppThreads, AppStep(t) PROVE ListInv'
  BY <1>2, ThreadsKeepTypes, ThreadsKeepList DEF ListInv
<1>3. CASE Enable \/ Disable \/ Flush \/ CommandStep \/ WorkerRuns
  BY <1>3, CommandsKeepTypes, CommandsKeepList DEF ListInv
<1> QED
  BY <1>1, <1>2, <1>3 DEF Next

(* The list and the flags are right in every reachable state.               *)
THEOREM ListIsRight == Spec => []ListInv
BY ListInit, ListStep, PTL DEF Spec

(* A command comes only to threads whose ThreadData has not been destroyed, *)
(* for any number of threads that come and go.                              *)
THEOREM FlushedThreadsExist == Spec => []FlushMeetsTheLiving
<1>1. ListInv => FlushMeetsTheLiving
  BY DEF ListInv, Listed, CommandInv, FlushMeetsTheLiving
<1> QED BY <1>1, ListIsRight, PTL

(* Every registered thread knows whether capture is on.                     *)
THEOREM ThreadsAreToldTheTruth == Spec => []ToldTheTruth
<1>1. ListInv => ToldTheTruth
  BY DEF ListInv, Listed, Told, ToldTheTruth
<1> QED BY <1>1, ListIsRight, PTL
-----------------------------------------------------------------------------
LEMMA OwnerInit == Init => OwnerInv
<1> SUFFICES ASSUME Init PROVE OwnerInv
  OBVIOUS
<1>1. ~Collecting
  BY DEF Init, Collecting
<1>2. ASSUME NEW t \in AppThreads PROVE BlockOf(t)
  BY DEF Init, BlockOf, HalfTaken, NoInfo
<1> QED BY <1>1, <1>2, ListInit DEF OwnerInv

\* While blocks are collected the threads do not move at all.
LEMMA ThreadsRest ==
    ASSUME ListInv, Collecting => AtRest, NEW t \in AppThreads, AppStep(t),
           (Collecting => AtRest)'
    PROVE  ~Collecting
<1> SUFFICES ASSUME Collecting PROVE FALSE
  OBVIOUS
<1>1. Collecting'
  BY ThreadFrame DEF ListInv, Collecting
<1>2. Rests(t) /\ Rests(t)' /\ etwPc # "idle"
  BY <1>1 DEF AtRest, Collecting
<1> QED
  BY <1>2 DEF ListInv, ThreadTypes, Rests, LockFree, Go, AppStep, Register, AddThread, Exit,
     Unregister, SkipEvent, SkipReset, SkipInfo, BeginEvent, FoundRoom, FoundNoRoom, Reread,
     Emit, FlushTest, FlushEndTime, FlushClear, FlushMove, FlushMoved, TakeBlock,
     ReplaceAllocate, ReplaceFails, ReplaceSetInfo

(* A step of a thread keeps its own block and says nothing of the others'.  *)
LEMMA ThreadsKeepBlocks ==
    ASSUME OwnerInv, ~Collecting, NEW t \in AppThreads, AppStep(t)
    PROVE  \A u \in AppThreads : BlockOf(u)'
<1>0. /\ ThreadTypes
      /\ UNCHANGED <<etwPc, taking, flushed>>
      /\ etwPc \notin {"flushEndTime", "flushClear", "flushMove", "flushMoved"}
  BY ThreadFrame DEF OwnerInv, ListInv, Collecting
<1>1. ASSUME NEW u \in AppThreads, u # t PROVE BlockOf(u)'
  <2>1. /\ info'[u] = info[u] /\ current'[u] = current[u]
        /\ appPc'[u] = appPc[u] /\ local'[u] = local[u]
    BY <1>0, <1>1, ThreadFrame
  <2>2. BlockOf(u)
    BY DEF OwnerInv
  <2> QED BY <1>0, <2>1, <2>2 DEF BlockOf, HalfTaken
<1>2. BlockOf(t)
  BY DEF OwnerInv
<1> HIDE DEF OwnerInv
<1>3. BlockOf(t)'
  <2> USE <1>0, <1>2, NullIsNoBlock DEF ThreadTypes, BlockOf, HalfTaken, AppPcs, Limits, Go,
                                       NoInfo, threadVars
  <2>1. CASE Register(t)
    BY <2>1 DEF Register
  <2>2. CASE AddThread(t)
    BY <2>2 DEF AddThread
  <2>3. CASE Exit(t)
    BY <2>3 DEF Exit
  <2>4. CASE Unregister(t)
    BY <2>4 DEF Unregister
  <2>5. CASE SkipEvent(t)
    BY <2>5 DEF SkipEvent
  <2>6. CASE SkipReset(t)
    BY <2>6 DEF SkipReset
  <2>7. CASE SkipInfo(t)
    BY <2>7 DEF SkipInfo, InfoWhenOff
  <2>8. CASE BeginEvent(t)
    BY <2>8 DEF BeginEvent
  <2>9. CASE FoundRoom(t)
    BY <2>9 DEF FoundRoom, HasRoom
  <2>10. CASE FoundNoRoom(t)
    BY <2>10 DEF FoundNoRoom
  <2>11. CASE Reread(t)
    BY <2>11 DEF Reread
  <2>12. CASE Emit(t)
    BY <2>12 DEF Emit
  <2>13. CASE FlushTest(t)
    BY <2>13 DEF FlushTest
  <2>14. CASE FlushEndTime(t)
    BY <2>14 DEF FlushEndTime
  <2>15. CASE FlushClear(t)
    BY <2>15 DEF FlushClear, InfoAfterFlush
  <2>16. CASE FlushMove(t)
    BY <2>16 DEF FlushMove
  <2>17. CASE FlushMoved(t)
    BY <2>17 DEF FlushMoved, AfterMove, Resume
  <2>18. CASE TakeBlock(t)
    BY <2>18 DEF TakeBlock, Resume
  <2>19. CASE ReplaceAllocate(t)
    BY <2>19 DEF ReplaceAllocate
  <2>20. CASE ReplaceFails(t)
    BY <2>20 DEF ReplaceFails
  <2>21. CASE ReplaceSetInfo(t)
    BY <2>21 DEF ReplaceSetInfo
  <2> QED
    BY <2>1, <2>2, <2>3, <2>4, <2>5, <2>6, <2>7, <2>8, <2>9, <2>10, <2>11,
       <2>12, <2>13, <2>14, <2>15, <2>16, <2>17, <2>18, <2>19, <2>20, <2>21
       DEF AppStep
<1> QED BY <1>1, <1>3

(* Flush takes the block of a thread at rest, which then has none; nothing  *)
(* else that a command does touches a thread's block.                       *)
LEMMA CommandsKeepBlocks ==
    ASSUME OwnerInv, Enable \/ Disable \/ Flush \/ CommandStep \/ WorkerRuns
    PROVE  \A u \in AppThreads : BlockOf(u)'
<1>0. /\ ThreadTypes /\ CommandInv /\ (Collecting => AtRest)
      /\ \A u \in AppThreads : BlockOf(u)
  BY DEF OwnerInv, ListInv
<1> DEFINE Inside == etwPc \in {"flushEndTime", "flushClear", "flushMove", "flushMoved"}
<1> HIDE DEF Inside
<1>1. Inside <=> taking # NoThread
  BY <1>0 DEF CommandInv, Collecting, Inside
<1>2. ASSUME UNCHANGED <<info, current, appPc, local>>, ~Inside, ~Inside'
      PROVE  \A u \in AppThreads : BlockOf(u)'
  BY <1>0, <1>2 DEF BlockOf, HalfTaken, Inside
<1>3. CASE Enable \/ Disable
  BY <1>2, <1>3 DEF Enable, Disable, Switch, GoEtw, threadVars, Inside
<1>4. CASE Flush \/ FlushThreads
  BY <1>2, <1>4 DEF Flush, FlushThreads, GoEtw, threadVars, Inside
<1>5. CASE CallStart
  BY <1>2, <1>5 DEF CallStart, GoEtw, threadVars, Inside
<1>6. CASE CallStop
  BY <1>2, <1>6 DEF CallStop, GoEtw, threadVars, Inside
<1>7. CASE Return \/ FlushDone
  BY <1>2, <1>7 DEF Return, FlushDone, GoEtw, threadVars, Inside
<1>8. CASE FlushWrite
  BY <1>2, <1>8 DEF FlushWrite, threadVars, Inside
<1>9. CASE InCall \/ WorkerRuns
  <2>1. UNCHANGED <<info, current, appPc, local, etwPc, taking, flushed>>
    BY <1>9 DEF InCall, WorkerRuns, threadVars, commandVars
  <2> QED BY <1>0, <2>1 DEF BlockOf, HalfTaken
<1>10. ASSUME NEW t \in AppThreads, FlushThread(t) PROVE \A u \in AppThreads : BlockOf(u)'
  <2>1. /\ UNCHANGED <<info, current, appPc, local, flushed>> /\ taking' = t
        /\ etwPc = "flushThreads"
        /\ etwPc' = IF info[t].block # NoBlock THEN "flushEndTime" ELSE "flushMove"
    BY <1>10 DEF FlushThread, GoEtw, threadVars
  <2>2. Rests(t) /\ ~Inside
    BY <1>0, <2>1 DEF AtRest, Collecting, Inside
  <2>3. info[t].block = current[t]
    BY <1>0, <2>1, <2>2 DEF BlockOf, HalfTaken, Rests
  <2> QED
    BY <1>0, <2>1, <2>2, <2>3 DEF BlockOf, HalfTaken, Inside, Rests
<1>11. CASE CollectEndTime \/ CollectClear \/ CollectMove \/ CollectMoved
  <2>1. Inside
    BY <1>11 DEF CollectEndTime, CollectClear, CollectMove, CollectMoved, GoEtw, Inside
  <2>2. PICK t \in AppThreads : t = taking /\ Rests(t) /\ t # NoThread
    BY <1>0, <1>1, <2>1 DEF Collecting, AtRest, ThreadTypes, Inside
  <2>3. appPc[t] \in {"absent", "ready", "take", "unregister"}
    BY <2>2 DEF Rests
  <2>4. CASE CollectEndTime
    <3>1. /\ UNCHANGED <<info, current, appPc, local, flushed, taking>>
          /\ etwPc = "flushEndTime" /\ etwPc' = "flushClear"
      BY <2>4 DEF CollectEndTime, GoEtw, threadVars
    <3> QED BY <1>0, <3>1 DEF BlockOf, HalfTaken
  <2>5. CASE CollectClear
    <3>1. /\ UNCHANGED <<current, appPc, local, flushed, taking>>
          /\ info' = [info EXCEPT ![t] = NoInfo]
          /\ etwPc = "flushClear" /\ etwPc' = "flushMove"
      BY <2>5, <2>2 DEF CollectClear, GoEtw, InfoAfterFlush
    <3>2. /\ info'[t] = NoInfo
          /\ \A u \in AppThreads \ {t} : info'[u] = info[u]
      BY <1>0, <2>2, <3>1 DEF ThreadTypes
    <3>3. BlockOf(t)'
      BY <1>0, <2>2, <2>3, <3>1, <3>2 DEF BlockOf, HalfTaken, NoInfo
    <3>4. ASSUME NEW u \in AppThreads \ {t} PROVE BlockOf(u)'
      BY <1>0, <3>1, <3>2, <2>2 DEF BlockOf, HalfTaken
    <3> QED BY <3>3, <3>4
  <2>6. CASE CollectMove
    <3>1. /\ UNCHANGED <<info, current, appPc, local, taking>> /\ flushed' = current[t]
          /\ etwPc = "flushMove" /\ etwPc' = "flushMoved"
      BY <2>6, <2>2 DEF CollectMove, GoEtw, threadVars
    <3> QED BY <1>0, <3>1, <2>2 DEF BlockOf, HalfTaken
  <2>7. CASE CollectMoved
    <3>1. /\ UNCHANGED <<info, appPc, local>> /\ taking' = NoThread
          /\ current' = [current EXCEPT ![t] = NoBlock]
          /\ etwPc = "flushMoved" /\ etwPc' = "flushThreads"
      BY <2>7, <2>2 DEF CollectMoved, GoEtw, AfterMove
    <3>2. /\ current'[t] = NoBlock
          /\ \A u \in AppThreads \ {t} : current'[u] = current[u]
      BY <1>0, <2>2, <3>1 DEF ThreadTypes
    <3>3. BlockOf(t)'
      BY <1>0, <2>2, <2>3, <3>1, <3>2 DEF BlockOf, HalfTaken
    <3>4. ASSUME NEW u \in AppThreads \ {t} PROVE BlockOf(u)'
      BY <1>0, <3>1, <3>2, <2>2 DEF BlockOf, HalfTaken
    <3> QED BY <3>3, <3>4
  <2> QED BY <1>11, <2>4, <2>5, <2>6, <2>7
<1> QED
  BY <1>3, <1>4, <1>5, <1>6, <1>7, <1>8, <1>9, <1>10, <1>11 DEF CommandStep

LEMMA OwnerStep == OwnerInv /\ [RestNext]_vars => OwnerInv'
<1> SUFFICES ASSUME OwnerInv, [RestNext]_vars PROVE OwnerInv'
  OBVIOUS
<1>1. CASE UNCHANGED vars
  <2>1. ListInv'
    BY <1>1, ListStep DEF OwnerInv
  <2> QED
    BY <1>1, <2>1 DEF OwnerInv, BlockOf, HalfTaken, Collecting, AtRest, Rests, vars,
       commandVars, threadVars
<1>2. CASE RestNext
  <2>1. (Collecting => AtRest)' /\ ListInv' /\ ListInv /\ (Collecting => AtRest)
    BY <1>2, ListStep DEF RestNext, OwnerInv
  <2>2. ASSUME NEW t \in AppThreads, AppStep(t) PROVE OwnerInv'
    <3>1. ~Collecting
      BY <2>1, <2>2, ThreadsRest
    <3> QED
      BY <2>1, <2>2, <3>1, ThreadsKeepBlocks DEF OwnerInv
  <2>3. CASE Enable \/ Disable \/ Flush \/ CommandStep \/ WorkerRuns
    BY <2>1, <2>3, CommandsKeepBlocks DEF OwnerInv
  <2> QED BY <1>2, <2>2, <2>3 DEF RestNext, Next
<1> QED BY <1>1, <1>2

(* Blocks and thread infos agree in every reachable state, if Flush finds   *)
(* the threads at rest.                                                     *)
THEOREM BlocksAgree == RestSpec => []OwnerInv
BY OwnerInit, OwnerStep, PTL DEF RestSpec

(* With threads at rest while Flush collects their blocks, no thread writes *)
(* an event to a block that is not its own.                                 *)
THEOREM BlocksAreWrittenByTheirOwners == RestSpec => []WritesOwnBlock
<1>1. OwnerInv => WritesOwnBlock
  BY DEF OwnerInv, BlockOf, WritesOwnBlock
<1> QED BY <1>1, BlocksAgree, PTL

(* With threads at rest while Flush collects their blocks, the assertions   *)
(* of ThreadData.cpp hold for every Flush, skip and replacement.            *)
THEOREM AssertionsAreNeverViolated == RestSpec => []AssertionsHold
<1>1. OwnerInv => AssertionsHold
  <2> SUFFICES ASSUME OwnerInv PROVE AssertionsHold
    OBVIOUS
  <2>1. /\ ThreadTypes /\ CommandInv /\ (Collecting => AtRest)
        /\ \A t \in AppThreads : BlockOf(t)
    BY DEF OwnerInv, ListInv
  <2>2. ASSUME NEW t \in AppThreads,
               \/ appPc[t] = "flush"
               \/ etwPc = "flushThreads" /\ t \in todo /\ flushed = NoBlock
        PROVE  info[t].block # NoBlock <=> current[t] # NoBlock
    <3>1. appPc[t] \notin {"skipInfo", "move", "moved", "setInfo"}
      BY <2>1, <2>2 DEF Collecting, AtRest, Rests
    <3>2. ~HalfTaken(t)
      <4>1. CASE etwPc = "flushThreads"
        BY <4>1 DEF HalfTaken
      <4>2. CASE appPc[t] = "flush"
        BY <2>1, <4>2 DEF HalfTaken, Collecting, AtRest, Rests
      <4> QED BY <2>2, <4>1, <4>2
    <3>3. info[t].block = current[t]
      BY <2>1, <3>1, <3>2 DEF BlockOf
    <3> QED BY <3>3
  <2>3. etwPc = "flushEndTime" => current[taking] # NoBlock
    <3> SUFFICES ASSUME etwPc = "flushEndTime" PROVE current[taking] # NoBlock
      OBVIOUS
    <3>1. taking # NoThread
      BY <2>1 DEF CommandInv, Collecting
    <3>2. BlockOf(taking)
      BY <2>1, <3>1 DEF ThreadTypes
    <3> QED BY <3>2 DEF BlockOf
  <2>4. ASSUME NEW t \in AppThreads
        PROVE  /\ appPc[t] \in {"endTime", "setInfo"} => current[t] # NoBlock
               /\ appPc[t] = "allocate" => current[t] = NoBlock
    <3>1. BlockOf(t)
      BY <2>1
    <3> QED BY <3>1 DEF BlockOf
  <2> QED
    BY <2>2, <2>3, <2>4 DEF AssertionsHold
<1> QED BY <1>1, BlocksAgree, PTL
-----------------------------------------------------------------------------
\* The worker again, with what is proved of it.
Flow == INSTANCE ThreadedWorkerProofs WITH Threads <- Workers, NoThread <- NoWorker

(* Only a command calls Start and Stop, and has called Stop when it comes   *)
(* to the threads; only then it has a block in hand.                        *)
CallInv ==
    /\ control \in {"startJoin", "startRelock"} => etwPc = "starting"
    /\ control \in {"stopJoin", "stopRelock", "stopDrain"}
          => etwPc \in {"stopping", "flushStopping"}
    /\ etwPc = "flushStopping" /\ control = "idle" => worker = NoWorker
    /\ Collecting => worker = NoWorker
    /\ etwPc \notin {"flushThreads", "flushMoved"} => flushed = NoBlock

(* The blocks a thread has: its own, until the command has read it, and the *)
(* one it is about to hand over.                                            *)
InHand(t) ==
    ((IF etwPc = "flushMoved" /\ t = taking THEN {} ELSE {current[t]})
     \cup (IF appPc[t] \in {"moved", "take"} THEN {local[t]} ELSE {})) \ {NoBlock}
Hands == [t \in AppThreads |-> InHand(t)]
WithCommand == {flushed} \ {NoBlock}
WithWorker == Range(pending) \cup Range(back)
Done == Range(log) \cup dropped

(* Every block of inUse is in one of the other sets, and in only one, and   *)
(* these have no others.                                                    *)
OnePlace(hands, command, work, done, inUse) ==
    /\ \A t \in AppThreads :
          /\ hands[t] \subseteq inUse
          /\ hands[t] \cap (command \cup work \cup done) = {}
          /\ \A u \in AppThreads \ {t} : hands[t] \cap hands[u] = {}
    /\ command \cup work \cup done \subseteq inUse
    /\ command \cap (work \cup done) = {} /\ work \cap done = {}
    /\ \A b \in inUse \ (command \cup work \cup done) : \E t \in AppThreads : b \in hands[t]

(* Blocks are numbered in the order of their allocation.  A thread that     *)
(* hands a block over has one.                                              *)
Numbered ==
    /\ filler \in [Blocks -> AppThreads \cup {NoThread}]
    /\ \E n \in 0 .. MaxBlocks : used = 1 .. n
    /\ log \in Seq(Blocks) /\ dropped \subseteq Blocks
    /\ flushed \in Blocks \cup {NoBlock}
    /\ \A t \in AppThreads : appPc[t] = "take" => local[t] # NoBlock
    /\ Range(written) \subseteq Range(log)

PlaceInv ==
    /\ OwnerInv
    /\ Flow!SInv /\ Flow!ExactlyOnce
    /\ CallInv
    /\ Numbered
    /\ OnePlace(Hands, WithCommand, WithWorker, Done, used)
-----------------------------------------------------------------------------
\* The two instances of the worker are the same.
LEMMA SameWorker ==
    /\ TW!Init <=> Flow!Init
    /\ TW!SerialNext <=> Flow!SerialNext
  BY DEF TW!Init, Flow!Init,
     TW!SerialNext, TW!Next, TW!Start, TW!Stop, TW!Internal, TW!AddNew, TW!Add, TW!RequestStop,
     TW!NotifyAll, TW!Unlock, TW!DoStart, TW!ControlStep, TW!Join, TW!StartRelock,
     TW!StartNeeded, TW!StopRelock, TW!StopWrite, TW!StopReturn, TW!Drained, TW!WorkerStep,
     TW!WorkerEntry, TW!WorkerWrite, TW!WorkerWritten, TW!WorkerCheck, TW!SpuriousWake,
     TW!SwapBuffers, TW!MustWait, TW!RestartNeeded, TW!PushBack, TW!Range, TW!ctlVars,
     Flow!SerialNext, Flow!Next, Flow!Start, Flow!Stop, Flow!Internal, Flow!AddNew, Flow!Add,
     Flow!RequestStop, Flow!NotifyAll, Flow!Unlock, Flow!DoStart, Flow!ControlStep, Flow!Join,
     Flow!StartRelock, Flow!StartNeeded, Flow!StopRelock, Flow!StopWrite, Flow!StopReturn,
     Flow!Drained, Flow!WorkerStep, Flow!WorkerEntry, Flow!WorkerWrite, Flow!WorkerWritten,
     Flow!WorkerCheck, Flow!SpuriousWake, Flow!SwapBuffers, Flow!MustWait, Flow!RestartNeeded,
     Flow!PushBack, Flow!Range, Flow!ctlVars

LEMMA SameRange == ASSUME NEW s PROVE Flow!Range(s) = Range(s) /\ TW!Range(s) = Range(s)
  BY DEF Flow!Range, TW!Range, Range

\* A serialised call keeps what is proved of the worker.
LEMMA WorkerKeeps ==
    ASSUME Flow!SInv, Flow!ExactlyOnce, [TW!SerialNext]_workerVars
    PROVE  Flow!SInv' /\ Flow!ExactlyOnce'
<1>1. [Flow!SerialNext]_(Flow!vars) /\ [Flow!Next]_(Flow!vars)
  BY SameWorker DEF Flow!SerialNext, workerVars, Flow!vars
<1>2. Flow!IInv /\ Flow!JoinedAlone
  BY DEF Flow!SInv
<1> QED
  BY <1>1, <1>2, EtwAssumption, Flow!NextIInv, Flow!NextJoinedAlone, Flow!NextInOrder,
     Flow!NextExactlyOnce DEF Flow!SInv
-----------------------------------------------------------------------------
(* How a block changes places.                                              *)

\* A thread gives a block up.
LEMMA Given ==
    ASSUME NEW h, NEW c, NEW w, NEW d, NEW u, OnePlace(h, c, w, d, u),
           NEW t \in AppThreads, NEW b \in h[t],
           NEW h2, h2[t] = h[t] \ {b}, \A v \in AppThreads \ {t} : h2[v] = h[v]
    PROVE  /\ OnePlace(h2, c \cup {b}, w, d, u)
           /\ OnePlace(h2, c, w \cup {b}, d, u)
           /\ OnePlace(h2, c, w, d \cup {b}, u)
BY DEF OnePlace

\* A block is written.
LEMMA Written ==
    ASSUME NEW h, NEW c, NEW w, NEW d, NEW u, OnePlace(h, c, w, d, u)
    PROVE  /\ \A b \in c : OnePlace(h, c \ {b}, w, d \cup {b}, u)
           /\ \A b \in w : OnePlace(h, c, w \ {b}, d \cup {b}, u)
BY DEF OnePlace

\* A thread allocates a block.
LEMMA Allocated ==
    ASSUME NEW h, NEW c, NEW w, NEW d, NEW u, OnePlace(h, c, w, d, u),
           NEW t \in AppThreads, NEW b, b \notin u,
           NEW h2, h2[t] = h[t] \cup {b}, \A v \in AppThreads \ {t} : h2[v] = h[v]
    PROVE  OnePlace(h2, c, w, d, u \cup {b})
BY DEF OnePlace
-----------------------------------------------------------------------------
LEMMA PlaceFacts ==
    ASSUME PlaceInv
    PROVE  /\ ThreadTypes /\ Listed /\ CommandInv /\ (Collecting => AtRest)
           /\ \A t \in AppThreads : BlockOf(t)
BY DEF PlaceInv, OwnerInv, ListInv

LEMMA PlaceInit == Init => PlaceInv
<1> SUFFICES ASSUME Init PROVE PlaceInv
  OBVIOUS
<1>1. Flow!SInv /\ Flow!ExactlyOnce
  <2>1. Flow!Init
    BY SameWorker DEF Init
  <2>2. Flow!IInv /\ Flow!ExactlyOnce
    BY <2>1, EtwAssumption, Flow!InitIInv, Flow!InitExactlyOnce
  <2>3. <<>> \o <<>> = <<>>
    OBVIOUS
  <2> QED
    BY <2>1, <2>2, <2>3 DEF Flow!SInv, Flow!JoinedAlone, Flow!InOrder, Flow!Init
<1>2. CallInv
  BY DEF Init, TW!Init, CallInv, Collecting
<1>3. used = {}
  BY DEF Init, used
<1>4. Numbered
  <2>1. used = 1 .. 0 /\ 0 \in 0 .. MaxBlocks
    BY <1>3, EtwAssumption
  <2>2. Range(written) = {} /\ Range(log) = {}
    BY DEF Init, TW!Init, Range
  <2> QED
    BY <2>1, <2>2 DEF Init, Numbered
<1>5. Hands = [t \in AppThreads |-> {}] /\ WithCommand = {} /\ WithWorker = {} /\ Done = {}
  BY DEF Init, TW!Init, Hands, InHand, WithCommand, WithWorker, Done, Range
<1> QED
  BY <1>1, <1>2, <1>3, <1>4, <1>5, OwnerInit DEF PlaceInv, OnePlace

(* A thread hands over only what it has in hand, which was never added.     *)
LEMMA TakeAdds ==
    ASSUME PlaceInv, NEW t \in AppThreads, TakeBlock(t)
    PROVE  /\ local[t] \in InHand(t) /\ local[t] \in Blocks
           /\ local[t] \notin Range(added)
           /\ control = "idle"
           /\ TW!Add(local[t])
<1>1. /\ appPc[t] = "take" /\ etwPc = "idle"
      /\ TW!Add(local[t])
  BY DEF TakeBlock, LockFree
<1>2. local[t] \in InHand(t) /\ local[t] \in Blocks
  BY <1>1, PlaceFacts DEF PlaceInv, Numbered, ThreadTypes, InHand
<1>3. local[t] \notin WithWorker \cup Done
  BY <1>2 DEF PlaceInv, OnePlace, Hands
<1>4. Range(added) \subseteq WithWorker \cup Done
  BY SameRange DEF PlaceInv, Flow!ExactlyOnce, Numbered, WithWorker, Done
<1>5. control = "idle"
  BY <1>1 DEF PlaceInv, CallInv, Flow!SInv, Flow!IInv, Flow!TypeOK, Flow!Controls
<1> QED
  BY <1>1, <1>2, <1>3, <1>4, <1>5

(* Whatever is done is, for the worker, a serialised call or a step of its  *)
(* own.                                                                     *)
LEMMA SerialStep ==
    ASSUME PlaceInv, [Next]_vars
    PROVE  [TW!SerialNext]_workerVars
<1>1. CASE UNCHANGED vars
  BY <1>1 DEF vars
<1>2. ASSUME Next, NEW t \in AppThreads, TakeBlock(t)
      PROVE  TW!SerialNext
  BY <1>2, TakeAdds, SameRange DEF Next, TW!SerialNext, TW!Next, TW!AddNew
<1>3. ASSUME NEW t \in AppThreads, AppStep(t), ~TakeBlock(t)
      PROVE  UNCHANGED workerVars
  BY <1>3 DEF AppStep, Register, AddThread, Exit, Unregister, SkipEvent, SkipReset, SkipInfo,
     BeginEvent, FoundRoom, FoundNoRoom, Reread, Emit, FlushTest, FlushEndTime, FlushClear,
     FlushMove, FlushMoved, ReplaceAllocate, ReplaceFails, ReplaceSetInfo
<1>4. ASSUME Next, CallStart \/ CallStop PROVE [TW!SerialNext]_workerVars
  BY <1>4 DEF Next, CallStart, CallStop, TW!SerialNext, TW!Next, TW!Start, TW!Stop
<1>5. ASSUME Next, InCall PROVE TW!SerialNext
  <2>1. TW!ControlStep /\ ~terminated
    BY <1>5 DEF Next, InCall
  <2>2. added' = added
    BY <2>1 DEF TW!ControlStep, TW!Join, TW!StartRelock, TW!StopRelock, TW!StopWrite,
                TW!StopReturn
  <2> QED
    BY <2>1, <2>2 DEF TW!SerialNext, TW!Next, TW!Internal
<1>6. ASSUME Next, WorkerRuns PROVE TW!SerialNext
  <2>1. PICK w \in Workers : TW!WorkerStep(w) \/ TW!SpuriousWake(w)
    BY <1>6 DEF WorkerRuns
  <2>2. added' = added /\ ~terminated
    BY <1>6, <2>1 DEF Next, TW!WorkerStep, TW!WorkerEntry, TW!WorkerWrite, TW!WorkerWritten,
                      TW!WorkerCheck, TW!SpuriousWake
  <2> QED
    BY <2>1, <2>2 DEF TW!SerialNext, TW!Next, TW!Internal
<1>7. ASSUME Enable \/ Disable \/ Flush \/ Return \/ FlushThreads \/ FlushWrite \/ FlushDone
      PROVE  UNCHANGED workerVars
  BY <1>7 DEF Enable, Disable, Switch, Flush, Return, FlushThreads, FlushWrite, FlushDone
<1>8. ASSUME \/ \E t \in AppThreads : FlushThread(t)
             \/ CollectEndTime \/ CollectClear \/ CollectMove \/ CollectMoved
      PROVE  UNCHANGED workerVars
  BY <1>8 DEF FlushThread, CollectEndTime, CollectClear, CollectMove, CollectMoved
<1> QED
  BY <1>1, <1>2, <1>3, <1>4, <1>5, <1>6, <1>7, <1>8 DEF Next, CommandStep
-----------------------------------------------------------------------------
(* A thread does not touch what another has in hand.                        *)
LEMMA HandsOfOthers ==
    ASSUME ThreadTypes, NEW t \in AppThreads, AppStep(t)
    PROVE  \A u \in AppThreads \ {t} :
              /\ InHand(u)' = InHand(u)
              /\ appPc'[u] = appPc[u] /\ current'[u] = current[u] /\ local'[u] = local[u]
BY ThreadFrame DEF InHand

\* Outside the collection of a Flush a thread has what it says it has.
LEMMA HandsUncollected ==
    ASSUME ~Collecting, NEW t \in AppThreads
    PROVE  InHand(t) = ({current[t]} \cup (IF appPc[t] \in {"moved", "take"} THEN {local[t]}
                                           ELSE {})) \ {NoBlock}
BY DEF InHand, Collecting

(* Most steps of a thread leave its blocks where they are, also the one     *)
(* that moves its own to where it can be handed over.                       *)
LEMMA ThreadKeepsPlaces ==
    ASSUME PlaceInv, ~Collecting, NEW t \in AppThreads, AppStep(t),
           ~SkipReset(t), ~TakeBlock(t), ~ReplaceAllocate(t)
    PROVE  /\ UNCHANGED <<pending, back, written, log, dropped, filler, flushed>>
           /\ InHand(t)' = InHand(t)
           /\ appPc'[t] = "take" => local'[t] # NoBlock
<1>0. /\ ThreadTypes /\ BlockOf(t)
      /\ appPc[t] = "take" => local[t] # NoBlock
      /\ UNCHANGED <<etwPc, flushed>>
  BY PlaceFacts, ThreadFrame DEF PlaceInv, Numbered
<1>1. UNCHANGED <<pending, back, written, log, dropped, filler>>
  BY DEF AppStep, Register, AddThread, Exit, Unregister, SkipEvent, SkipInfo, BeginEvent,
     FoundRoom, FoundNoRoom, Reread, Emit, FlushTest, FlushEndTime, FlushClear, FlushMove,
     FlushMoved, ReplaceFails, ReplaceSetInfo, workerVars, blockVars, historyVars
<1>2. ~Collecting'
  BY <1>0 DEF Collecting
<1> DEFINE Hand == ({current[t]} \cup (IF appPc[t] \in {"moved", "take"} THEN {local[t]}
                                       ELSE {})) \ {NoBlock}
<1>3. Hand' = Hand /\ (appPc'[t] = "take" => local'[t] # NoBlock)
  <2> USE <1>0 DEF ThreadTypes, AppPcs, Go, threadVars
  <2>1. CASE FlushMove(t)
    BY <2>1 DEF FlushMove
  <2>2. CASE FlushMoved(t)
    BY <2>2 DEF FlushMoved, AfterMove, BlockOf, Resume
  <2>3. CASE FoundRoom(t) \/ Reread(t) \/ Emit(t)
    BY <2>3 DEF FoundRoom, Reread, Emit
  <2>4. CASE /\ ~FlushMove(t) /\ ~FlushMoved(t)
             /\ ~FoundRoom(t) /\ ~Reread(t) /\ ~Emit(t)
    <3>1. /\ current' = current /\ local' = local
          /\ appPc[t] \notin {"moved", "take"} /\ appPc'[t] \notin {"moved", "take"}
      BY <2>4 DEF AppStep, Register, AddThread, Exit, Unregister, SkipEvent, SkipInfo,
         BeginEvent, FoundNoRoom, FlushTest, FlushEndTime, FlushClear, ReplaceFails,
         ReplaceSetInfo
    <3> QED BY <3>1
  <2> QED BY <2>1, <2>2, <2>3, <2>4
<1> HIDE DEF Hand
<1>4. InHand(t) = Hand /\ InHand(t)' = Hand'
  BY <1>2, HandsUncollected DEF Hand, InHand, Collecting
<1> QED
  BY <1>0, <1>1, <1>3, <1>4

LEMMA SkipFrees ==
    ASSUME PlaceInv, ~Collecting, NEW t \in AppThreads, SkipReset(t)
    PROVE  Numbered' /\ OnePlace(Hands, WithCommand, WithWorker, Done, used)'
<1>0. ThreadTypes /\ Numbered /\ OnePlace(Hands, WithCommand, WithWorker, Done, used)
  BY PlaceFacts DEF PlaceInv
<1>1. /\ UNCHANGED <<pending, back, written, log, filler, flushed, local, etwPc, taking>>
      /\ current' = [current EXCEPT ![t] = NoBlock]
      /\ dropped' = dropped \cup ({current[t]} \ {NoBlock})
      /\ appPc[t] = "skip" /\ appPc' = [appPc EXCEPT ![t] = "skipInfo"]
      /\ etwPc # "flushMoved"
  BY DEF SkipReset, Go, Collecting, workerVars, blockVars, commandVars
<1>2. Numbered'
  BY <1>0, <1>1 DEF used, Numbered, ThreadTypes
<1>3. used' = used /\ WithCommand' = WithCommand /\ WithWorker' = WithWorker
      /\ Done' = Done \cup ({current[t]} \ {NoBlock})
  BY <1>1 DEF used, WithCommand, WithWorker, Done
<1>4. /\ Hands[t] = {current[t]} \ {NoBlock} /\ Hands'[t] = {}
      /\ \A u \in AppThreads \ {t} : Hands'[u] = Hands[u]
  BY <1>0, <1>1 DEF Hands, InHand, ThreadTypes
<1>5. CASE current[t] = NoBlock
  BY <1>0, <1>2, <1>3, <1>4, <1>5 DEF OnePlace
<1>6. CASE current[t] # NoBlock
  <2> DEFINE b == current[t]
  <2>1. b \in Hands[t] /\ Hands'[t] = Hands[t] \ {b} /\ Done' = Done \cup {b}
    BY <1>3, <1>4, <1>6
  <2> HIDE DEF b
  <2>2. OnePlace(Hands, WithCommand, WithWorker, Done, used)
    BY <1>0
  <2>3. OnePlace(Hands', WithCommand, WithWorker, Done \cup {b}, used)
    BY ONLY <1>4, <2>1, <2>2, Given, t \in AppThreads
  <2> QED
    BY <1>2, <1>3, <2>1, <2>3
<1> QED
  BY <1>5, <1>6

LEMMA TakeHandsOver ==
    ASSUME PlaceInv, NEW t \in AppThreads, TakeBlock(t)
    PROVE  Numbered' /\ OnePlace(Hands, WithCommand, WithWorker, Done, used)'
<1> DEFINE b == local[t]
<1>0. ThreadTypes /\ Numbered /\ BlockOf(t)
  BY PlaceFacts DEF PlaceInv
<1>1. /\ UNCHANGED <<back, written, log, dropped, filler, flushed, current, etwPc, taking>>
      /\ local' = [local EXCEPT ![t] = NoBlock]
      /\ appPc[t] = "take" /\ etwPc = "idle"
      /\ \E next \in {"allocate", "unregister"} : appPc' = [appPc EXCEPT ![t] = next]
      /\ pending' = Append(pending, b)
  BY DEF TakeBlock, Resume, LockFree, Go, TW!Add, TW!PushBack, commandVars, blockVars,
         historyVars
<1>2. Numbered'
  BY <1>0, <1>1 DEF Numbered, ThreadTypes, used
<1>3. b \in Blocks /\ b # NoBlock /\ current[t] = NoBlock
  BY <1>0, <1>1, TakeAdds, NullIsNoBlock DEF BlockOf
<1>4. /\ b \in Hands[t] /\ Hands'[t] = Hands[t] \ {b}
      /\ \A u \in AppThreads \ {t} : Hands'[u] = Hands[u]
  BY <1>0, <1>1, <1>3 DEF Hands, InHand, ThreadTypes
<1>5. Range(pending') = Range(pending) \cup {b}
  <2>1. pending \in Seq(Blocks)
    BY DEF PlaceInv, Flow!SInv, Flow!IInv, Flow!TypeOK
  <2> HIDE DEF b
  <2>2. Flow!Range(Append(pending, b)) = Flow!Range(pending) \cup {b}
    BY <1>3, <2>1, EtwAssumption, Flow!AppendElements
  <2> QED
    BY <1>1, <2>2, SameRange
<1>6. used' = used /\ WithCommand' = WithCommand /\ Done' = Done
      /\ WithWorker' = WithWorker \cup {b}
  BY <1>1, <1>5 DEF used, WithCommand, Done, WithWorker
<1> HIDE DEF b
<1>7. OnePlace(Hands', WithCommand, WithWorker \cup {b}, Done, used)
  BY <1>4, Given DEF PlaceInv
<1> QED
  BY <1>2, <1>6, <1>7

LEMMA AllocateTakesNew ==
    ASSUME PlaceInv, ~Collecting, NEW t \in AppThreads, ReplaceAllocate(t)
    PROVE  /\ \E n \in 0 .. MaxBlocks : used = 1 .. n /\ current'[t] = n + 1
           /\ filler' = [filler EXCEPT ![current'[t]] = t]
           /\ Numbered' /\ OnePlace(Hands, WithCommand, WithWorker, Done, used)'
<1>0. ThreadTypes /\ Numbered /\ OnePlace(Hands, WithCommand, WithWorker, Done, used)
  BY PlaceFacts DEF PlaceInv
<1> USE <1>0 DEF Numbered, ThreadTypes
<1>1. PICK n \in 0 .. MaxBlocks : used = 1 .. n
  OBVIOUS
<1>2. Cardinality(used) = n
  BY <1>1, FS_Interval
<1> DEFINE b == n + 1
<1>3. /\ UNCHANGED <<pending, back, written, log, dropped, flushed, local, etwPc, taking>>
      /\ etwPc # "flushMoved" /\ b \in Blocks
      /\ filler' = [filler EXCEPT ![b] = t]
      /\ current' = [current EXCEPT ![t] = b]
      /\ appPc[t] = "allocate" /\ appPc' = [appPc EXCEPT ![t] = "setInfo"]
  BY <1>2 DEF ReplaceAllocate, Go, Collecting, workerVars, historyVars, commandVars
<1>4. used' = used \cup {b} /\ b \notin used
  <2>1. b \notin used /\ t # NoThread
    BY <1>1, EtwAssumption
  <2>2. \A c \in Blocks : filler'[c] = IF c = b THEN t ELSE filler[c]
    BY <1>3
  <2> HIDE DEF b
  <2> QED
    BY <1>3, <2>1, <2>2 DEF used
<1>5. used' = 1 .. n + 1 /\ n + 1 \in 0 .. MaxBlocks
  BY <1>1, <1>3, <1>4 DEF Blocks
<1>6. Numbered'
  BY <1>3, <1>5
<1>7. current[t] = NoBlock /\ b # NoBlock
  BY <1>3, NullIsNoBlock, PlaceFacts DEF BlockOf
<1>8. /\ Hands'[t] = Hands[t] \cup {b}
      /\ \A u \in AppThreads \ {t} : Hands'[u] = Hands[u]
  BY <1>3, <1>7 DEF Hands, InHand
<1>9. WithCommand' = WithCommand /\ WithWorker' = WithWorker /\ Done' = Done
  BY <1>3 DEF WithCommand, WithWorker, Done
<1>10. current'[t] = b
  BY <1>3
<1>11. OnePlace(Hands', WithCommand, WithWorker, Done, used \cup {b})
  BY <1>4, <1>8, Allocated
<1> QED
  BY <1>1, <1>3, <1>4, <1>6, <1>9, <1>10, <1>11
-----------------------------------------------------------------------------
(* The head of one of the worker's buffers is written.                      *)
LEMMA HeadIsWritten ==
    ASSUME PlaceInv, NEW s \in Seq(Blocks), s # <<>>, NEW other,
           WithWorker = Range(s) \cup other, WithWorker' = Range(Tail(s)) \cup other,
           Flow!IsInjective(s), Range(s) \cap other = {},
           written' = Append(written, Head(s)), LogWritten
    PROVE  \E b \in WithWorker :
              /\ b \in Blocks
              /\ WithWorker' = WithWorker \ {b}
              /\ log' = Append(log, b)
              /\ Range(written') = Range(written) \cup {b}
<1> DEFINE b == Head(s)
<1>1. /\ b \in Blocks
      /\ Range(s) = {b} \cup Range(Tail(s)) /\ b \notin Range(Tail(s))
  BY EtwAssumption, Flow!HeadTailElements, SameRange
<1>2. b \notin other /\ b \in WithWorker /\ WithWorker' = WithWorker \ {b}
  BY <1>1
<1>3. written \in Seq(Blocks)
  BY DEF PlaceInv, Flow!SInv, Flow!IInv, Flow!TypeOK
<1> HIDE DEF b
<1>4. Range(Append(written, b)) = Range(written) \cup {b}
  <2>1. Flow!Range(Append(written, b)) = Flow!Range(written) \cup {b}
    BY <1>1, <1>3, EtwAssumption, Flow!AppendElements
  <2> QED
    BY <2>1, SameRange
<1>5. written' = Append(written, b)
  BY DEF b
<1>6. log' = Append(log, b)
  <2>1. written' # written /\ written'[Len(written')] = b
    BY <1>1, <1>3, <1>5, AppendProperties
  <2> QED
    BY <2>1 DEF LogWritten
<1> QED
  BY <1>1, <1>2, <1>4, <1>5, <1>6

(* What a step of the worker or of Start and Stop does to the blocks.       *)
LEMMA WorkerMoves ==
    ASSUME PlaceInv, [TW!SerialNext]_workerVars, added' = added, LogWritten
    PROVE  \/ /\ WithWorker' = WithWorker
              /\ log' = log /\ written' = written
           \/ \E b \in WithWorker :
                 /\ b \in Blocks
                 /\ WithWorker' = WithWorker \ {b}
                 /\ log' = Append(log, b)
                 /\ Range(written') = Range(written) \cup {b}
<1>1. [Flow!Next]_(Flow!vars)
  BY SameWorker DEF Flow!SerialNext, workerVars, Flow!vars
<1>2. /\ pending \in Seq(Blocks) /\ back \in Seq(Blocks)
      /\ added \in Seq(Blocks) /\ written \in Seq(Blocks)
  BY DEF PlaceInv, Flow!SInv, Flow!IInv, Flow!TypeOK
<1>3. /\ Flow!IsInjective(pending) /\ Flow!IsInjective(back)
      /\ Range(pending) \cap Range(back) = {}
  BY SameRange DEF PlaceInv, Flow!ExactlyOnce
<1>4. CASE Flow!Adding
  <2>1. PICK b \in Blocks : added' = Append(added, b)
    BY <1>4 DEF Flow!Adding
  <2> QED
    BY <1>2, <2>1, AppendProperties
<1>5. CASE Flow!Draining
  <2>1. /\ pending # <<>> /\ pending' = Tail(pending) /\ back' = back
        /\ written' = Append(written, Head(pending))
    BY <1>5 DEF Flow!Draining
  <2> QED
    BY <1>2, <1>3, <2>1, HeadIsWritten DEF WithWorker
<1>6. CASE Flow!Writing
  <2>1. /\ back # <<>> /\ back' = Tail(back) /\ pending' = pending
        /\ written' = Append(written, Head(back))
    BY <1>6 DEF Flow!Writing
  <2> QED
    BY <1>2, <1>3, <2>1, HeadIsWritten DEF WithWorker
<1>7. CASE Flow!Swapping
  BY <1>7 DEF Flow!Swapping, WithWorker, LogWritten
<1>8. CASE Flow!Resting
  BY <1>8 DEF Flow!Resting, WithWorker, LogWritten
<1> QED
  BY <1>1, <1>4, <1>5, <1>6, <1>7, <1>8, EtwAssumption, Flow!BlockSteps
     DEF PlaceInv, Flow!SInv

LEMMA LogGrows ==
    ASSUME PlaceInv, NEW b \in Blocks
    PROVE  /\ Append(log, b) \in Seq(Blocks)
           /\ Range(Append(log, b)) = Range(log) \cup {b}
<1>1. log \in Seq(Blocks)
  BY DEF PlaceInv, Numbered
<1> QED
  BY <1>1, EtwAssumption, Flow!AppendElements, SameRange

LEMMA WorkerPlaces ==
    ASSUME PlaceInv, [TW!SerialNext]_workerVars, InCall \/ WorkerRuns
    PROVE  Numbered' /\ OnePlace(Hands, WithCommand, WithWorker, Done, used)'
<1>1. /\ LogWritten
      /\ UNCHANGED <<commandVars, threadVars, blockVars, dropped>>
  BY DEF InCall, WorkerRuns
<1>2. added' = added
  BY DEF InCall, WorkerRuns, TW!ControlStep, TW!Join, TW!StartRelock, TW!StopRelock,
     TW!StopWrite, TW!StopReturn, TW!WorkerStep, TW!WorkerEntry, TW!WorkerWrite,
     TW!WorkerWritten, TW!WorkerCheck, TW!SpuriousWake
<1>3. /\ UNCHANGED <<filler, flushed, current, appPc, local, dropped>>
      /\ used' = used /\ Hands' = Hands /\ WithCommand' = WithCommand
  BY <1>1 DEF commandVars, threadVars, blockVars, used, Hands, InHand, WithCommand
<1>4. CASE /\ WithWorker' = WithWorker
           /\ log' = log /\ written' = written
  <2>1. Done' = Done
    BY <1>3, <1>4 DEF Done
  <2> QED
    BY <1>3, <1>4, <2>1 DEF PlaceInv, Numbered
<1>5. ASSUME NEW b \in WithWorker, b \in Blocks,
             WithWorker' = WithWorker \ {b},
             log' = Append(log, b),
             Range(written') = Range(written) \cup {b}
      PROVE  Numbered' /\ OnePlace(Hands, WithCommand, WithWorker, Done, used)'
  <2>1. log' \in Seq(Blocks) /\ Range(log') = Range(log) \cup {b}
    BY <1>5, LogGrows
  <2>2. Done' = Done \cup {b}
    BY <1>3, <2>1 DEF Done
  <2>3. Numbered'
    BY <1>3, <1>5, <2>1 DEF PlaceInv, Numbered
  <2>4. OnePlace(Hands, WithCommand, WithWorker \ {b}, Done \cup {b}, used)
    BY <1>5, Written DEF PlaceInv
  <2> QED
    BY <1>3, <1>5, <2>2, <2>3, <2>4
<1> QED
  BY <1>1, <1>2, <1>4, <1>5, WorkerMoves

\* The thread whose block the command takes is at rest.
LEMMA TakenThread ==
    ASSUME PlaceInv, CollectMove
    PROVE  \E t \in AppThreads : t = taking /\ Rests(t) /\ BlockOf(t)
<1>1. Collecting /\ etwPc # "flushThreads"
  BY DEF Collecting, CollectMove, GoEtw
<1>2. taking \in AppThreads /\ AtRest
  BY <1>1, PlaceFacts DEF CommandInv, ThreadTypes
<1> QED
  BY <1>2, PlaceFacts DEF AtRest

(* Most steps of a command leave every block where it is.                   *)
LEMMA CommandsKeepPlaces ==
    ASSUME PlaceInv, Enable \/ Disable \/ Flush \/ CommandStep, ~InCall, ~FlushWrite,
           ~CollectMove
    PROVE  /\ UNCHANGED <<pending, back, written, log, dropped, filler, flushed, appPc, local>>
           /\ Hands' = Hands
<1>0. /\ UNCHANGED <<appPc, local, filler, log, dropped, flushed>>
      /\ UNCHANGED <<pending, back, written>>
  <2>1. CASE Enable \/ Disable \/ Flush \/ Return \/ FlushThreads \/ FlushDone
    BY <2>1 DEF Enable, Disable, Switch, Flush, Return, FlushThreads, FlushDone,
                workerVars, threadVars, blockVars, historyVars
  <2>2. CASE CallStart \/ CallStop
    BY <2>2 DEF CallStart, CallStop, TW!Start, TW!Stop, workerVars, threadVars, blockVars,
                historyVars
  <2>3. CASE \/ \E t \in AppThreads : FlushThread(t)
             \/ CollectEndTime \/ CollectClear \/ CollectMoved
    BY <2>3 DEF FlushThread, CollectEndTime, CollectClear, CollectMoved, workerVars,
                threadVars, blockVars, historyVars
  <2> QED BY <2>1, <2>2, <2>3 DEF CommandStep
<1>1. CASE CollectMoved
  <2>1. PICK t \in AppThreads : t = taking /\ ThreadTypes
    BY <1>1, PlaceFacts DEF CommandInv, ThreadTypes, Collecting, CollectMoved, GoEtw
  <2>2. /\ current' = [current EXCEPT ![t] = NoBlock]
        /\ etwPc = "flushMoved" /\ etwPc' = "flushThreads"
    BY <1>1, <2>1 DEF CollectMoved, GoEtw, AfterMove
  <2>3. \A u \in AppThreads : InHand(u)' = InHand(u)
    BY <1>0, <2>1, <2>2 DEF InHand, ThreadTypes
  <2> QED BY <1>0, <2>3, Zenon DEF Hands
<1>2. CASE ~CollectMoved
  <2>1. current' = current /\ etwPc # "flushMoved" /\ etwPc' # "flushMoved"
    <3>1. CASE Enable \/ Disable \/ Flush \/ Return \/ FlushThreads \/ FlushDone
      BY <3>1 DEF Enable, Disable, Switch, Flush, Return, FlushThreads, FlushDone, GoEtw,
                  threadVars
    <3>2. CASE CallStart \/ CallStop
      BY <3>2 DEF CallStart, CallStop, GoEtw, threadVars
    <3>3. CASE (\E t \in AppThreads : FlushThread(t)) \/ CollectEndTime \/ CollectClear
      BY <3>3 DEF FlushThread, CollectEndTime, CollectClear, GoEtw, threadVars
    <3> QED BY <1>2, <3>1, <3>2, <3>3 DEF CommandStep
  <2>2. \A u \in AppThreads : InHand(u)' = InHand(u)
    BY <1>0, <2>1 DEF InHand
  <2> QED BY <1>0, <2>2, Zenon DEF Hands
<1> QED BY <1>1, <1>2

(* The command takes the blocks of the threads and writes them.             *)
LEMMA CommandPlaces ==
    ASSUME PlaceInv, Enable \/ Disable \/ Flush \/ CommandStep, ~InCall
    PROVE  Numbered' /\ OnePlace(Hands, WithCommand, WithWorker, Done, used)'
<1>1. CASE ~FlushWrite /\ ~CollectMove
  <2>1. /\ UNCHANGED <<pending, back, written, log, dropped, filler, flushed, appPc, local>>
        /\ Hands' = Hands
    BY <1>1, CommandsKeepPlaces
  <2>2. /\ used' = used /\ WithCommand' = WithCommand
        /\ WithWorker' = WithWorker /\ Done' = Done
    BY <2>1 DEF used, WithCommand, WithWorker, Done
  <2> QED
    BY <2>1, <2>2 DEF PlaceInv, Numbered
<1>2. CASE CollectMove
  <2>0. ThreadTypes /\ Numbered /\ CallInv
    BY PlaceFacts DEF PlaceInv
  <2>1. PICK t \in AppThreads : t = taking /\ Rests(t) /\ BlockOf(t)
    BY <1>2, TakenThread
  <2> DEFINE b == current[t]
  <2>2. /\ UNCHANGED <<pending, back, written, log, dropped, filler, current, appPc, local,
                       taking>>
        /\ etwPc = "flushMove" /\ etwPc' = "flushMoved"
        /\ flushed = NoBlock /\ flushed' = b
    BY <1>2, <2>0, <2>1 DEF CollectMove, GoEtw, CallInv, workerVars, threadVars, blockVars,
                historyVars
  <2>3. b \in Blocks \cup {NoBlock} /\ Numbered'
    BY <2>0, <2>2 DEF Numbered, ThreadTypes, used
  <2>4. /\ used' = used /\ WithWorker' = WithWorker /\ Done' = Done
        /\ WithCommand = {} /\ WithCommand' = {b} \ {NoBlock}
    BY <2>2 DEF used, WithCommand, WithWorker, Done
  <2>5. OnePlace(Hands, WithCommand, WithWorker, Done, used)
    BY DEF PlaceInv
  <2>6. \A u \in AppThreads \ {t} : Hands'[u] = Hands[u]
    BY <2>1, <2>2 DEF Hands, InHand
  <2>7. CASE b = NoBlock
    <3>1. Hands'[t] = Hands[t]
      BY <2>1, <2>2, <2>7 DEF Hands, InHand
    <3>2. Hands' = Hands
      BY <2>6, <3>1 DEF Hands
    <3> QED
      BY <2>3, <2>4, <2>5, <2>7, <3>2
  <2>8. CASE b # NoBlock
    <3>1. appPc[t] \notin {"take", "moved"}
      BY <2>1, <2>8 DEF Rests, BlockOf
    <3>2. b \in Hands[t] /\ Hands'[t] = Hands[t] \ {b}
      BY <2>1, <2>2, <2>8, <3>1 DEF Hands, InHand
    <3>3. WithCommand' = WithCommand \cup {b}
      BY <2>4, <2>8
    <3> HIDE DEF b
    <3>4. OnePlace(Hands', WithCommand \cup {b}, WithWorker, Done, used)
      BY <2>5, <2>6, <3>2, Given
    <3> QED
      BY <2>3, <2>4, <3>3, <3>4
  <2> QED
    BY <2>7, <2>8
<1>3. CASE FlushWrite
  <2> DEFINE b == flushed
  <2>1. /\ UNCHANGED <<pending, back, written, dropped, filler, current, appPc, local, etwPc,
                       taking>>
        /\ b # NoBlock /\ log' = Append(log, b) /\ flushed' = NoBlock
    BY <1>3 DEF FlushWrite, workerVars, threadVars, blockVars
  <2>2. b \in Blocks /\ WithCommand = {b} /\ WithCommand' = WithCommand \ {b}
    BY <2>1 DEF PlaceInv, Numbered, WithCommand
  <2>3. log' \in Seq(Blocks) /\ Range(log') = Range(log) \cup {b}
    BY <2>1, <2>2, LogGrows
  <2>4. Numbered'
    BY <2>1, <2>3 DEF PlaceInv, Numbered, used
  <2>5. /\ used' = used /\ Hands' = Hands /\ WithWorker' = WithWorker
        /\ Done' = Done \cup {b}
    BY <2>1, <2>3 DEF used, Hands, InHand, WithWorker, Done
  <2>6. OnePlace(Hands, WithCommand \ {b}, WithWorker, Done \cup {b}, used)
    BY <2>2, Written DEF PlaceInv
  <2> QED
    BY <2>2, <2>4, <2>5, <2>6
<1> QED
  BY <1>1, <1>2, <1>3 DEF CommandStep
-----------------------------------------------------------------------------
(* Where a command is in its calls of the worker.                           *)
LEMMA CallsKeepOrder ==
    ASSUME PlaceInv, Next
    PROVE  CallInv'
<1>0. CallInv /\ Flow!JoinedAlone /\ control \in Flow!Controls
  BY DEF PlaceInv, Flow!SInv, Flow!IInv, Flow!TypeOK
<1> HIDE DEF CallInv
<1>1. ASSUME NEW t \in AppThreads, AppStep(t) PROVE CallInv'
  <2>1. UNCHANGED <<etwPc, flushed>>
    BY <1>1, PlaceFacts, ThreadFrame
  <2>2. \/ UNCHANGED <<control, worker>>
        \/ etwPc = "idle" /\ control' = control
    BY <1>1 DEF AppStep, Register, AddThread, Exit, Unregister, SkipEvent, SkipReset,
       SkipInfo, BeginEvent, FoundRoom, FoundNoRoom, Reread, Emit, FlushTest, FlushEndTime,
       FlushClear, FlushMove, FlushMoved, TakeBlock, ReplaceAllocate, ReplaceFails,
       ReplaceSetInfo, LockFree, TW!Add, workerVars
  <2> QED
    BY <1>0, <2>1, <2>2 DEF CallInv, Collecting
<1>2. CASE Enable \/ Disable \/ Flush \/ Return
  <2>1. /\ UNCHANGED <<flushed, control, worker>>
        /\ etwPc \in {"idle", "starting", "stopping"}
        /\ etwPc' \in {"idle", "start", "stop", "flushStop"}
        /\ etwPc # "idle" => control = "idle"
    BY <1>2 DEF Enable, Disable, Switch, Flush, Return, GoEtw, workerVars
  <2> QED BY <1>0, <2>1 DEF CallInv, Collecting, Flow!Controls
<1>3. CASE FlushThreads \/ FlushDone
  <2>1. /\ UNCHANGED <<flushed, control, worker>>
        /\ \/ etwPc = "flushStopping" /\ etwPc' = "flushThreads" /\ control = "idle"
           \/ etwPc = "flushThreads" /\ etwPc' = "idle" /\ flushed = NoBlock
    BY <1>3 DEF FlushThreads, FlushDone, GoEtw, workerVars
  <2> QED BY <1>0, <2>1 DEF CallInv, Collecting
<1>4. CASE FlushWrite
  <2>1. /\ UNCHANGED <<etwPc, control, worker>> /\ flushed' = NoBlock
    BY <1>4 DEF FlushWrite, workerVars
  <2> QED BY <1>0, <2>1 DEF CallInv, Collecting
<1>5. CASE CallStart
  <2>1. /\ etwPc = "start" /\ etwPc' = "starting" /\ flushed' = flushed
        /\ control' \in {"idle", "startJoin", "startRelock"}
    BY <1>0, <1>5 DEF CallStart, CallInv, TW!Start, TW!RequestStop, GoEtw
  <2> QED BY <1>0, <2>1 DEF CallInv, Collecting
<1>6. CASE CallStop
  <2>1. /\ \/ etwPc = "stop" /\ etwPc' = "stopping"
           \/ etwPc = "flushStop" /\ etwPc' = "flushStopping"
        /\ flushed' = flushed
        /\ \/ control' = "stopJoin"
           \/ worker = NoWorker /\ UNCHANGED <<worker, control>>
    BY <1>0, <1>6 DEF CallStop, TW!Stop, TW!RequestStop, GoEtw, workerVars
  <2> QED BY <1>0, <2>1 DEF CallInv, Collecting, Flow!Controls
<1>7. CASE InCall
  <2>1. UNCHANGED <<etwPc, flushed>> /\ control # "idle"
    BY <1>7 DEF InCall, TW!ControlStep, TW!Join, TW!StartRelock, TW!StopRelock,
       TW!StopWrite, TW!StopReturn, commandVars
  <2>2. \/ /\ control \in {"startJoin", "startRelock"}
           /\ control' \in {"idle", "startJoin", "startRelock"}
        \/ /\ control \in {"stopJoin", "stopRelock", "stopDrain"}
           /\ control' \in {"stopJoin", "stopRelock", "stopDrain"}
        \/ control = "stopDrain" /\ control' = "idle" /\ worker' = NoWorker
    BY <1>0, <1>7 DEF InCall, TW!ControlStep, TW!Join, TW!StartRelock, TW!StopRelock,
       TW!StopWrite, TW!StopReturn, TW!ctlVars, Flow!JoinedAlone
  <2> QED BY <1>0, <2>1, <2>2 DEF CallInv, Collecting
<1>8. CASE WorkerRuns
  <2>1. UNCHANGED <<etwPc, flushed, control, worker>>
    BY <1>8 DEF WorkerRuns, TW!WorkerStep, TW!WorkerEntry, TW!WorkerWrite,
       TW!WorkerWritten, TW!WorkerCheck, TW!SpuriousWake, TW!ctlVars, commandVars
  <2> QED BY <1>0, <2>1 DEF CallInv, Collecting
<1>9. CASE \E t \in AppThreads : FlushThread(t)
  <2>1. /\ UNCHANGED <<flushed, control, worker>> /\ flushed = NoBlock
        /\ etwPc = "flushThreads" /\ etwPc' \in {"flushEndTime", "flushMove"}
    BY <1>9 DEF FlushThread, GoEtw, workerVars
  <2> QED BY <1>0, <2>1 DEF CallInv, Collecting
<1>10. CASE CollectEndTime \/ CollectClear
  <2>1. /\ UNCHANGED <<flushed, control, worker>>
        /\ etwPc \in {"flushEndTime", "flushClear"} /\ etwPc' \in {"flushClear", "flushMove"}
    BY <1>10 DEF CollectEndTime, CollectClear, GoEtw, workerVars
  <2> QED BY <1>0, <2>1 DEF CallInv, Collecting
<1>11. CASE CollectMove \/ CollectMoved
  <2>1. /\ UNCHANGED <<control, worker>>
        /\ etwPc \in {"flushMove", "flushMoved"} /\ etwPc' \in {"flushMoved", "flushThreads"}
    BY <1>11 DEF CollectMove, CollectMoved, GoEtw, workerVars
  <2> QED BY <1>0, <2>1 DEF CallInv, Collecting
<1> QED
  BY <1>1, <1>2, <1>3, <1>4, <1>5, <1>6, <1>7, <1>8, <1>9, <1>10, <1>11
     DEF Next, CommandStep
-----------------------------------------------------------------------------
(* Where OwnerInv is preserved, a thread that takes a step does not do so   *)
(* while blocks are collected.                                              *)
LEMMA RestingThreads ==
    ASSUME PlaceInv, OwnerInv', NEW t \in AppThreads, AppStep(t)
    PROVE  ~Collecting
BY ThreadsRest DEF PlaceInv, OwnerInv

\* Every step of a thread preserves the place of every block.
LEMMA ThreadPlaces ==
    ASSUME PlaceInv, ~Collecting, NEW t \in AppThreads, AppStep(t)
    PROVE  Numbered' /\ OnePlace(Hands, WithCommand, WithWorker, Done, used)'
<1>1. CASE ~SkipReset(t) /\ ~TakeBlock(t) /\ ~ReplaceAllocate(t)
  <2>1. /\ UNCHANGED <<pending, back, written, log, dropped, filler, flushed>>
        /\ InHand(t)' = InHand(t)
        /\ appPc'[t] = "take" => local'[t] # NoBlock
    BY <1>1, ThreadKeepsPlaces
  <2>2. \A u \in AppThreads \ {t} :
           /\ InHand(u)' = InHand(u)
           /\ appPc'[u] = appPc[u] /\ current'[u] = current[u] /\ local'[u] = local[u]
    BY HandsOfOthers, PlaceFacts
  <2>3. /\ used' = used /\ WithCommand' = WithCommand /\ WithWorker' = WithWorker
        /\ Done' = Done
    BY <2>1 DEF used, WithCommand, WithWorker, Done
  <2>4. Hands' = Hands
    <3>1. \A u \in AppThreads : InHand(u)' = InHand(u)
      BY <2>1, <2>2
    <3> QED
      BY <3>1, Zenon DEF Hands
  <2>5. Numbered'
    BY <2>1, <2>2, <2>3 DEF PlaceInv, Numbered
  <2> QED
    BY <2>3, <2>4, <2>5 DEF PlaceInv
<1>2. CASE SkipReset(t)
  BY <1>2, SkipFrees
<1>3. CASE TakeBlock(t)
  BY <1>3, TakeHandsOver
<1>4. CASE ReplaceAllocate(t)
  BY <1>4, AllocateTakesNew
<1> QED
  BY <1>1, <1>2, <1>3, <1>4

LEMMA PlaceStep == PlaceInv /\ [RestNext]_vars => PlaceInv'
<1> SUFFICES ASSUME PlaceInv, [RestNext]_vars PROVE PlaceInv'
  OBVIOUS
<1>0. OwnerInv' /\ [Next]_vars
  BY OwnerStep DEF PlaceInv, RestNext
<1>1. Flow!SInv' /\ Flow!ExactlyOnce' /\ [TW!SerialNext]_workerVars
  BY <1>0, SerialStep, WorkerKeeps DEF PlaceInv
<1>2. CASE UNCHANGED vars
  <2>1. UNCHANGED <<workerVars, commandVars, threadVars, blockVars, historyVars>>
    BY <1>2 DEF vars
  <2>2. CallInv' /\ Numbered'
    BY <2>1 DEF PlaceInv, CallInv, Collecting, Numbered, used, workerVars, commandVars,
                threadVars, blockVars, historyVars
  <2>3. /\ used' = used /\ Hands' = Hands /\ WithCommand' = WithCommand
        /\ WithWorker' = WithWorker /\ Done' = Done
    BY <2>1 DEF used, Hands, InHand, WithCommand, WithWorker, Done, workerVars, commandVars,
                threadVars, blockVars, historyVars
  <2> QED
    BY <1>0, <1>1, <2>2, <2>3 DEF PlaceInv
<1>3. CASE RestNext
  <2>1. CallInv' /\ Next
    BY <1>3, CallsKeepOrder DEF RestNext
  <2>2. ASSUME NEW t \in AppThreads, AppStep(t) PROVE PlaceInv'
    <3>1. ~Collecting
      BY <1>0, <2>2, RestingThreads
    <3> QED
      BY <1>0, <1>1, <2>1, <2>2, <3>1, ThreadPlaces DEF PlaceInv
  <2>3. ASSUME Enable \/ Disable \/ Flush \/ CommandStep \/ WorkerRuns PROVE PlaceInv'
    <3>1. Numbered' /\ OnePlace(Hands, WithCommand, WithWorker, Done, used)'
      BY <1>1, <2>3, CommandPlaces, WorkerPlaces
    <3> QED
      BY <1>0, <1>1, <2>1, <3>1 DEF PlaceInv
  <2> QED
    BY <2>1, <2>2, <2>3 DEF Next
<1> QED
  BY <1>2, <1>3

(* Every block is in its one place in every reachable state, if Flush finds *)
(* the threads at rest.                                                     *)
THEOREM BlocksHaveAPlace == RestSpec => []PlaceInv
BY PlaceInit, PlaceStep, PTL DEF RestSpec

(* m_srwlock of EtwWriter serialises the calls of the worker: for           *)
(* ThreadedWorker no block is added while a Start or Stop is executing.     *)
(* With threads at rest while Flush collects their blocks, none is added    *)
(* twice.                                                                   *)
THEOREM WorkerIsCalledSerially == RestSpec => SerialisesWorker
<1>1. Init => TW!Init
  BY DEF Init
<1>2. PlaceInv /\ [RestNext]_vars => [TW!SerialNext]_workerVars
  BY SerialStep DEF RestNext
<1> QED
  BY <1>1, <1>2, BlocksHaveAPlace, PTL DEF RestSpec, SerialisesWorker

(* A block that was allocated and neither written nor freed has one owner,  *)
(* a thread, the flushing command or the worker, and no other block has,    *)
(* with threads at rest while Flush collects their blocks.                  *)
THEOREM BlocksHaveOneOwner == RestSpec => []OneOwner
<1>1. PlaceInv => OneOwner
  <2> SUFFICES ASSUME PlaceInv, NEW b \in Blocks
               PROVE  Cardinality({o \in AppThreads \cup {"command", "worker"} : b \in Holds(o)})
                        = IF b \in used \ (Range(log) \cup dropped) THEN 1 ELSE 0
    BY DEF OneOwner
  <2> DEFINE owners == {o \in AppThreads \cup {"command", "worker"} : b \in Holds(o)}
  <2>1. b # NoBlock /\ "command" \notin AppThreads /\ "worker" \notin AppThreads
    BY NullIsNoBlock, EtwAssumption
  <2>2. /\ \A t \in AppThreads : b \in Holds(t) <=> b \in Hands[t]
        /\ b \in Holds("command") <=> b \in WithCommand
        /\ b \in Holds("worker") <=> b \in WithWorker
    BY <2>1 DEF Holds, Hands, InHand, WithCommand, WithWorker
  <2>3. OnePlace(Hands, WithCommand, WithWorker, Done, used)
    BY DEF PlaceInv
  <2>4. CASE b \in used \ Done
    <3>1. PICK o \in AppThreads \cup {"command", "worker"} : owners = {o}
      <4>1. CASE b \in WithCommand
        <5>1. owners = {"command"}
          BY <2>1, <2>2, <2>3, <4>1 DEF OnePlace
        <5> QED BY <5>1
      <4>2. CASE b \in WithWorker
        <5>1. owners = {"worker"}
          BY <2>1, <2>2, <2>3, <4>2 DEF OnePlace
        <5> QED BY <5>1
      <4>3. CASE b \notin WithCommand \cup WithWorker
        <5>1. PICK t \in AppThreads : b \in Hands[t]
          BY <2>3, <2>4, <4>3 DEF OnePlace
        <5>2. owners = {t}
          BY <2>1, <2>2, <2>3, <4>3, <5>1 DEF OnePlace
        <5> QED BY <5>2
      <4> QED
        BY <4>1, <4>2, <4>3
    <3> QED
      BY <2>4, <3>1, FS_Singleton DEF Done
  <2>5. CASE b \notin used \ Done
    <3>1. owners = {}
      BY <2>1, <2>2, <2>3, <2>5 DEF OnePlace
    <3> QED
      BY <2>5, <3>1, FS_EmptySet DEF Done
  <2> QED
    BY <2>4, <2>5
<1> QED
  BY <1>1, BlocksHaveAPlace, PTL
-----------------------------------------------------------------------------
(* How full blocks are: a new one is empty until its thread writes to it,   *)
(* and a thread about to write has found room, which no other can use up    *)
(* because the block is in its hand alone.                                  *)
FillInv ==
    /\ count \in [Blocks -> 0 .. BlockEvents] /\ late \subseteq Blocks
    /\ \A b \in Blocks \ used : count[b] = 0
    /\ \A t \in AppThreads :
          /\ appPc[t] \in {"setInfo", "reread"} /\ current[t] # NoBlock
                => count[current[t]] = 0
          /\ appPc[t] = "emit" => count[local[t]] < BlockEvents

(* A thread writes only to the block it has, which no other thread has.     *)
LEMMA ThreadsFillOwn ==
    ASSUME PlaceInv, ~Collecting, FillInv, NEW t \in AppThreads, AppStep(t)
    PROVE  FillInv'
<1> USE NullIsNoBlock, EtwAssumption DEF FillInv
<1>0. ThreadTypes /\ \A u \in AppThreads : BlockOf(u)
  BY PlaceFacts
<1>1. ASSUME NEW u \in AppThreads \ {t}
      PROVE  /\ appPc'[u] = appPc[u] /\ current'[u] = current[u] /\ local'[u] = local[u]
             /\ u \in AppThreads
  BY <1>0, <1>1, HandsOfOthers
<1>2. CASE Emit(t)
  <2> DEFINE b == local[t]
  <2>1. /\ appPc[t] = "emit" /\ appPc' = [appPc EXCEPT ![t] = "ready"]
        /\ filler' = filler
        /\ count' = [count EXCEPT ![b] = @ + 1]
        /\ late' \in {late, late \cup {b}}
    BY <1>2 DEF Emit, Go
  <2>2. b = current[t] /\ b \in Blocks /\ b \in Hands[t] /\ count[b] < BlockEvents
    BY <1>0, <2>1, HandsUncollected DEF BlockOf, ThreadTypes, Hands
  <2>3. \A u \in AppThreads \ {t} :
           /\ current[u] # b
           /\ appPc[u] = "emit" => local[u] # b
    <3>1. \A u \in AppThreads \ {t} : b \notin InHand(u)
      BY <2>2 DEF PlaceInv, OnePlace, Hands
    <3>2. \A u \in AppThreads \ {t} : current[u] # b
      BY <2>2, <3>1, HandsUncollected
    <3> QED
      BY <1>0, <3>2 DEF BlockOf
  <2>4. b \in used /\ used' = used
    BY <2>1, <2>2 DEF PlaceInv, OnePlace, used
  <2> HIDE DEF b
  <2>5. /\ count'[b] = count[b] + 1
        /\ \A c \in Blocks \ {b} : count'[c] = count[c]
    BY <2>1, <2>2
  <2>6. count' \in [Blocks -> 0 .. BlockEvents] /\ late' \subseteq Blocks
    BY <2>1, <2>2
  <2>7. appPc'[t] = "ready"
    BY <1>0, <2>1 DEF ThreadTypes
  <2>8. \A u \in AppThreads : appPc[u] = "emit" => local[u] \in Blocks
    BY <1>0 DEF BlockOf, ThreadTypes
  <2>9. \A u \in AppThreads : current[u] \in Blocks \cup {NoBlock}
    BY <1>0 DEF ThreadTypes
  <2> QED
    BY <1>1, <2>3, <2>4, <2>5, <2>6, <2>7, <2>8, <2>9
<1>3. CASE ReplaceAllocate(t)
  <2>1. PICK b \in Blocks :
           /\ b \notin used /\ count' = count /\ late' \subseteq Blocks
           /\ current' = [current EXCEPT ![t] = b]
           /\ used \subseteq used'
           /\ appPc' = [appPc EXCEPT ![t] = "setInfo"] /\ local' = local
    <3>1. PICK n \in 0 .. MaxBlocks : used = 1 .. n /\ current'[t] = n + 1
      BY <1>3, AllocateTakesNew
    <3>2. /\ count' = count /\ filler' = [filler EXCEPT ![current'[t]] = t]
          /\ \E b \in Blocks : current' = [current EXCEPT ![t] = b]
                                /\ late' \in {late, late \cup {b}}
          /\ appPc' = [appPc EXCEPT ![t] = "setInfo"] /\ local' = local
      BY <1>3, AllocateTakesNew DEF ReplaceAllocate, Go
    <3>3. current'[t] \in Blocks /\ current' = [current EXCEPT ![t] = current'[t]]
          /\ late' \subseteq Blocks
      BY <1>0, <3>2 DEF ThreadTypes
    <3>4. current'[t] \notin used
      BY <3>1
    <3>5. used \subseteq used'
      BY <3>2, <3>3, <3>4 DEF used, PlaceInv, Numbered
    <3> QED
      BY <3>2, <3>3, <3>4, <3>5
  <2> QED
    BY <1>0, <1>1, <2>1 DEF ThreadTypes
<1>4. CASE ~Emit(t) /\ ~ReplaceAllocate(t)
  <2>1. count' = count /\ filler' = filler /\ late' \subseteq late
    BY <1>4 DEF AppStep, Register, AddThread, Exit, Unregister, SkipEvent, SkipReset,
       SkipInfo, BeginEvent, FoundRoom, FoundNoRoom, Reread, FlushTest, FlushEndTime,
       FlushClear, FlushMove, FlushMoved, TakeBlock, ReplaceFails, ReplaceSetInfo, blockVars
  <2>2. used' = used
    BY <2>1 DEF used
  <2>3. /\ appPc'[t] \in {"setInfo", "reread"} /\ current'[t] # NoBlock
              => count[current'[t]] = 0
        /\ appPc'[t] = "emit" => count[local'[t]] < BlockEvents
    <3>0. BlockOf(t) /\ ~HalfTaken(t)
      BY <1>0 DEF HalfTaken, Collecting
    <3>1. CASE FoundRoom(t)
      BY <1>0, <3>0, <3>1 DEF FoundRoom, HasRoom, Go, BlockOf, ThreadTypes
    <3>2. CASE Reread(t)
      BY <1>0, <3>0, <3>2 DEF Reread, Go, BlockOf, ThreadTypes
    <3>3. CASE ReplaceSetInfo(t)
      BY <1>0, <3>3 DEF ReplaceSetInfo, Go, ThreadTypes
    <3>4. CASE ~FoundRoom(t) /\ ~Reread(t) /\ ~ReplaceSetInfo(t)
      <4>1. appPc'[t] \notin {"setInfo", "reread", "emit"}
        BY <1>0, <1>4, <3>4 DEF AppStep, Register, AddThread, Exit, Unregister, SkipEvent,
           SkipReset, SkipInfo, BeginEvent, FoundNoRoom, FlushTest, FlushEndTime, FlushClear,
           FlushMove, FlushMoved, TakeBlock, Resume, ReplaceFails, Go, ThreadTypes
      <4> QED
        BY <4>1
    <3> QED
      BY <3>1, <3>2, <3>3, <3>4
  <2> QED
    BY <1>1, <2>1, <2>2, <2>3
<1> QED
  BY <1>2, <1>3, <1>4

\* A command leaves the blocks of the threads as they are, or takes them away.
LEMMA CommandsOnlyTake ==
    ASSUME ThreadTypes, Enable \/ Disable \/ Flush \/ CommandStep \/ WorkerRuns
    PROVE  \A u \in AppThreads : current'[u] \in {current[u], NoBlock}
<1>1. CASE CollectMoved
  BY <1>1 DEF CollectMoved, AfterMove, ThreadTypes
<1>2. CASE ~CollectMoved
  <2>1. current' = current
    BY <1>2 DEF Enable, Disable, Switch, Flush, CommandStep, CallStart, CallStop, InCall,
       Return, FlushThreads, FlushThread, CollectEndTime, CollectClear, CollectMove,
       FlushWrite, FlushDone, WorkerRuns, threadVars
  <2> QED BY <2>1
<1> QED BY <1>1, <1>2

LEMMA FillStep ==
    ASSUME PlaceInv, OwnerInv', FillInv, [RestNext]_vars
    PROVE  FillInv'
<1>1. CASE UNCHANGED vars
  BY <1>1 DEF vars, FillInv, used, threadVars, blockVars
<1>2. ASSUME NEW t \in AppThreads, AppStep(t) PROVE FillInv'
  <2>1. ~Collecting
    BY <1>2, RestingThreads
  <2> QED
    BY <1>2, <2>1, ThreadsFillOwn
<1>3. CASE Enable \/ Disable \/ Flush \/ CommandStep \/ WorkerRuns
  <2>1. /\ count' = count /\ filler' = filler /\ late' \subseteq late
        /\ appPc' = appPc /\ local' = local
    BY <1>3 DEF Enable, Disable, Switch, Flush, CommandStep,
       CallStart, CallStop, InCall, Return, FlushThreads, FlushThread, CollectEndTime,
       CollectClear, CollectMove, CollectMoved, FlushWrite, FlushDone, WorkerRuns,
       threadVars, blockVars
  <2>2. \A u \in AppThreads : current'[u] \in {current[u], NoBlock}
    BY <1>3, PlaceFacts, CommandsOnlyTake
  <2> QED
    BY <2>1, <2>2 DEF FillInv, used
<1> QED
  BY <1>1, <1>2, <1>3 DEF RestNext, Next

(* With threads at rest while Flush collects their blocks the state keeps   *)
(* its types; above all no block gets more events than there is room for.   *)
THEOREM TypesAreRight == RestSpec => []TypeOK
<1>1. Init => FillInv
  BY EtwAssumption DEF Init, FillInv
<1>2. PlaceInv /\ PlaceInv' /\ FillInv /\ [RestNext]_vars => FillInv'
  BY FillStep DEF PlaceInv
<1>3. PlaceInv /\ FillInv => TypeOK
  <2> SUFFICES ASSUME PlaceInv, FillInv PROVE TypeOK
    OBVIOUS
  <2>1. Flow!TypeOK <=> TW!TypeOK
    BY DEF Flow!TypeOK, TW!TypeOK, Flow!PCs, TW!PCs, Flow!Controls, TW!Controls
  <2>2. TW!TypeOK /\ ThreadTypes /\ CommandInv /\ Numbered
    BY <2>1, PlaceFacts DEF PlaceInv, Flow!SInv, Flow!IInv
  <2> QED
    BY <2>2 DEF Numbered, ThreadTypes, FillInv, CommandInv, TypeOK
<1> QED
  BY <1>1, <1>2, <1>3, BlocksHaveAPlace, PTL DEF RestSpec
-----------------------------------------------------------------------------
(* The numbers of the blocks one thread filled: those of a sequence ascend, *)
(* those of one set are below those of another.  f tells who filled them.   *)
Ascending(f, s) ==
    \A i, j \in DOMAIN s : i < j /\ f[s[i]] = f[s[j]] => s[i] < s[j]
Below(f, S, T) == \A a \in S, b \in T : f[a] = f[b] => a < b

(* The log, the back buffer, the pending blocks, the block of the command   *)
(* and those of the threads, in this order, are what each thread filled,    *)
(* oldest first; what a thread has in hand it filled itself.                *)
Ordered(f, first, second, third, command, hands) ==
    /\ Ascending(f, first) /\ Ascending(f, second) /\ Ascending(f, third)
    /\ Below(f, Range(first), Range(second) \cup Range(third) \cup command)
    /\ Below(f, Range(second), Range(third) \cup command)
    /\ Below(f, Range(third), command)
    /\ \A t \in AppThreads :
          /\ \A b \in hands[t] : f[b] = t
          /\ Below(f, Range(first) \cup Range(second) \cup Range(third) \cup command, hands[t])

OrderInv == Ordered(filler, log, back, pending, WithCommand, Hands)

(* Once Threads::Flush has been to a thread at rest, the thread has no      *)
(* block until Flush returns.                                               *)
Collected ==
    Collecting => \A t \in AppThreads \ todo : t = taking \/ current[t] = NoBlock
-----------------------------------------------------------------------------
LEMMA AscendingAppend ==
    ASSUME NEW f, NEW s \in Seq(Blocks), NEW e \in Blocks,
           Ascending(f, s), Below(f, Range(s), {e})
    PROVE  Ascending(f, Append(s, e))
<1>1. /\ Len(Append(s, e)) = Len(s) + 1
      /\ \A i \in 1 .. Len(s) : Append(s, e)[i] = s[i]
      /\ Append(s, e)[Len(s) + 1] = e
      /\ Append(s, e) \in Seq(Blocks)
  BY AppendProperties
<1>2. /\ DOMAIN s = 1 .. Len(s) /\ Len(s) \in Nat
      /\ DOMAIN Append(s, e) = 1 .. Len(s) + 1
  BY <1>1, LenProperties
<1>3. \A i \in 1 .. Len(s) : s[i] \in Range(s)
  BY <1>2 DEF Range
<1> SUFFICES ASSUME NEW i \in 1 .. Len(s) + 1, NEW j \in 1 .. Len(s) + 1, i < j,
                    f[Append(s, e)[i]] = f[Append(s, e)[j]]
             PROVE  Append(s, e)[i] < Append(s, e)[j]
  BY <1>2 DEF Ascending
<1>4. CASE j = Len(s) + 1
  <2>1. i \in 1 .. Len(s) /\ Append(s, e)[i] = s[i] /\ Append(s, e)[j] = e
    BY <1>1, <1>2, <1>4
  <2> QED
    BY <1>3, <2>1 DEF Below
<1>5. CASE j # Len(s) + 1
  <2>1. i \in 1 .. Len(s) /\ j \in 1 .. Len(s)
    BY <1>2, <1>5
  <2> QED
    BY <1>1, <1>2, <2>1 DEF Ascending
<1> QED
  BY <1>4, <1>5

LEMMA AscendingTail ==
    ASSUME NEW f, NEW s \in Seq(Blocks), s # <<>>, Ascending(f, s)
    PROVE  Ascending(f, Tail(s)) /\ Below(f, {Head(s)}, Range(Tail(s)))
<1>1. /\ Len(Tail(s)) = Len(s) - 1 /\ Tail(s) \in Seq(Blocks)
      /\ \A i \in 1 .. Len(Tail(s)) : Tail(s)[i] = s[i + 1]
  BY HeadTailProperties
<1>2. /\ DOMAIN s = 1 .. Len(s) /\ Len(s) \in Nat /\ Len(s) # 0
      /\ DOMAIN Tail(s) = 1 .. Len(s) - 1 /\ Head(s) = s[1]
  BY <1>1, LenProperties, EmptySeq
<1>3. Ascending(f, Tail(s))
  <2> SUFFICES ASSUME NEW i \in 1 .. Len(s) - 1, NEW j \in 1 .. Len(s) - 1, i < j,
                      f[Tail(s)[i]] = f[Tail(s)[j]]
               PROVE  Tail(s)[i] < Tail(s)[j]
    BY <1>2 DEF Ascending
  <2>1. /\ i + 1 \in 1 .. Len(s) /\ j + 1 \in 1 .. Len(s) /\ i + 1 < j + 1
        /\ Tail(s)[i] = s[i + 1] /\ Tail(s)[j] = s[j + 1]
    BY <1>1, <1>2
  <2> QED
    BY <1>2, <2>1 DEF Ascending
<1>4. Below(f, {Head(s)}, Range(Tail(s)))
  <2> SUFFICES ASSUME NEW i \in 1 .. Len(s) - 1, f[Head(s)] = f[Tail(s)[i]]
               PROVE  Head(s) < Tail(s)[i]
    BY <1>2 DEF Below, Range
  <2>1. 1 \in 1 .. Len(s) /\ i + 1 \in 1 .. Len(s) /\ 1 < i + 1 /\ Tail(s)[i] = s[i + 1]
    BY <1>1, <1>2
  <2> QED
    BY <1>2, <2>1 DEF Ascending
<1> QED
  BY <1>3, <1>4

\* What is logged is the block just written.
LEMMA LogIs ==
    ASSUME PlaceInv, LogWritten, NEW b \in Blocks, written' = Append(written, b)
    PROVE  log' = Append(log, b)
<1>1. written \in Seq(Blocks)
  BY DEF PlaceInv, Flow!SInv, Flow!IInv, Flow!TypeOK
<1>2. written' # written /\ written'[Len(written')] = b
  BY <1>1, AppendProperties
<1> QED
  BY <1>2 DEF LogWritten

(* While Flush collects the blocks of the threads the worker has none.      *)
LEMMA WorkerIsEmpty ==
    ASSUME PlaceInv, Collecting
    PROVE  Range(back) = {} /\ Range(pending) = {}
<1>1. worker = NoWorker /\ control = "idle"
  BY DEF PlaceInv, CallInv, Flow!SInv, Flow!IInv, Flow!TypeOK, Flow!Controls, Collecting
<1>2. \A w \in Workers : pc[w] = "none"
  BY <1>1, EtwAssumption DEF PlaceInv, Flow!SInv, Flow!IInv, Flow!OnlyWorker
<1>3. back = <<>> /\ pending = <<>>
  BY <1>1, <1>2 DEF PlaceInv, Flow!SInv, Flow!IInv, Flow!BackInUse, Flow!NoOrphans
<1> QED
  BY <1>3 DEF Range

(* The worker writes the oldest block it has.                               *)
LEMMA WorkerKeepsOrder ==
    ASSUME PlaceInv, OrderInv, [TW!SerialNext]_workerVars, InCall \/ WorkerRuns
    PROVE  OrderInv'
<1>1. LogWritten /\ UNCHANGED <<commandVars, threadVars, blockVars>>
  BY DEF InCall, WorkerRuns
<1>2. filler' = filler /\ Hands' = Hands /\ WithCommand' = WithCommand
  BY <1>1 DEF commandVars, threadVars, blockVars, Hands, InHand, WithCommand
<1>3. added' = added
  BY DEF InCall, WorkerRuns, TW!ControlStep, TW!Join, TW!StartRelock, TW!StopRelock,
     TW!StopWrite, TW!StopReturn, TW!WorkerStep, TW!WorkerEntry, TW!WorkerWrite,
     TW!WorkerWritten, TW!WorkerCheck, TW!SpuriousWake
<1>4. [Flow!Next]_(Flow!vars)
  BY SameWorker DEF Flow!SerialNext, workerVars, Flow!vars
<1>5. /\ pending \in Seq(Blocks) /\ back \in Seq(Blocks)
      /\ added \in Seq(Blocks) /\ log \in Seq(Blocks)
  BY DEF PlaceInv, Flow!SInv, Flow!IInv, Flow!TypeOK, Numbered
<1>6. Ordered(filler, log, back, pending, WithCommand, Hands)
  BY DEF OrderInv
<1>7. ASSUME NEW s \in {back, pending}, s # <<>>, written' = Append(written, Head(s))
      PROVE  /\ Head(s) \in Blocks /\ log' = Append(log, Head(s))
             /\ Range(log') = Range(log) \cup {Head(s)}
             /\ Range(s) = {Head(s)} \cup Range(Tail(s))
             /\ Ascending(filler, Tail(s)) /\ Below(filler, {Head(s)}, Range(Tail(s)))
             /\ Ascending(filler, log')
  <2>1. s \in Seq(Blocks)
    BY <1>5
  <2>2. Head(s) \in Blocks /\ Range(s) = {Head(s)} \cup Range(Tail(s))
    BY <1>7, <2>1, EtwAssumption, Flow!HeadTailElements, SameRange
  <2>3. log' = Append(log, Head(s)) /\ Range(log') = Range(log) \cup {Head(s)}
    <3> DEFINE b == Head(s)
    <3>1. b \in Blocks /\ written' = Append(written, b)
      BY <1>7, <2>2
    <3> HIDE DEF b
    <3>2. log' = Append(log, b)
      BY <1>1, <3>1, LogIs
    <3>3. Range(log') = Range(log) \cup {b}
      BY <3>1, <3>2, LogGrows
    <3> QED
      BY <3>2, <3>3 DEF b
  <2>4. Ascending(filler, s)
    BY <1>6 DEF Ordered
  <2>5. Ascending(filler, Tail(s)) /\ Below(filler, {Head(s)}, Range(Tail(s)))
    BY <1>7, <2>1, <2>4, AscendingTail
  <2>6. Below(filler, Range(log), {Head(s)}) /\ Ascending(filler, log)
    BY <1>6, <2>2 DEF Ordered, Below
  <2> QED
    BY <1>5, <2>2, <2>3, <2>5, <2>6, AscendingAppend
<1>8. CASE Flow!Adding
  BY <1>3, <1>5, <1>8, AppendProperties DEF Flow!Adding
<1>9. CASE Flow!Draining
  <2>1. /\ pending # <<>> /\ pending' = Tail(pending) /\ back' = back
        /\ written' = Append(written, Head(pending)) /\ control = "stopDrain"
    BY <1>9 DEF Flow!Draining
  <2>2. back = <<>>
    BY <2>1, EtwAssumption
       DEF PlaceInv, Flow!SInv, Flow!JoinedAlone, Flow!IInv, Flow!BackInUse, Flow!OnlyWorker
  <2>3. Range(back) = {}
    BY <2>2 DEF Range
  <2> DEFINE b == Head(pending)
  <2>4. /\ Range(log') = Range(log) \cup {b} /\ Range(pending) = {b} \cup Range(pending')
        /\ Ascending(filler, pending') /\ Below(filler, {b}, Range(pending'))
        /\ Ascending(filler, log')
    BY <1>7, <2>1
  <2> HIDE DEF b
  <2>5. Ordered(filler, log', back', pending', WithCommand, Hands)
    BY <1>6, <2>1, <2>3, <2>4 DEF Ordered, Below
  <2> QED
    BY <1>2, <2>5 DEF OrderInv
<1>10. CASE Flow!Writing
  <2>1. /\ back # <<>> /\ back' = Tail(back) /\ pending' = pending
        /\ written' = Append(written, Head(back))
    BY <1>10 DEF Flow!Writing
  <2> DEFINE b == Head(back)
  <2>2. /\ Range(log') = Range(log) \cup {b} /\ Range(back) = {b} \cup Range(back')
        /\ Ascending(filler, back') /\ Below(filler, {b}, Range(back'))
        /\ Ascending(filler, log')
    BY <1>7, <2>1
  <2> HIDE DEF b
  <2>3. Ordered(filler, log', back', pending', WithCommand, Hands)
    BY <1>6, <2>1, <2>2 DEF Ordered, Below
  <2> QED
    BY <1>2, <2>3 DEF OrderInv
<1>11. CASE Flow!Swapping
  <2>1. /\ back = <<>> /\ back' = pending /\ pending' = <<>> /\ log' = log
    BY <1>1, <1>11 DEF Flow!Swapping, LogWritten
  <2>2. Range(back) = {} /\ Range(pending') = {} /\ Ascending(filler, pending')
    BY <2>1 DEF Range, Ascending
  <2>3. Ordered(filler, log', back', pending', WithCommand, Hands)
    BY <1>6, <2>1, <2>2 DEF Ordered, Below
  <2> QED
    BY <1>2, <2>3 DEF OrderInv
<1>12. CASE Flow!Resting
  BY <1>1, <1>2, <1>12 DEF Flow!Resting, LogWritten, OrderInv
<1> QED
  BY <1>4, <1>8, <1>9, <1>10, <1>11, <1>12, EtwAssumption, Flow!BlockSteps
     DEF PlaceInv, Flow!SInv
-----------------------------------------------------------------------------
(* The order is of the blocks that were allocated: who fills a new one does *)
(* not matter to it.                                                        *)
LEMMA ThreadsKeepOrder ==
    ASSUME PlaceInv, ~Collecting, OrderInv, NEW t \in AppThreads, AppStep(t)
    PROVE  OrderInv'
<1>0. Ordered(filler, log, back, pending, WithCommand, Hands)
  BY DEF OrderInv
<1>1. \A u \in AppThreads \ {t} : Hands'[u] = Hands[u]
  BY HandsOfOthers, PlaceFacts DEF Hands
<1>2. CASE ~SkipReset(t) /\ ~TakeBlock(t) /\ ~ReplaceAllocate(t)
  <2>1. /\ UNCHANGED <<pending, back, log, filler, flushed>>
        /\ InHand(t)' = InHand(t)
    BY <1>2, ThreadKeepsPlaces
  <2>2. Hands'[t] = Hands[t] /\ WithCommand' = WithCommand
    BY <2>1 DEF Hands, WithCommand
  <2> QED
    BY <1>0, <1>1, <2>1, <2>2 DEF OrderInv, Ordered
<1>3. CASE SkipReset(t)
  <2>1. /\ UNCHANGED <<pending, back, log, filler, flushed>>
        /\ Hands'[t] = {} /\ WithCommand' = WithCommand
    BY <1>3, PlaceFacts DEF SkipReset, Go, Hands, InHand, WithCommand, workerVars, commandVars,
       blockVars, ThreadTypes
  <2> QED
    BY <1>0, <1>1, <2>1 DEF OrderInv, Ordered, Below
<1>4. CASE TakeBlock(t)
  <2> DEFINE b == local[t]
  <2>0. /\ etwPc = "idle" /\ appPc[t] = "take"
        /\ UNCHANGED <<back, log, filler, flushed, current>>
        /\ pending' = Append(pending, b)
        /\ local' = [local EXCEPT ![t] = NoBlock]
    BY <1>4 DEF TakeBlock, TW!Add, TW!PushBack, commandVars, blockVars, historyVars, LockFree
  <2>1. /\ UNCHANGED <<back, log, filler, flushed>>
        /\ pending' = Append(pending, b)
        /\ flushed = NoBlock
        /\ current' = current /\ local'[t] = NoBlock /\ current[t] = NoBlock
    BY <2>0, PlaceFacts DEF PlaceInv, CallInv, BlockOf, ThreadTypes
  <2>2. b \in Hands[t] /\ b \in Blocks
    BY <1>4, TakeAdds DEF Hands
  <2>3. Hands'[t] = {} /\ WithCommand' = {} /\ WithCommand = {}
    BY <2>1 DEF Hands, InHand, WithCommand
  <2>4. pending \in Seq(Blocks)
    BY DEF PlaceInv, Flow!SInv, Flow!IInv, Flow!TypeOK
  <2> HIDE DEF b
  <2>5. Range(pending') = Range(pending) \cup {b}
    BY <2>1, <2>2, <2>4, EtwAssumption, Flow!AppendElements, SameRange
  <2>6. Ascending(filler, pending')
    BY <1>0, <2>1, <2>2, <2>4, AscendingAppend DEF Ordered, Below
  <2>7. \A c \in Hands[t] : filler[c] = t
    BY <1>0 DEF Ordered
  <2>8. Ordered(filler, log, back, pending', {}, Hands')
    BY <1>0, <1>1, <2>2, <2>3, <2>5, <2>6, <2>7 DEF Ordered, Below
  <2> QED
    BY <2>1, <2>3, <2>8 DEF OrderInv
<1>5. CASE ReplaceAllocate(t)
  <2>1. PICK n \in 0 .. MaxBlocks : used = 1 .. n /\ current'[t] = n + 1
    BY <1>5, AllocateTakesNew
  <2> DEFINE b == n + 1
  <2>2. /\ UNCHANGED <<pending, back, log, flushed, etwPc, taking>> /\ etwPc # "flushMoved"
        /\ filler' = [filler EXCEPT ![b] = t]
        /\ appPc'[t] = "setInfo" /\ current'[t] \in Blocks
    BY <1>5, <2>1, AllocateTakesNew, PlaceFacts
       DEF ReplaceAllocate, Go, Collecting, workerVars, commandVars, historyVars, ThreadTypes
  <2>9. Hands'[t] = {b} /\ WithCommand' = WithCommand
    BY <2>1, <2>2, NullIsNoBlock DEF Hands, InHand, WithCommand
  <2>3. filler \in [Blocks -> AppThreads \cup {NoThread}] /\ b \in Blocks /\ b \notin used
        /\ n \in Nat /\ used \subseteq Nat
    BY <2>1, <2>2, EtwAssumption DEF PlaceInv, Numbered, Blocks, used
  <2>4. \A c \in used : c < b /\ filler'[c] = filler[c]
    BY <2>1, <2>2, <2>3 DEF used
  <2>5. /\ Range(log) \cup Range(back) \cup Range(pending) \cup WithCommand \subseteq used
        /\ \A u \in AppThreads : Hands[u] \subseteq used
    BY DEF PlaceInv, OnePlace, WithWorker, Done
  <2>6. filler'[b] = t
    BY <2>2, <2>3
  <2> HIDE DEF b
  <2>7. /\ Ascending(filler', log) /\ Ascending(filler', back) /\ Ascending(filler', pending)
    BY <1>0, <2>4, <2>5 DEF Ordered, Ascending, Range
  <2>8. Ordered(filler', log, back, pending, WithCommand, Hands')
    BY <1>0, <1>1, <2>2, <2>4, <2>5, <2>6, <2>7, <2>9 DEF Ordered, Below
  <2> QED
    BY <2>2, <2>8, <2>9 DEF OrderInv
<1> QED
  BY <1>2, <1>3, <1>4, <1>5

\* Flush writes the block of a thread when the worker has none.
LEMMA CommandsKeepOrder ==
    ASSUME PlaceInv, OrderInv, Enable \/ Disable \/ Flush \/ CommandStep, ~InCall
    PROVE  OrderInv'
<1>0. Ordered(filler, log, back, pending, WithCommand, Hands)
  BY DEF OrderInv
<1>1. CASE ~FlushWrite /\ ~CollectMove
  <2>1. UNCHANGED <<pending, back, log, filler, flushed>> /\ Hands' = Hands
    BY <1>1, CommandsKeepPlaces
  <2>2. WithCommand' = WithCommand
    BY <2>1 DEF WithCommand
  <2> QED
    BY <1>0, <2>1, <2>2 DEF OrderInv
<1>2. CASE CollectMove
  <2>1. PICK t \in AppThreads : t = taking /\ Rests(t) /\ BlockOf(t)
    BY <1>2, TakenThread
  <2> DEFINE b == current[t]
  <2>2. /\ UNCHANGED <<pending, back, log, filler, current, appPc, local, taking>>
        /\ etwPc = "flushMove" /\ etwPc' = "flushMoved"
        /\ flushed = NoBlock /\ flushed' = b
    BY <1>2, <2>1 DEF CollectMove, GoEtw, PlaceInv, CallInv, workerVars, threadVars,
                blockVars, historyVars
  <2>3. /\ WithCommand = {} /\ WithCommand' = {b} \ {NoBlock}
        /\ \A u \in AppThreads \ {t} : Hands'[u] = Hands[u]
    BY <2>1, <2>2 DEF WithCommand, Hands, InHand
  <2>4. CASE b = NoBlock
    <3>1. Hands'[t] = Hands[t] /\ WithCommand' = {}
      BY <2>1, <2>2, <2>3, <2>4 DEF Hands, InHand
    <3> QED
      BY <1>0, <2>2, <2>3, <3>1 DEF OrderInv, Ordered, Below
  <2>5. CASE b # NoBlock
    <3>1. appPc[t] \notin {"take", "moved"}
      BY <2>1, <2>5 DEF Rests, BlockOf
    <3>2. Hands[t] = {b} /\ Hands'[t] = {} /\ WithCommand' = {b}
      BY <2>1, <2>2, <2>3, <2>5, <3>1 DEF Hands, InHand
    <3>3. \A u \in AppThreads \ {t} : \A c \in Hands[u] : filler[c] # filler[b]
      BY <1>0, <3>2 DEF Ordered
    <3> HIDE DEF b
    <3>4. Ordered(filler, log, back, pending, {b}, Hands')
      BY <1>0, <2>3, <3>2, <3>3 DEF Ordered, Below
    <3> QED
      BY <2>2, <3>2, <3>4 DEF OrderInv
  <2> QED
    BY <2>4, <2>5
<1>3. CASE FlushWrite
  <2> DEFINE b == flushed
  <2>1. /\ UNCHANGED <<pending, back, filler, current, appPc, local, etwPc, taking>>
        /\ b # NoBlock /\ log' = Append(log, b) /\ flushed' = NoBlock
        /\ etwPc = "flushThreads"
    BY <1>3 DEF FlushWrite, workerVars, threadVars, blockVars
  <2>2. b \in Blocks /\ WithCommand = {b} /\ WithCommand' = {} /\ log \in Seq(Blocks)
    BY <2>1 DEF PlaceInv, Numbered, WithCommand
  <2>3. Range(log') = Range(log) \cup {b}
    BY <2>1, <2>2, LogGrows
  <2>4. Range(back) = {} /\ Range(pending) = {}
    BY <2>1, WorkerIsEmpty DEF Collecting
  <2>5. Hands' = Hands
    BY <2>1 DEF Hands, InHand
  <2> HIDE DEF b
  <2>6. Ascending(filler, log')
    <3>1. Ascending(filler, log) /\ Below(filler, Range(log), {b})
      BY <1>0, <2>2 DEF Ordered, Below
    <3> QED
      BY <2>1, <2>2, <3>1, AscendingAppend
  <2>7. Ordered(filler, log', back, pending, {}, Hands)
    BY <1>0, <2>2, <2>3, <2>4, <2>6 DEF Ordered, Below
  <2> QED
    BY <2>1, <2>2, <2>5, <2>7 DEF OrderInv
<1> QED
  BY <1>1, <1>2, <1>3 DEF CommandStep

THEOREM BlocksAreOrdered == RestSpec => [](PlaceInv /\ OrderInv)
<1>1. Init => OrderInv
  <2> SUFFICES ASSUME Init PROVE OrderInv
    OBVIOUS
  <2>1. /\ log = <<>> /\ back = <<>> /\ pending = <<>> /\ WithCommand = {}
        /\ \A t \in AppThreads : Hands[t] = {}
    BY DEF Init, TW!Init, WithCommand, Hands, InHand
  <2> QED
    BY <2>1 DEF OrderInv, Ordered, Ascending, Below, Range
<1>2. PlaceInv /\ PlaceInv' /\ OrderInv /\ [RestNext]_vars => OrderInv'
  <2> SUFFICES ASSUME PlaceInv, OwnerInv', OrderInv, [RestNext]_vars PROVE OrderInv'
    BY DEF PlaceInv
  <2>1. CASE UNCHANGED vars
    <3>1. UNCHANGED <<log, back, pending, filler, flushed, current, appPc, local, etwPc,
                      taking>>
      BY <2>1 DEF vars, workerVars, commandVars, threadVars, blockVars, historyVars
    <3> QED
      BY <3>1 DEF OrderInv, WithCommand, Hands, InHand
  <2>2. ASSUME NEW t \in AppThreads, AppStep(t) PROVE OrderInv'
    BY <2>2, RestingThreads, ThreadsKeepOrder
  <2>3. CASE InCall \/ WorkerRuns
    BY <2>3, SerialStep, WorkerKeepsOrder DEF RestNext
  <2>4. CASE (Enable \/ Disable \/ Flush \/ CommandStep) /\ ~InCall
    BY <2>4, CommandsKeepOrder
  <2> QED
    BY <2>1, <2>2, <2>3, <2>4 DEF RestNext, Next
<1> QED
  BY <1>1, <1>2, PlaceInit, PlaceStep, PTL DEF RestSpec

(* The blocks of one thread reach ETW in the order the thread filled them,  *)
(* whoever writes them, the worker, Stop, or a Flush, with threads at rest  *)
(* while Flush collects their blocks.                                       *)
THEOREM BlocksArriveInOrder == RestSpec => []ThreadOrder
<1>1. OrderInv => ThreadOrder
  BY DEF OrderInv, Ordered, Ascending, ThreadOrder
<1> QED
  BY <1>1, BlocksAreOrdered, PTL
-----------------------------------------------------------------------------
(* Threads at rest that Flush has come to get no block before it returns.   *)
LEMMA CollectedStep ==
    ASSUME PlaceInv, OwnerInv', Collected, [RestNext]_vars
    PROVE  Collected'
<1>0. ThreadTypes /\ Listed /\ CommandInv /\ \A t \in AppThreads : BlockOf(t)
  BY PlaceFacts
<1>1. CASE UNCHANGED vars
  BY <1>1 DEF Collected, Collecting, vars, commandVars, threadVars
<1>2. ASSUME NEW t \in AppThreads, AppStep(t) PROVE Collected'
  <2>1. etwPc' = etwPc /\ ~Collecting
    BY <1>0, <1>2, ThreadFrame, RestingThreads
  <2> QED
    BY <2>1 DEF Collected, Collecting
<1>3. CASE FlushThreads
  <2>1. todo' = registered /\ current' = current
    BY <1>3 DEF FlushThreads, FlushList, threadVars
  <2>2. \A t \in AppThreads \ registered : current[t] = NoBlock
    BY <1>0 DEF Listed, BlockOf
  <2> QED
    BY <2>1, <2>2 DEF Collected
<1>4. ASSUME NEW t \in AppThreads, FlushThread(t) PROVE Collected'
  <2>1. /\ todo' = todo \ {t} /\ taking' = t /\ current' = current /\ etwPc = "flushThreads"
    BY <1>4 DEF FlushThread, GoEtw, threadVars
  <2>2. Collecting /\ taking \notin AppThreads
    BY <1>0, <2>1, EtwAssumption DEF CommandInv, Collecting
  <2> QED
    BY <2>1, <2>2 DEF Collected
<1>5. CASE CollectEndTime \/ CollectClear \/ CollectMove
  BY <1>5 DEF Collected, Collecting, CollectEndTime, CollectClear, CollectMove, GoEtw, threadVars
<1>6. CASE CollectMoved
  <2>1. /\ current' = [current EXCEPT ![taking] = NoBlock] /\ todo' = todo
        /\ etwPc = "flushMoved"
    BY <1>6 DEF CollectMoved, AfterMove, GoEtw
  <2> QED
    BY <1>0, <2>1 DEF Collected, Collecting, ThreadTypes
<1>7. CASE FlushWrite \/ FlushDone \/ InCall \/ WorkerRuns
  BY <1>7 DEF Collected, Collecting, FlushWrite, FlushDone, InCall, WorkerRuns, GoEtw,
     commandVars, threadVars
<1>8. CASE Enable \/ Disable \/ Flush \/ CallStart \/ CallStop \/ Return
  <2>1. ~Collecting'
    BY <1>8 DEF Enable, Disable, Switch, Flush, CallStart, CallStop, Return, GoEtw, Collecting
  <2> QED BY <2>1 DEF Collected
<1> QED
  BY <1>1, <1>2, <1>3, <1>4, <1>5, <1>6, <1>7, <1>8 DEF RestNext, Next, CommandStep

(* With threads at rest while Flush collects their blocks, everything that  *)
(* was emitted before is written when Flush returns.                        *)
THEOREM FlushDeliversAll == RestSpec => FlushDelivers
<1>1. RestSpec => []Collected
  <2>1. Init => Collected
    BY DEF Init, Collected, Collecting
  <2>2. PlaceInv /\ PlaceInv' /\ Collected /\ [RestNext]_vars => Collected'
    BY CollectedStep DEF PlaceInv
  <2> QED
    BY <2>1, <2>2, BlocksHaveAPlace, PTL DEF RestSpec
<1>2. PlaceInv /\ Collected /\ [RestNext]_vars
         => [etwPc = "flushThreads" /\ etwPc' = "idle"
               => used \subseteq Range(log) \cup dropped \cup Range(local)]_vars
  <2> SUFFICES ASSUME PlaceInv, Collected, Next, etwPc = "flushThreads", etwPc' = "idle"
               PROVE  used \subseteq Range(log) \cup dropped \cup Range(local)
    BY DEF RestNext
  <2>1. FlushDone
    <3>1. \A t \in AppThreads : ~AppStep(t)
      BY PlaceFacts, ThreadFrame
    <3>2. ~Enable /\ ~Disable /\ ~Flush /\ ~Return /\ ~CallStart /\ ~CallStop
      BY DEF Enable, Disable, Switch, Flush, Return, CallStart, CallStop, GoEtw
    <3>3. ~InCall /\ ~FlushThreads /\ ~FlushWrite /\ ~WorkerRuns
      BY DEF InCall, FlushThreads, FlushWrite, WorkerRuns, GoEtw, commandVars
    <3>4. /\ \A t \in AppThreads : ~FlushThread(t)
          /\ ~CollectEndTime /\ ~CollectClear /\ ~CollectMove /\ ~CollectMoved
      BY DEF FlushThread, CollectEndTime, CollectClear, CollectMove, CollectMoved, GoEtw
    <3> QED
      BY <3>1, <3>2, <3>3, <3>4 DEF Next, CommandStep
  <2>2. Collecting /\ taking = NoThread /\ todo = {} /\ flushed = NoBlock
    BY <2>1, PlaceFacts DEF FlushDone, Collecting, CommandInv
  <2>3. WithCommand = {} /\ \A t \in AppThreads : current[t] = NoBlock
    BY <2>2, EtwAssumption DEF WithCommand, Collected
  <2>4. WithWorker = {}
    BY <2>2, WorkerIsEmpty DEF WithWorker
  <2>5. \A t \in AppThreads : Hands[t] \subseteq Range(local)
    BY <2>3, PlaceFacts DEF Hands, InHand, Range, ThreadTypes
  <2> QED
    BY <2>3, <2>4, <2>5 DEF PlaceInv, OnePlace, Done
<1> QED
  BY <1>1, <1>2, BlocksHaveAPlace, PTL DEF RestSpec, FlushDelivers
=============================================================================
