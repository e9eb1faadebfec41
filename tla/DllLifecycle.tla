---------------------------- MODULE DllLifecycle -----------------------------
(***************************************************************************)
(* The runtime from the loading of the DLL to its end: DllMain and          *)
(* EtwEnableCallback (WinDllMain.cpp), Initialize and Shutdown              *)
(* (WinPixEventRuntime.cpp) and the heap of BlockAllocator, around the      *)
(* EtwWriter of the module of that name.                                    *)
(*                                                                          *)
(* The DLL goes when the process exits, after all other threads have been   *)
(* terminated wherever they were, or when it is unloaded by threads that no *)
(* longer use it.  Shutdown then runs on the thread that executes DllMain,  *)
(* which takes the steps of the commands' thread.                           *)
(***************************************************************************)
EXTENDS EtwWriter

VARIABLES
    dll,             \* "loaded", then how far DLL_PROCESS_DETACH has come
    exiting,         \* the process exits
    callback,        \* the command of a callback that has passed its test
    heap             \* m_heap and m_createHeapStatus

lifeVars == <<dll, exiting, callback, heap>>
allVars == <<vars, lifeVars>>

NoCommand == "none"

\* Initialize: there is a writer, the heap is created by the first allocation.
LifeInit ==
    /\ Init
    /\ dll = "loaded" /\ exiting = FALSE
    /\ callback = NoCommand
    /\ heap = "none"
-----------------------------------------------------------------------------
Untested == dll # "unregistered"
\* ~g_detaching
MayProcess == dll = "loaded"

HeapFirst == <<"flush", "reset", "heap", "worker", "writer", "detached", "unregistered">>
(* Shutdown calls Flush, resets g_etwWriter, whose destructor flushes again *)
(* and destroys the worker, then destroys the heap.  DllMain ends the       *)
(* provider's registration last.                                            *)
Order == <<"flush", "reset", "worker", "writer", "heap", "detached", "unregistered">>

\* The stage after the present one.
Proceed(stage) ==
    /\ dll = stage
    /\ \E i \in 1 .. Len(Order) - 1 : Order[i] = stage /\ dll' = Order[i + 1]
-----------------------------------------------------------------------------
(* Threads run, and what they allocate comes from a heap that could be      *)
(* created.                                                                 *)
ThreadsRun ==
    /\ dll = "loaded"
    /\ \/ WorkerRuns
       \/ \E t \in AppThreads : AppStep(t)
    /\ IF filler' = filler THEN heap' = heap
                           ELSE heap # "failed" /\ heap' = "created"
    /\ UNCHANGED <<dll, exiting, callback>>

\* BlockAllocator::Allocate finds no heap: HeapCreate fails, now or before.
NoHeap(t) ==
    /\ dll = "loaded" /\ appPc[t] = "allocate" /\ heap \in {"none", "failed"}
    /\ heap' = "failed"
    /\ Go(t, "ready")
    /\ UNCHANGED <<workerVars, commandVars, enabled, info, current, local, ending,
                   blockVars, historyVars, dll, exiting, callback>>

\* ETW calls EtwEnableCallback, as long as the provider is registered.
Callback(command) ==
    /\ callback = NoCommand /\ ~exiting /\ dll # "unregistered"
    /\ MayProcess
    /\ callback' = command
    /\ UNCHANGED <<vars, dll, exiting, heap>>

\* The command is executed, or changes nothing.
Dispatch ==
    /\ callback # NoCommand /\ etwPc = "idle"
    /\ \/ callback = "enable" /\ (Enable \/ (isEnabled /\ UNCHANGED vars))
       \/ callback = "disable" /\ (Disable \/ (~isEnabled /\ UNCHANGED vars))
       \/ callback = "flush" /\ (Flush \/ (~isEnabled /\ UNCHANGED vars))
    /\ callback' = NoCommand
    /\ UNCHANGED <<dll, exiting, heap>>

\* A command, or Flush or Stop in Shutdown, goes on.
CommandRuns == CommandStep /\ UNCHANGED lifeVars

(* DLL_PROCESS_DETACH, while no command executes and no thread is in a      *)
(* critical section.  A worker that was terminated can be joined at once.   *)
Detach ==
    /\ dll = "loaded" /\ callback = NoCommand /\ LockFree
    /\ dll' = "flush"
    /\ \/ /\ exiting' = TRUE
          /\ pc' = [w \in Workers |-> IF w = worker THEN "returned" ELSE pc[w]]
       \/ /\ registered = {} /\ worker = NoWorker
          /\ UNCHANGED <<exiting, pc>>
    /\ UNCHANGED <<srwlock, worker, requestStop, pending, back, control, terminated, added,
                   written, commandVars, threadVars, blockVars, historyVars, callback, heap>>

\* g_etwWriter->Flush(), and the Flush of ~EtwWriter.
ShutdownFlush ==
    /\ Proceed("flush") \/ Proceed("reset")
    /\ etwPc = "idle"
    /\ Flush \/ (~isEnabled /\ UNCHANGED vars)
    /\ UNCHANGED <<exiting, callback, heap>>

\* ~ThreadedWorker calls Stop.
DestroyWorker ==
    /\ Proceed("worker") /\ etwPc = "idle"
    /\ TW!Stop \/ (worker = NoWorker /\ UNCHANGED workerVars)
    /\ UNCHANGED <<commandVars, threadVars, blockVars, historyVars, exiting, callback, heap>>

\* The members of the worker and the writer go, and with them what they own.
DestroyWriter ==
    /\ Proceed("writer") /\ control = "idle"
    /\ pending' = <<>> /\ back' = <<>>
    /\ dropped' = dropped \cup Range(pending) \cup Range(back)
    /\ UNCHANGED <<srwlock, worker, requestStop, pc, control, terminated, added, written,
                   commandVars, threadVars, blockVars, log, exiting, callback, heap>>

\* BlockAllocator::Shutdown
DestroyHeap ==
    /\ Proceed("heap") /\ etwPc = "idle"
    /\ heap' = IF heap = "created" THEN "destroyed" ELSE heap
    /\ UNCHANGED <<vars, exiting, callback>>

\* EventUnregister
EndRegistration ==
    /\ Proceed("detached")
    /\ UNCHANGED <<vars, exiting, callback, heap>>

ShutdownStep ==
    ShutdownFlush \/ DestroyWorker \/ DestroyWriter \/ DestroyHeap \/ EndRegistration

(* The blocks of threads that are alive are collected while these are at    *)
(* rest.                                                                    *)
LifeNext ==
    /\ ~terminated
    /\ \/ ThreadsRun
       \/ \E t \in AppThreads : NoHeap(t)
       \/ \E command \in Commands : Callback(command)
       \/ Dispatch \/ CommandRuns \/ Detach \/ ShutdownStep
    /\ Collecting' => exiting' \/ AtRest'

(* No thread is terminated between m_currentBlock.reset() and the reset of  *)
(* the thread info that follows, in a process whose capture has gone on     *)
(* again since the thread read that it was off: Shutdown's Flush would take *)
(* the thread info's word for it and store the end time through a null      *)
(* m_currentBlock.                                                          *)
NobodyTorn == exiting /\ isEnabled => \A t \in AppThreads : appPc[t] # "skipInfo"
WholeNext == LifeNext /\ NobodyTorn'

LifeSpec == LifeInit /\ [][WholeNext]_allVars

(* The threads are at rest all the time a Flush takes, as in the unit       *)
(* tests, so that no command ever waits for them to be.                     *)
QuietNext == WholeNext /\ (Flushing' => exiting' \/ AtRest')

(* Fairness: the thread of the commands goes on with the one it has begun,  *)
(* and with Shutdown, and the worker is scheduled as long as it is there.   *)
(* Threads may stop at any point, ETW need not send any command, and the    *)
(* DLL need not go down.                                                    *)
FairLifeSpec ==
    /\ LifeInit /\ [][QuietNext]_allVars
    /\ WF_allVars(~terminated /\ (CommandRuns \/ ShutdownStep))
    /\ \A w \in Workers :
          WF_allVars(~terminated /\ TW!WorkerStep(w) /\ WorkerRuns /\ ThreadsRun)
-----------------------------------------------------------------------------
(* WinDllMain.cpp:45: "Don't try and process ETW commands while we're       *)
(* shutting down".  While the DLL goes down nothing uses the writer after   *)
(* it, or a block after the heap, has been destroyed, and no block was ever *)
(* had without a heap.                                                      *)
UsesWhatExists ==
    [][/\ <<isEnabled, registered, etwPc, pending, worker>>'
            # <<isEnabled, registered, etwPc, pending, worker>>
            => dll \notin {"heap", "detached", "unregistered"}
       /\ <<log, dropped, filler, count>>' # <<log, dropped, filler, count>>
            => heap' = "created"]_allVars

(* Nothing is pending when the worker is destroyed, also what was handed    *)
(* over after a Disable.  After Shutdown every block has been written or    *)
(* freed, also that of a thread that was terminated in the middle of an     *)
(* event; but for the one a terminated thread was about to hand over, and   *)
(* those of threads that have not yet noticed that capture is off.          *)
ShutdownDelivers ==
    /\ dll = "writer" /\ control = "idle" => pending = <<>>
    /\ dll = "unregistered" =>
          used \ (Range(log) \cup dropped)
              \subseteq Range(local) \cup (IF isEnabled THEN {} ELSE Range(current))

(* Shutdown returns, whatever the threads were doing when they were         *)
(* terminated: it joins only a worker that has returned or never will run.  *)
ShutdownReturns == dll # "loaded" ~> dll = "unregistered"

(* A command returns, also the Flush of Shutdown: no join waits for ever    *)
(* while it holds the lock.                                                 *)
CommandsReturn == etwPc # "idle" ~> etwPc = "idle"

(* A block handed to TakeBlock is written, also after a Disable and without *)
(* any further call; only the end of the process may find it with a worker  *)
(* that was terminated.                                                     *)
TakenIsWritten ==
    \A b \in Blocks :
        b \in Range(added) ~> b \in Range(log) \/ (exiting /\ b \in dropped)
=============================================================================
