--------------------------- MODULE ThreadedWorker ----------------------------
(***************************************************************************)
(* runtime/lib/ThreadedWorker.cpp: a worker thread that writes event blocks *)
(* to ETW in the background.                                                *)
(*                                                                          *)
(* One control thread calls Start and Stop, any number of threads call Add, *)
(* and each std::thread the object creates runs Worker().  A critical       *)
(* section of m_srwlock that touches only the object's fields is one step,  *)
(* enabled while no other thread holds the lock; the lock is a variable     *)
(* because Stop keeps it over several calls of WriteBlock.                  *)
(***************************************************************************)
EXTENDS Naturals, Sequences, Functions

CONSTANTS
    Blocks,          \* the blocks handed to Add, each of them once
    Threads,         \* identities of the std::threads m_worker runs
    NoThread         \* the value of a std::thread that is not joinable

ASSUME NoThreadAssumption == NoThread \notin Threads

VARIABLES
    srwlock,         \* m_srwlock: "free", or "control" while Stop drains
    worker,          \* m_worker: the joinable thread, or NoThread
    requestStop,     \* m_requestStop
    pending,         \* m_pendingBlocks
    back,            \* m_pendingBlocksBackBuffer
    pc,              \* where each thread is in Worker()
    control,         \* where the control thread is in Start() or Stop()
    terminated,      \* std::terminate was called
    added,           \* history: the blocks in the order Add took them
    written          \* history: the blocks in the order they were written

ctlVars == <<srwlock, worker, requestStop, pc, control, terminated>>
vars == <<srwlock, worker, requestStop, pending, back, pc, control,
          terminated, added, written>>

(* pc:      "none"     no such thread                                       *)
(*          "entry"    created, has not got the lock for the first time     *)
(*          "writing"  outside the lock, writing the back buffer            *)
(*          "checking" wants the lock to test the loop conditions           *)
(*          "waiting"  blocked in m_cv.wait                                 *)
(*          "returned" Worker() has returned, the thread is not joined      *)
PCs == {"none", "entry", "writing", "checking", "waiting", "returned"}

(* control: "startJoin"/"stopJoin"     in m_worker.join(), lock released    *)
(*          "startRelock"/"stopRelock" joined, wants the lock again         *)
(*          "stopDrain"                writing what is left, under the lock *)
Controls == {"idle", "startJoin", "startRelock",
             "stopJoin", "stopRelock", "stopDrain"}

Init ==
    /\ srwlock = "free"
    /\ worker = NoThread
    /\ requestStop = TRUE
    /\ pending = <<>>
    /\ back = <<>>
    /\ pc = [w \in Threads |-> "none"]
    /\ control = "idle"
    /\ terminated = FALSE
    /\ added = <<>>
    /\ written = <<>>
-----------------------------------------------------------------------------
(* Tests and assignments of the code, each after a faulty form of it that   *)
(* the mutation runs put in its place.                                      *)

NotifyNobody == pc
\* m_cv.notify_all(): every waiting thread goes back for the lock.
NotifyAll ==
    [w \in Threads |-> IF pc[w] = "waiting" THEN "checking" ELSE pc[w]]

JoinUnderLock == srwlock' = "control"
\* lock.reset()
Unlock == srwlock' = "free"

CopyBuffer == pending' = pending /\ back' = pending
\* std::swap(m_pendingBlocks, m_pendingBlocksBackBuffer)
SwapBuffers == pending' = back /\ back' = pending

PushFront(b) == <<b>> \o pending
\* m_pendingBlocks.push_back(b)
PushBack(b) == Append(pending, b)

StartUntested == TRUE
\* Start() tests m_worker again once it has joined and has the lock.
StartNeeded == worker = NoThread

RestartOnRequest == requestStop
NeverRestart == FALSE
\* Add() restarts a worker that was stopped and joined.
RestartNeeded == requestStop /\ worker = NoThread

WaitOnQueueOnly == pending = <<>>
\* The condition of the loop around m_cv.wait.
MustWait == ~requestStop /\ pending = <<>>

DrainNothing == TRUE
\* Stop() has written what it found pending after the join.
Drained == pending = <<>>
-----------------------------------------------------------------------------
(* DoStart(), with pcs the threads after a preceding notify_all.  Assigning *)
(* to a std::thread that is joinable calls std::terminate.                  *)
DoStart(pcs) ==
    \E w \in Threads :
        /\ pcs[w] = "none"
        /\ requestStop' = FALSE
        /\ worker' = w
        /\ pc' = [pcs EXCEPT ![w] = "entry"]
        /\ terminated' = (worker # NoThread)

\* Start() and Stop() find a worker: ask it to stop and leave the lock.
RequestStop(next) ==
    /\ worker # NoThread
    /\ requestStop' = TRUE
    /\ pc' = NotifyAll
    /\ Unlock
    /\ control' = next
    /\ UNCHANGED <<worker, terminated>>

\* Start(), up to the join or to the end when there is nothing to join.
Start ==
    /\ control = "idle"
    /\ srwlock = "free"
    /\ \/ RequestStop("startJoin")
       \/ /\ worker = NoThread
          /\ DoStart(pc)
          /\ UNCHANGED <<srwlock, control>>
    /\ UNCHANGED <<pending, back, added, written>>

\* Stop(), up to the join; with no worker it does nothing.
Stop ==
    /\ control = "idle"
    /\ srwlock = "free"
    /\ RequestStop("stopJoin")
    /\ UNCHANGED <<pending, back, added, written>>

(* m_worker.join() returns once the thread has, and clears m_worker.  The   *)
(* lock is not held.                                                        *)
Join ==
    /\ control \in {"startJoin", "stopJoin"}
    /\ pc[worker] = "returned"
    /\ pc' = [pc EXCEPT ![worker] = "none"]
    /\ worker' = NoThread
    /\ control' = IF control = "startJoin" THEN "startRelock" ELSE "stopRelock"
    /\ UNCHANGED <<srwlock, requestStop, terminated>>
    /\ UNCHANGED <<pending, back, added, written>>

\* Start() has the lock again; Add() may have started a worker meanwhile.
StartRelock ==
    /\ control = "startRelock"
    /\ srwlock = "free"
    /\ \/ StartNeeded /\ DoStart(pc)
       \/ ~StartNeeded /\ UNCHANGED <<worker, requestStop, pc, terminated>>
    /\ control' = "idle"
    /\ UNCHANGED <<srwlock, pending, back, added, written>>

\* Stop() has the lock again and keeps it.
StopRelock ==
    /\ control = "stopRelock"
    /\ srwlock = "free"
    /\ srwlock' = "control"
    /\ control' = "stopDrain"
    /\ UNCHANGED <<worker, requestStop, pc, terminated>>
    /\ UNCHANGED <<pending, back, added, written>>

\* Stop() writes one of the blocks that are left.
StopWrite ==
    /\ control = "stopDrain"
    /\ pending # <<>>
    /\ written' = Append(written, Head(pending))
    /\ pending' = Tail(pending)
    /\ UNCHANGED <<ctlVars, back, added>>

\* Stop() returns.
StopReturn ==
    /\ control = "stopDrain"
    /\ Drained
    /\ Unlock
    /\ control' = "idle"
    /\ UNCHANGED <<worker, requestStop, pc, terminated>>
    /\ UNCHANGED <<pending, back, added, written>>

Add(b) ==
    /\ srwlock = "free"
    /\ pending' = PushBack(b)
    /\ added' = Append(added, b)
    /\ \/ RestartNeeded /\ DoStart(NotifyAll)
       \/ /\ ~RestartNeeded
          /\ pc' = NotifyAll
          /\ UNCHANGED <<worker, requestStop, terminated>>
    /\ UNCHANGED <<srwlock, back, control, written>>
-----------------------------------------------------------------------------
\* Worker() gets the lock for the first time and tests no condition.
WorkerEntry(w) ==
    /\ pc[w] = "entry"
    /\ srwlock = "free"
    /\ SwapBuffers
    /\ pc' = [pc EXCEPT ![w] = "writing"]
    /\ UNCHANGED <<srwlock, worker, requestStop, control, terminated, added, written>>

\* One block of the back buffer is written, outside the lock.
WorkerWrite(w) ==
    /\ pc[w] = "writing"
    /\ back # <<>>
    /\ written' = Append(written, Head(back))
    /\ back' = Tail(back)
    /\ UNCHANGED <<ctlVars, pending, added>>

\* The back buffer is written and cleared.
WorkerWritten(w) ==
    /\ pc[w] = "writing"
    /\ back = <<>>
    /\ pc' = [pc EXCEPT ![w] = "checking"]
    /\ UNCHANGED <<srwlock, worker, requestStop, control, terminated>>
    /\ UNCHANGED <<pending, back, added, written>>

(* With the lock: wait for a notification, leave the loop on a stop request *)
(* even if blocks are pending, or take them.                                *)
WorkerCheck(w) ==
    /\ pc[w] = "checking"
    /\ srwlock = "free"
    /\ \/ /\ MustWait
          /\ pc' = [pc EXCEPT ![w] = "waiting"]
          /\ UNCHANGED <<pending, back>>
       \/ /\ ~MustWait /\ requestStop
          /\ pc' = [pc EXCEPT ![w] = "returned"]
          /\ UNCHANGED <<pending, back>>
       \/ /\ ~MustWait /\ ~requestStop
          /\ pc' = [pc EXCEPT ![w] = "writing"]
          /\ SwapBuffers
    /\ UNCHANGED <<srwlock, worker, requestStop, control, terminated, added, written>>

\* A condition variable may wake a thread that nobody notified.
SpuriousWake(w) ==
    /\ pc[w] = "waiting"
    /\ pc' = [pc EXCEPT ![w] = "checking"]
    /\ UNCHANGED <<srwlock, worker, requestStop, control, terminated>>
    /\ UNCHANGED <<pending, back, added, written>>
-----------------------------------------------------------------------------
\* The part of Start() and Stop() that runs once the call is made.
ControlStep == Join \/ StartRelock \/ StopRelock \/ StopWrite \/ StopReturn

WorkerStep(w) ==
    WorkerEntry(w) \/ WorkerWrite(w) \/ WorkerWritten(w) \/ WorkerCheck(w)

Internal ==
    \/ ControlStep
    \/ \E w \in Threads : WorkerStep(w) \/ SpuriousWake(w)

AddNew == \E b \in Blocks \ Range(added) : Add(b)

Next == ~terminated /\ (Start \/ Stop \/ Internal \/ AddNew)

(* The callers' use in EtwWriter: every call is made, and returns, under    *)
(* EtwWriter's own lock, so no Add comes while Start or Stop runs.          *)
SerialNext == Next /\ (added' # added => control = "idle")

(* Fairness: a thread that can take a step is scheduled.  Nobody has to     *)
(* call Start, Stop or Add, and no wakeup is owed without a notification.   *)
Fairness ==
    /\ WF_vars(~terminated /\ ControlStep)
    /\ \A w \in Threads : WF_vars(~terminated /\ WorkerStep(w))

Spec == Init /\ [][Next]_vars /\ Fairness
SerialSpec == Init /\ [][SerialNext]_vars /\ Fairness
-----------------------------------------------------------------------------
(* The types, and who is where: Stop() is draining exactly while the        *)
(* control thread holds the lock, and who joins has a thread to join.       *)
TypeOK ==
    /\ srwlock \in {"free", "control"}
    /\ worker \in Threads \cup {NoThread}
    /\ requestStop \in BOOLEAN
    /\ pending \in Seq(Blocks)
    /\ back \in Seq(Blocks)
    /\ pc \in [Threads -> PCs]
    /\ control \in Controls
    /\ terminated \in BOOLEAN
    /\ added \in Seq(Blocks)
    /\ written \in Seq(Blocks)
    /\ srwlock = "control" <=> control = "stopDrain"
    /\ control \in {"startJoin", "stopJoin"} => worker # NoThread

(* No interleaving of Start, Stop and Add assigns a new std::thread over a  *)
(* joinable one: the crash ThreadedWorkerRaceTest.cpp describes.            *)
NoTerminate == ~terminated

(* Two threads never run Worker() at once, which is what makes the use of   *)
(* the back buffer outside the lock (lines 115-119) safe.                   *)
Alive(w) == pc[w] \notin {"none", "returned"}
OneWorker == \A v, w \in Threads : Alive(v) /\ Alive(w) => v = w

(* A thread whose Worker() waits for a notification has nothing to do: no   *)
(* block is pending and no stop is requested, however the notifications of  *)
(* Start, Stop and Add interleave with its checks.                          *)
NoLostWakeup ==
    \A w \in Threads : pc[w] = "waiting" => pending = <<>> /\ ~requestStop

(* A block added is pending, in the back buffer or written, and never in    *)
(* two of these places or twice in one.                                     *)
ExactlyOnce ==
    /\ Range(added) = Range(pending) \cup Range(back) \cup Range(written)
    /\ IsInjective(pending) /\ IsInjective(back) /\ IsInjective(written)
    /\ Range(pending) \cap Range(back) = {}
    /\ Range(pending) \cap Range(written) = {}
    /\ Range(back) \cap Range(written) = {}

(* A block is never left behind without a thread that will write it: while  *)
(* blocks are pending there is a worker, or a Start or Stop that picks them *)
(* up before it returns.                                                    *)
NoOrphans == pending # <<>> => worker # NoThread \/ control # "idle"

(* Serialised calls: blocks are written in the order they were added.       *)
InOrder == added = written \o back \o pending

(* Serialised calls: when Stop() returns everything added is written, no    *)
(* worker runs and none is running by itself until the next call.           *)
StoppedIsDrained ==
    control = "idle" /\ worker = NoThread =>
        /\ written = added
        /\ \A w \in Threads : pc[w] = "none"

(* A call of Start or Stop returns: the thread it joins does end.           *)
CallsReturn == control # "idle" ~> control = "idle"

Sink == INSTANCE BlockSink
            WITH waiting <- Range(pending) \cup Range(back)
(* The worker implements the abstract sink: every block added is written,   *)
(* once, whatever Start and Stop are called meanwhile.                      *)
ImplementsSink == Sink!Spec

Queue == INSTANCE BlockQueue WITH queue <- back \o pending
(* Serialised calls: the worker implements a FIFO queue.                    *)
ImplementsQueue == Queue!Spec
=============================================================================
