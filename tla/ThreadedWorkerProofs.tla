------------------------- MODULE ThreadedWorkerProofs -------------------------
(***************************************************************************)
(* Proofs about ThreadedWorker, for any set of blocks and any set of        *)
(* threads: who is alive and who wakes whom; and of the blocks that flow    *)
(* through it, that none is lost or written twice, that callers who         *)
(* serialise their calls get them in order, and that the worker implements  *)
(* the abstract specifications of its promise.                              *)
(***************************************************************************)
EXTENDS ThreadedWorker, SequenceTheorems, TLAPS

(***************************************************************************)
(* The inductive invariant: m_worker is the only thread there is, from its  *)
(* creation to its join; a stop stays requested from the request until a    *)
(* new worker is started; the back buffer is in use only while a thread     *)
(* writes it.  NoTerminate alone is not inductive: that Start() may create  *)
(* a worker rests on who owns m_worker between its two critical sections.   *)
(***************************************************************************)
OnlyWorker ==
    /\ \A w \in Threads : pc[w] # "none" <=> worker = w
    /\ worker = NoThread => requestStop
    /\ control \in {"startJoin", "stopJoin"} => requestStop

BackInUse == back # <<>> => \E w \in Threads : pc[w] = "writing"

IInv ==
    /\ TypeOK
    /\ NoTerminate
    /\ OnlyWorker
    /\ BackInUse
    /\ NoLostWakeup
    /\ NoOrphans
-----------------------------------------------------------------------------
\* The initial state satisfies the invariant.
LEMMA InitIInv == Init => IInv
  <1> SUFFICES ASSUME Init PROVE IInv
    OBVIOUS
  <1> USE DEF Init
  <1>1. pc \in [Threads -> PCs]
    BY DEF PCs
  <1>2. /\ requestStop \in BOOLEAN /\ terminated \in BOOLEAN
        /\ srwlock = "control" <=> control = "stopDrain"
    OBVIOUS
  <1>3. TypeOK
    BY <1>1, <1>2 DEF TypeOK, Controls
  <1>4. OnlyWorker
    BY NoThreadAssumption DEF OnlyWorker, NoThreadAssumption
  <1>5. NoTerminate /\ BackInUse /\ NoLostWakeup /\ NoOrphans
    BY DEF NoTerminate, BackInUse, NoLostWakeup, NoOrphans
  <1>6. QED
    BY <1>3, <1>4, <1>5 DEF IInv

\* Every step of the control thread, an adder or a worker thread keeps it.
LEMMA NextIInv == IInv /\ [Next]_vars => IInv'
  <1> SUFFICES ASSUME IInv, [Next]_vars PROVE IInv'
    OBVIOUS
  <1> USE NoThreadAssumption DEF IInv, NoThreadAssumption
  <1>1. CASE Start
    <2>1. TypeOK'
      BY <1>1 DEF TypeOK, Start, RequestStop, DoStart, NotifyAll, Unlock,
         PCs, Controls
    <2>2. NoTerminate' /\ OnlyWorker'
      BY <1>1 DEF NoTerminate, OnlyWorker, TypeOK, Start, RequestStop,
         DoStart, NotifyAll, Unlock
    <2>3. BackInUse' /\ NoLostWakeup' /\ NoOrphans'
      BY <1>1 DEF BackInUse, NoLostWakeup, NoOrphans, OnlyWorker, TypeOK,
         Start, RequestStop, DoStart, NotifyAll, Unlock
    <2>4. QED
      BY <2>1, <2>2, <2>3
  <1>2. CASE Stop
    <2>1. TypeOK'
      BY <1>2 DEF TypeOK, Stop, RequestStop, NotifyAll, Unlock, PCs,
         Controls
    <2>2. NoTerminate' /\ OnlyWorker'
      BY <1>2 DEF NoTerminate, OnlyWorker, TypeOK, Stop, RequestStop,
         NotifyAll, Unlock
    <2>3. BackInUse' /\ NoLostWakeup' /\ NoOrphans'
      BY <1>2 DEF BackInUse, NoLostWakeup, NoOrphans, OnlyWorker, TypeOK,
         Stop, RequestStop, NotifyAll, Unlock
    <2>4. QED
      BY <2>1, <2>2, <2>3
  <1>3. CASE Join
    <2>1. TypeOK'
      BY <1>3 DEF TypeOK, Join, PCs, Controls
    <2>2. NoTerminate' /\ OnlyWorker'
      BY <1>3 DEF NoTerminate, OnlyWorker, TypeOK, Join
    <2>3. BackInUse' /\ NoLostWakeup' /\ NoOrphans'
      BY <1>3 DEF BackInUse, NoLostWakeup, NoOrphans, OnlyWorker, TypeOK,
         Join
    <2>4. QED
      BY <2>1, <2>2, <2>3
  <1>4. CASE StartRelock
    <2>1. TypeOK'
      BY <1>4 DEF TypeOK, StartRelock, StartNeeded, DoStart, PCs, Controls
    <2>2. NoTerminate' /\ OnlyWorker'
      BY <1>4 DEF NoTerminate, OnlyWorker, TypeOK, StartRelock, StartNeeded,
         DoStart
    <2>3. BackInUse' /\ NoLostWakeup' /\ NoOrphans'
      BY <1>4 DEF BackInUse, NoLostWakeup, NoOrphans, OnlyWorker, TypeOK,
         StartRelock, StartNeeded, DoStart
    <2>4. QED
      BY <2>1, <2>2, <2>3
  <1>5. CASE StopRelock
    <2>1. TypeOK'
      BY <1>5 DEF TypeOK, StopRelock, PCs, Controls
    <2>2. NoTerminate' /\ OnlyWorker'
      BY <1>5 DEF NoTerminate, OnlyWorker, TypeOK, StopRelock
    <2>3. BackInUse' /\ NoLostWakeup' /\ NoOrphans'
      BY <1>5 DEF BackInUse, NoLostWakeup, NoOrphans, OnlyWorker, TypeOK,
         StopRelock
    <2>4. QED
      BY <2>1, <2>2, <2>3
  <1>6. CASE StopWrite
    <2>1. TypeOK'
      BY <1>6 DEF TypeOK, StopWrite, ctlVars, PCs, Controls
    <2>2. NoTerminate' /\ OnlyWorker'
      BY <1>6 DEF NoTerminate, OnlyWorker, TypeOK, StopWrite, ctlVars
    <2>3. BackInUse' /\ NoLostWakeup' /\ NoOrphans'
      BY <1>6 DEF BackInUse, NoLostWakeup, NoOrphans, OnlyWorker, TypeOK,
         StopWrite, ctlVars
    <2>4. QED
      BY <2>1, <2>2, <2>3
  <1>7. CASE StopReturn
    <2>1. TypeOK'
      BY <1>7 DEF TypeOK, StopReturn, Drained, Unlock, PCs, Controls
    <2>2. NoTerminate' /\ OnlyWorker'
      BY <1>7 DEF NoTerminate, OnlyWorker, TypeOK, StopReturn, Drained,
         Unlock
    <2>3. BackInUse' /\ NoLostWakeup' /\ NoOrphans'
      BY <1>7 DEF BackInUse, NoLostWakeup, NoOrphans, OnlyWorker, TypeOK,
         StopReturn, Drained, Unlock
    <2>4. QED
      BY <2>1, <2>2, <2>3
  <1>8. ASSUME NEW w \in Threads, WorkerEntry(w) PROVE IInv'
    <2>1. TypeOK'
      BY <1>8 DEF TypeOK, WorkerEntry, SwapBuffers, PCs, Controls
    <2>2. NoTerminate' /\ OnlyWorker'
      BY <1>8 DEF NoTerminate, OnlyWorker, TypeOK, WorkerEntry, SwapBuffers
    <2>3. BackInUse' /\ NoLostWakeup' /\ NoOrphans'
      BY <1>8 DEF BackInUse, NoLostWakeup, NoOrphans, OnlyWorker, TypeOK,
         WorkerEntry, SwapBuffers
    <2>4. QED
      BY <2>1, <2>2, <2>3
  <1>9. ASSUME NEW w \in Threads, WorkerWrite(w) PROVE IInv'
    <2>1. TypeOK'
      BY <1>9 DEF TypeOK, WorkerWrite, ctlVars, PCs, Controls
    <2>2. NoTerminate' /\ OnlyWorker'
      BY <1>9 DEF NoTerminate, OnlyWorker, TypeOK, WorkerWrite, ctlVars
    <2>3. BackInUse' /\ NoLostWakeup' /\ NoOrphans'
      BY <1>9 DEF BackInUse, NoLostWakeup, NoOrphans, OnlyWorker, TypeOK,
         WorkerWrite, ctlVars
    <2>4. QED
      BY <2>1, <2>2, <2>3
  <1>10. ASSUME NEW w \in Threads, WorkerWritten(w) PROVE IInv'
    <2>1. TypeOK'
      BY <1>10 DEF TypeOK, WorkerWritten, PCs, Controls
    <2>2. NoTerminate' /\ OnlyWorker'
      BY <1>10 DEF NoTerminate, OnlyWorker, TypeOK, WorkerWritten
    <2>3. BackInUse' /\ NoLostWakeup' /\ NoOrphans'
      BY <1>10 DEF BackInUse, NoLostWakeup, NoOrphans, OnlyWorker, TypeOK,
         WorkerWritten
    <2>4. QED
      BY <2>1, <2>2, <2>3
  <1>11. ASSUME NEW w \in Threads, WorkerCheck(w) PROVE IInv'
    <2>1. TypeOK'
      BY <1>11 DEF TypeOK, WorkerCheck, MustWait, SwapBuffers, PCs, Controls
    <2>2. NoTerminate' /\ OnlyWorker'
      BY <1>11 DEF NoTerminate, OnlyWorker, TypeOK, WorkerCheck, MustWait,
         SwapBuffers
    <2>3. BackInUse' /\ NoLostWakeup' /\ NoOrphans'
      BY <1>11 DEF BackInUse, NoLostWakeup, NoOrphans, OnlyWorker, TypeOK,
         WorkerCheck, MustWait, SwapBuffers
    <2>4. QED
      BY <2>1, <2>2, <2>3
  <1>12. ASSUME NEW w \in Threads, SpuriousWake(w) PROVE IInv'
    <2>1. TypeOK'
      BY <1>12 DEF TypeOK, SpuriousWake, PCs, Controls
    <2>2. NoTerminate' /\ OnlyWorker'
      BY <1>12 DEF NoTerminate, OnlyWorker, TypeOK, SpuriousWake
    <2>3. BackInUse' /\ NoLostWakeup' /\ NoOrphans'
      BY <1>12 DEF BackInUse, NoLostWakeup, NoOrphans, OnlyWorker, TypeOK,
         SpuriousWake
    <2>4. QED
      BY <2>1, <2>2, <2>3
  <1>13. ASSUME NEW b \in Blocks, Add(b) PROVE IInv'
    <2>1. TypeOK'
      <3>1. pending' \in Seq(Blocks) /\ added' \in Seq(Blocks)
        BY <1>13 DEF TypeOK, Add, PushBack
      <3>2. UNCHANGED <<srwlock, back, control, written>>
        BY <1>13 DEF Add
      <3>3. /\ worker' \in Threads \cup {NoThread}
            /\ worker # NoThread => worker' # NoThread
            /\ requestStop' \in BOOLEAN /\ terminated' \in BOOLEAN
        BY <1>13 DEF TypeOK, Add, PushBack, RestartNeeded, DoStart,
           NotifyAll
      <3>4. pc' \in [Threads -> PCs]
        BY <1>13 DEF TypeOK, Add, PushBack, RestartNeeded, DoStart,
           NotifyAll, PCs
      <3>5. QED
        BY <3>1, <3>2, <3>3, <3>4 DEF TypeOK
    <2>2. NoTerminate' /\ OnlyWorker'
      BY <1>13 DEF NoTerminate, OnlyWorker, TypeOK, Add, PushBack,
         RestartNeeded, DoStart, NotifyAll
    <2>3. BackInUse' /\ NoLostWakeup' /\ NoOrphans'
      BY <1>13 DEF BackInUse, NoLostWakeup, NoOrphans, OnlyWorker, TypeOK,
         Add, PushBack, RestartNeeded, DoStart, NotifyAll
    <2>4. QED
      BY <2>1, <2>2, <2>3
  <1>14. CASE UNCHANGED vars
    <2>1. TypeOK'
      BY <1>14 DEF TypeOK, vars, PCs, Controls
    <2>2. NoTerminate' /\ OnlyWorker'
      BY <1>14 DEF NoTerminate, OnlyWorker, TypeOK, vars
    <2>3. BackInUse' /\ NoLostWakeup' /\ NoOrphans'
      BY <1>14 DEF BackInUse, NoLostWakeup, NoOrphans, OnlyWorker, TypeOK,
         vars
    <2>4. QED
      BY <2>1, <2>2, <2>3
  <1>15. QED
    BY <1>1, <1>2, <1>3, <1>4, <1>5, <1>6, <1>7, <1>8, <1>9, <1>10, <1>11,
       <1>12, <1>13, <1>14 DEF Next, Internal, ControlStep, WorkerStep,
       AddNew

\* The invariant holds in every reachable state.
LEMMA Invariant == Spec => []IInv
  BY InitIInv, NextIInv, PTL DEF Spec

(* The types hold, Stop() drains exactly while the control thread has the   *)
(* lock, and a join has a thread to wait for.                               *)
THEOREM TypeCorrect == Spec => []TypeOK
  <1>1. IInv => TypeOK
    BY DEF IInv
  <1>2. QED
    BY <1>1, Invariant, PTL

(* The crash the race test was written for cannot happen: DoStart() never   *)
(* assigns over a joinable m_worker, however Start, Stop and Add interleave. *)
THEOREM NeverTerminates == Spec => []NoTerminate
  <1>1. IInv => NoTerminate
    BY DEF IInv
  <1>2. QED
    BY <1>1, Invariant, PTL

(* At most one thread runs Worker(), so the back buffer has one user        *)
(* although lines 115-119 touch it outside the lock.                        *)
THEOREM WorkerIsAlone == Spec => []OneWorker
  <1>1. IInv => OneWorker
    BY DEF IInv, OnlyWorker, OneWorker, Alive
  <1>2. QED
    BY <1>1, Invariant, PTL

(* No notification is lost: a thread in m_cv.wait has no block to write and *)
(* no stop to obey.                                                         *)
THEOREM WakeupsArrive == Spec => []NoLostWakeup
  <1>1. IInv => NoLostWakeup
    BY DEF IInv
  <1>2. QED
    BY <1>1, Invariant, PTL

(* A pending block always has a worker, or a call that has not returned, to *)
(* pick it up.                                                              *)
THEOREM BlocksHaveAWriter == Spec => []NoOrphans
  <1>1. IInv => NoOrphans
    BY DEF IInv
  <1>2. QED
    BY <1>1, Invariant, PTL
-----------------------------------------------------------------------------
\* Appending an element that is not there keeps a sequence duplicate-free.
LEMMA AppendElements ==
  ASSUME NEW S, NEW s \in Seq(S), NEW e \in S
  PROVE  /\ Append(s, e) \in Seq(S)
         /\ Range(Append(s, e)) = Range(s) \cup {e}
         /\ IsInjective(s) /\ e \notin Range(s) => IsInjective(Append(s, e))
  <1>1. /\ Append(s, e) \in Seq(S)
        /\ Len(Append(s, e)) = Len(s) + 1
        /\ \A i \in 1 .. Len(s) : Append(s, e)[i] = s[i]
        /\ Append(s, e)[Len(s) + 1] = e
    BY AppendProperties
  <1>2. /\ Len(s) \in Nat
        /\ DOMAIN s = 1 .. Len(s)
        /\ DOMAIN Append(s, e) = 1 .. Len(s) + 1
    BY <1>1, LenProperties
  <1>3. Range(Append(s, e)) = Range(s) \cup {e}
    BY <1>1, <1>2 DEF Range
  <1>4. ASSUME IsInjective(s), e \notin Range(s),
               NEW i \in 1 .. Len(s) + 1, NEW j \in 1 .. Len(s) + 1,
               Append(s, e)[i] = Append(s, e)[j]
        PROVE  i = j
    BY <1>1, <1>2, <1>4 DEF Range, IsInjective
  <1>5. QED
    BY <1>1, <1>2, <1>3, <1>4 DEF IsInjective

\* The head of a duplicate-free sequence is not in its tail.
LEMMA HeadTailElements ==
  ASSUME NEW S, NEW s \in Seq(S), s # <<>>
  PROVE  /\ Head(s) \in S /\ Tail(s) \in Seq(S)
         /\ Range(s) = {Head(s)} \cup Range(Tail(s))
         /\ IsInjective(s) => /\ Head(s) \notin Range(Tail(s))
                              /\ IsInjective(Tail(s))
  <1>1. /\ Head(s) \in S
        /\ Tail(s) \in Seq(S)
        /\ Len(Tail(s)) = Len(s) - 1
        /\ \A i \in 1 .. Len(Tail(s)) : Tail(s)[i] = s[i + 1]
    BY HeadTailProperties
  <1>2. /\ Len(s) \in Nat /\ Len(s) # 0
        /\ Head(s) = s[1]
        /\ DOMAIN s = 1 .. Len(s)
        /\ DOMAIN Tail(s) = 1 .. Len(s) - 1
    BY <1>1, LenProperties, EmptySeq
  <1>3. Range(s) \subseteq {Head(s)} \cup Range(Tail(s))
    <2>1. ASSUME NEW i \in 1 .. Len(s) PROVE s[i] \in {Head(s)} \cup Range(Tail(s))
      <3>1. CASE i = 1
        BY <3>1, <1>2
      <3>2. CASE i # 1
        <4>1. i - 1 \in 1 .. Len(s) - 1 /\ Tail(s)[i - 1] = s[i]
          BY <3>2, <1>1, <1>2
        <4>2. QED
          BY <4>1, <1>2 DEF Range
      <3>3. QED
        BY <3>1, <3>2
    <2>2. QED
      BY <2>1, <1>2 DEF Range
  <1>4. {Head(s)} \cup Range(Tail(s)) \subseteq Range(s)
    BY <1>1, <1>2 DEF Range
  <1>5. ASSUME IsInjective(s) PROVE Head(s) \notin Range(Tail(s)) /\ IsInjective(Tail(s))
    BY <1>1, <1>2, <1>5 DEF Range, IsInjective
  <1>6. QED
    BY <1>1, <1>3, <1>4, <1>5
-----------------------------------------------------------------------------
(* The steps of ThreadedWorker as the blocks see them.                      *)
Adding ==
    \E b \in Blocks \ Range(added) :
        /\ pending' = Append(pending, b)
        /\ added' = Append(added, b)
        /\ UNCHANGED <<back, written>>
Draining ==
    /\ control = "stopDrain"
    /\ pending # <<>>
    /\ written' = Append(written, Head(pending))
    /\ pending' = Tail(pending)
    /\ UNCHANGED <<back, added>>
Writing ==
    /\ back # <<>>
    /\ written' = Append(written, Head(back))
    /\ back' = Tail(back)
    /\ UNCHANGED <<pending, added>>
Swapping ==
    /\ back = <<>>
    /\ back' = pending
    /\ pending' = back
    /\ UNCHANGED <<added, written>>
Resting == UNCHANGED <<pending, back, added, written>>

(* Every step is one of them; the back buffer is empty when it is swapped,  *)
(* because the only thread that could be writing it is the one swapping.    *)
LEMMA BlockSteps ==
  IInv /\ [Next]_vars => Adding \/ Draining \/ Writing \/ Swapping \/ Resting
  <1> SUFFICES ASSUME IInv, [Next]_vars
               PROVE  Adding \/ Draining \/ Writing \/ Swapping \/ Resting
    OBVIOUS
  <1>1. CASE Start \/ Stop \/ Join \/ StartRelock \/ StopRelock \/ StopReturn
    BY <1>1 DEF Start, Stop, Join, StartRelock, StopRelock, StopReturn, Resting
  <1>2. CASE StopWrite
    BY <1>2 DEF StopWrite, Draining
  <1>3. ASSUME NEW w \in Threads, pc[w] # "none", pc[w] # "writing"
        PROVE  back = <<>>
    BY <1>3 DEF IInv, BackInUse, OnlyWorker
  <1>4. ASSUME NEW w \in Threads, WorkerEntry(w) PROVE Swapping
    BY <1>3, <1>4 DEF WorkerEntry, SwapBuffers, Swapping
  <1>5. ASSUME NEW w \in Threads, WorkerWrite(w) PROVE Writing
    BY <1>5 DEF WorkerWrite, Writing
  <1>6. ASSUME NEW w \in Threads, WorkerCheck(w) PROVE Swapping \/ Resting
    BY <1>3, <1>6 DEF WorkerCheck, SwapBuffers, Swapping, Resting
  <1>7. ASSUME NEW w \in Threads, WorkerWritten(w) \/ SpuriousWake(w) PROVE Resting
    BY <1>7 DEF WorkerWritten, SpuriousWake, Resting
  <1>8. CASE AddNew
    BY <1>8 DEF AddNew, Add, PushBack, Adding
  <1>9. CASE UNCHANGED vars
    BY <1>9 DEF vars, Resting
  <1>10. QED
    BY <1>1, <1>2, <1>4, <1>5, <1>6, <1>7, <1>8, <1>9
       DEF Next, Internal, ControlStep, WorkerStep
-----------------------------------------------------------------------------
\* A step of the blocks keeps every block in exactly one place.
LEMMA NextExactlyOnce ==
  IInv /\ ExactlyOnce /\ [Next]_vars => ExactlyOnce'
  <1> SUFFICES ASSUME IInv, ExactlyOnce, [Next]_vars PROVE ExactlyOnce'
    OBVIOUS
  <1>1. /\ pending \in Seq(Blocks) /\ back \in Seq(Blocks)
        /\ added \in Seq(Blocks) /\ written \in Seq(Blocks)
    BY DEF IInv, TypeOK
  <1>2. CASE Adding
    <2>1. PICK b \in Blocks \ Range(added) :
            /\ pending' = Append(pending, b)
            /\ added' = Append(added, b)
            /\ UNCHANGED <<back, written>>
      BY <1>2 DEF Adding
    <2>2. /\ Range(pending') = Range(pending) \cup {b}
          /\ Range(added') = Range(added) \cup {b}
          /\ IsInjective(pending) /\ b \notin Range(pending) => IsInjective(pending')
      BY <2>1, <1>1, AppendElements
    <2>3. QED
      BY <2>1, <2>2 DEF ExactlyOnce
  <1>3. CASE Draining
    <2>1. /\ Head(pending) \in Blocks
          /\ Range(pending) = {Head(pending)} \cup Range(pending')
          /\ Head(pending) \notin Range(pending') /\ IsInjective(pending')
      BY <1>1, <1>3, HeadTailElements DEF Draining, ExactlyOnce
    <2>2. /\ Range(written') = Range(written) \cup {Head(pending)}
          /\ Head(pending) \notin Range(written) => IsInjective(written')
      BY <1>1, <1>3, <2>1, AppendElements DEF Draining, ExactlyOnce
    <2>3. UNCHANGED <<back, added>>
      BY <1>3 DEF Draining
    <2>4. QED
      BY <2>1, <2>2, <2>3 DEF ExactlyOnce
  <1>4. CASE Writing
    <2>1. /\ Head(back) \in Blocks
          /\ Range(back) = {Head(back)} \cup Range(back')
          /\ Head(back) \notin Range(back') /\ IsInjective(back')
      BY <1>1, <1>4, HeadTailElements DEF Writing, ExactlyOnce
    <2>2. /\ Range(written') = Range(written) \cup {Head(back)}
          /\ Head(back) \notin Range(written) => IsInjective(written')
      BY <1>1, <1>4, <2>1, AppendElements DEF Writing, ExactlyOnce
    <2>3. UNCHANGED <<pending, added>>
      BY <1>4 DEF Writing
    <2>4. QED
      BY <2>1, <2>2, <2>3 DEF ExactlyOnce
  <1>5. CASE Swapping
    BY <1>5 DEF Swapping, ExactlyOnce
  <1>6. CASE Resting
    BY <1>6 DEF Resting, ExactlyOnce
  <1>7. QED
    BY <1>2, <1>3, <1>4, <1>5, <1>6, BlockSteps

\* Nothing is anywhere in the initial state.
LEMMA InitExactlyOnce == Init => ExactlyOnce
  BY DEF Init, ExactlyOnce, Range, IsInjective

(* Every block handed to Add is pending, in the back buffer or written, and *)
(* in one of these places only, once: no interleaving of Start, Stop, Add   *)
(* and the worker threads loses a block or writes it twice.                 *)
THEOREM NothingLostOrRepeated == Spec => []ExactlyOnce
  BY Invariant, InitExactlyOnce, NextExactlyOnce, PTL DEF Spec

(* Spec's steps are steps of the abstract sink: accepting a block that was  *)
(* never seen, writing one that waits, or nothing it can see.               *)
LEMMA SinkStep ==
  IInv /\ ExactlyOnce /\ [Next]_vars => [Sink!Next]_(Sink!vars)
  <1> SUFFICES ASSUME IInv, ExactlyOnce, [Next]_vars
               PROVE  [Sink!Next]_(Sink!vars)
    OBVIOUS
  <1> DEFINE waiting == Range(pending) \cup Range(back)
  <1>1. /\ pending \in Seq(Blocks) /\ back \in Seq(Blocks)
        /\ added \in Seq(Blocks) /\ written \in Seq(Blocks)
    BY DEF IInv, TypeOK
  <1>2. CASE Adding
    <2>1. PICK b \in Blocks \ Range(added) :
            /\ pending' = Append(pending, b)
            /\ UNCHANGED <<back, written>>
      BY <1>2 DEF Adding
    <2>2. waiting' = waiting \cup {b}
      BY <2>1, <1>1, AppendElements
    <2>3. b \notin waiting \cup Range(written)
      BY DEF ExactlyOnce
    <2>4. written' = written
      BY <2>1
    <2>5. Sink!Accept(b)
      BY <2>2, <2>3, <2>4 DEF Sink!Accept, Sink!Range, Range
    <2>6. QED
      BY <2>5 DEF Sink!Next
  <1>3. CASE Draining
    <2>1. /\ Head(pending) \in Blocks
          /\ Range(pending) = {Head(pending)} \cup Range(pending')
          /\ Head(pending) \notin Range(pending')
      BY <1>1, <1>3, HeadTailElements DEF Draining, ExactlyOnce
    <2>2. back' = back /\ written' = Append(written, Head(pending))
      BY <1>3 DEF Draining
    <2>3. /\ Head(pending) \in waiting
          /\ waiting' = waiting \ {Head(pending)}
      BY <2>1, <2>2 DEF ExactlyOnce
    <2>4. QED
      BY <2>1, <2>2, <2>3 DEF Sink!Write, Sink!Next
  <1>4. CASE Writing
    <2>1. /\ Head(back) \in Blocks
          /\ Range(back) = {Head(back)} \cup Range(back')
          /\ Head(back) \notin Range(back')
      BY <1>1, <1>4, HeadTailElements DEF Writing, ExactlyOnce
    <2>2. pending' = pending /\ written' = Append(written, Head(back))
      BY <1>4 DEF Writing
    <2>3. /\ Head(back) \in waiting
          /\ waiting' = waiting \ {Head(back)}
      BY <2>1, <2>2 DEF ExactlyOnce
    <2>4. QED
      BY <2>1, <2>2, <2>3 DEF Sink!Write, Sink!Next
  <1>5. CASE Swapping \/ Resting
    <2>1. waiting' = waiting /\ written' = written
      BY <1>5 DEF Swapping, Resting
    <2>2. QED
      BY <2>1 DEF Sink!vars
  <1>6. QED
    BY <1>2, <1>3, <1>4, <1>5, BlockSteps

(* The worker implements the safety part of the abstract sink.              *)
THEOREM WorkerIsASink == Spec => Sink!Init /\ [][Sink!Next]_(Sink!vars)
  <1>1. Init => Sink!Init
    BY DEF Init, Sink!Init, Range
  <1>2. QED
    BY <1>1, SinkStep, Invariant, NothingLostOrRepeated, PTL DEF Spec
-----------------------------------------------------------------------------
(***************************************************************************)
(* Serialised callers.  No Add() can restart a worker between the join and  *)
(* the end of the call, so Stop() drains with no worker about: that is what *)
(* keeps the blocks in order, and what concurrent callers do not have.      *)
(***************************************************************************)
JoinedAlone ==
    control \in {"startRelock", "stopRelock", "stopDrain"} => worker = NoThread

SInv == IInv /\ JoinedAlone /\ InOrder

\* Only Add() could create a worker while a call is between its two sections.
LEMMA NextJoinedAlone ==
  IInv /\ JoinedAlone /\ [SerialNext]_vars => JoinedAlone'
  <1> SUFFICES ASSUME IInv, JoinedAlone, [SerialNext]_vars PROVE JoinedAlone'
    OBVIOUS
  <1> USE DEF JoinedAlone
  <1>1. ASSUME NEW b \in Blocks, Add(b), control = "idle" PROVE JoinedAlone'
    BY <1>1 DEF Add
  <1>2. ASSUME NEW b \in Blocks, Add(b) PROVE added' # added
    BY <1>2, AppendProperties DEF Add, IInv, TypeOK
  <1>3. CASE Start \/ Stop
    BY <1>3 DEF Start, Stop, RequestStop
  <1>4. CASE ControlStep
    BY <1>4 DEF ControlStep, Join, StartRelock, StopRelock, StopWrite, StopReturn,
                ctlVars
  <1>5. ASSUME NEW w \in Threads, WorkerStep(w) \/ SpuriousWake(w) PROVE JoinedAlone'
    BY <1>5 DEF WorkerStep, WorkerEntry, WorkerWrite, WorkerWritten, WorkerCheck,
                SpuriousWake, ctlVars
  <1>6. CASE UNCHANGED vars
    BY <1>6 DEF vars
  <1>7. QED
    BY <1>1, <1>2, <1>3, <1>4, <1>5, <1>6 DEF SerialNext, Next, Internal, AddNew

\* Head and Tail of a sequence put together again.
LEMMA HeadConcatTail ==
  ASSUME NEW S, NEW s \in Seq(S), s # <<>>
  PROVE  /\ Head(s) \in S /\ Tail(s) \in Seq(S)
         /\ s = <<Head(s)>> \o Tail(s)
  <1>1. /\ Head(s) \in S /\ Tail(s) \in Seq(S)
        /\ Len(Tail(s)) = Len(s) - 1
        /\ \A i \in 1 .. Len(Tail(s)) : Tail(s)[i] = s[i + 1]
    BY HeadTailProperties
  <1>2. Len(s) \in Nat /\ Len(s) # 0 /\ Head(s) = s[1]
    BY LenProperties, EmptySeq
  <1>3. <<Head(s)>> \in Seq(S) /\ Len(<<Head(s)>>) = 1 /\ <<Head(s)>>[1] = Head(s)
    BY <1>1
  <1>4. /\ <<Head(s)>> \o Tail(s) \in Seq(S)
        /\ Len(<<Head(s)>> \o Tail(s)) = Len(s)
        /\ \A i \in 1 .. Len(s) : (<<Head(s)>> \o Tail(s))[i]
                                    = IF i <= 1 THEN Head(s) ELSE Tail(s)[i - 1]
    BY <1>1, <1>2, <1>3, ConcatProperties
  <1>5. ASSUME NEW i \in 1 .. Len(s) PROVE (<<Head(s)>> \o Tail(s))[i] = s[i]
    <2>1. CASE i = 1
      BY <2>1, <1>2, <1>4
    <2>2. CASE i # 1
      <3>1. i - 1 \in 1 .. Len(Tail(s))
        BY <2>2, <1>1, <1>2
      <3>2. Tail(s)[i - 1] = s[i]
        BY <3>1, <1>1, <1>2
      <3>3. QED
        BY <2>2, <3>2, <1>4
    <2>3. QED
      BY <2>1, <2>2
  <1>6. QED
    BY <1>1, <1>4, <1>5, SeqEqual

\* Moving the first element of a sequence to the end of another one.
LEMMA MoveHead ==
  ASSUME NEW S, NEW s \in Seq(S), s # <<>>, NEW t \in Seq(S)
  PROVE  Append(t, Head(s)) \o Tail(s) = t \o s
  <1>1. /\ Head(s) \in S /\ Tail(s) \in Seq(S)
        /\ s = <<Head(s)>> \o Tail(s)
    BY HeadConcatTail
  <1>2. Append(t, Head(s)) = t \o <<Head(s)>> /\ <<Head(s)>> \in Seq(S)
    BY <1>1, AppendIsConcat
  <1>3. (t \o <<Head(s)>>) \o Tail(s) = t \o (<<Head(s)>> \o Tail(s))
    BY <1>1, <1>2, ConcatAssociative
  <1>4. QED
    BY <1>1, <1>2, <1>3

(* A serialised step keeps the order: Add() appends at the end, the swap    *)
(* takes all of pending into an empty buffer, and a writer always takes the *)
(* oldest block that is left, Stop() because the back buffer is empty then. *)
LEMMA NextInOrder ==
  SInv /\ [SerialNext]_vars => InOrder'
  <1> SUFFICES ASSUME SInv, [SerialNext]_vars PROVE InOrder'
    OBVIOUS
  <1>1. /\ pending \in Seq(Blocks) /\ back \in Seq(Blocks)
        /\ added \in Seq(Blocks) /\ written \in Seq(Blocks)
    BY DEF SInv, IInv, TypeOK
  <1>2. /\ added = written \o back \o pending
        /\ written \o back \in Seq(Blocks) /\ back \o pending \in Seq(Blocks)
        /\ added = written \o (back \o pending)
    BY <1>1, ConcatProperties, ConcatAssociative DEF SInv, InOrder
  <1>3. CASE Adding
    <2>1. PICK b \in Blocks :
            /\ pending' = Append(pending, b)
            /\ added' = Append(added, b)
            /\ back' = back /\ written' = written
      BY <1>3 DEF Adding
    <2>2. <<b>> \in Seq(Blocks)
      OBVIOUS
    <2>3. /\ Append(added, b) = (written \o back \o pending) \o <<b>>
          /\ Append(pending, b) = pending \o <<b>>
      BY <1>1, <1>2, AppendIsConcat
    <2>4. (written \o back \o pending) \o <<b>> = written \o back \o (pending \o <<b>>)
      BY <1>1, <1>2, <2>2, ConcatAssociative
    <2>5. QED
      BY <2>1, <2>3, <2>4 DEF InOrder
  <1>4. CASE Draining
    <2>1. worker = NoThread
      BY <1>4 DEF Draining, SInv, JoinedAlone
    <2>2. back = <<>>
      BY <2>1, NoThreadAssumption
      DEF SInv, IInv, BackInUse, OnlyWorker, NoThreadAssumption
    <2>3. /\ written \o back = written
          /\ written' = Append(written, Head(pending))
          /\ pending' = Tail(pending) /\ pending # <<>>
          /\ back' = <<>> /\ added' = added
      BY <1>1, <1>4, <2>2, ConcatEmptySeq DEF Draining
    <2>4. written' \in Seq(Blocks)
      BY <1>1, <2>3, HeadTailProperties, AppendProperties
    <2>5. written' \o back' = written'
      BY <2>3, <2>4, ConcatEmptySeq
    <2>6. written' \o pending' = written \o pending
      BY <1>1, <2>3, MoveHead
    <2>7. QED
      BY <1>2, <2>3, <2>5, <2>6 DEF InOrder
  <1>5. CASE Writing
    <2>1. /\ written' = Append(written, Head(back))
          /\ back' = Tail(back) /\ back # <<>>
          /\ pending' = pending /\ added' = added
      BY <1>5 DEF Writing
    <2>2. written' \o back' = written \o back
      BY <1>1, <2>1, MoveHead
    <2>3. QED
      BY <1>2, <2>1, <2>2 DEF InOrder
  <1>6. CASE Swapping
    <2>1. /\ back = <<>> /\ back' = pending /\ pending' = <<>>
          /\ added' = added /\ written' = written
      BY <1>6 DEF Swapping
    <2>2. /\ written \o back = written
          /\ written \o pending \in Seq(Blocks)
          /\ (written \o pending) \o <<>> = written \o pending
      BY <1>1, <2>1, ConcatEmptySeq, ConcatProperties
    <2>3. QED
      BY <1>2, <2>1, <2>2 DEF InOrder
  <1>7. CASE Resting
    BY <1>2, <1>7 DEF Resting, InOrder
  <1>8. QED
    BY <1>3, <1>4, <1>5, <1>6, <1>7, BlockSteps DEF SInv, SerialNext

\* The invariant of serialised calls holds in every state they reach.
LEMMA SerialInvariant == SerialSpec => []SInv
  <1>1. Init => JoinedAlone
    BY DEF Init, JoinedAlone
  <1>2. Init => InOrder
    <2>1. <<>> \in Seq(Blocks) /\ <<>> \o <<>> = <<>>
      OBVIOUS
    <2>2. QED
      BY <2>1 DEF Init, InOrder
  <1>3. SInv /\ [SerialNext]_vars => SInv'
    BY NextIInv, NextJoinedAlone, NextInOrder DEF SInv, SerialNext
  <1>4. QED
    BY InitIInv, <1>1, <1>2, <1>3, PTL DEF SerialSpec, SInv

(* Callers that serialise their calls, as EtwWriter does, get their blocks  *)
(* written in the order of their Add calls.                                 *)
THEOREM WrittenInOrder == SerialSpec => []InOrder
  <1>1. SInv => InOrder
    BY DEF SInv
  <1>2. QED
    BY <1>1, SerialInvariant, PTL

(* For them, once Stop() has returned every block ever added is written and *)
(* no thread is left.                                                       *)
THEOREM StopLeavesNothing == SerialSpec => []StoppedIsDrained
  <1>1. SInv => StoppedIsDrained
    <2> SUFFICES ASSUME SInv, control = "idle", worker = NoThread
                 PROVE  written = added /\ \A w \in Threads : pc[w] = "none"
      BY DEF StoppedIsDrained
    <2>1. \A w \in Threads : pc[w] = "none"
      BY NoThreadAssumption DEF SInv, IInv, OnlyWorker, NoThreadAssumption
    <2>2. back = <<>> /\ pending = <<>>
      BY <2>1 DEF SInv, IInv, BackInUse, NoOrphans
    <2>3. written \in Seq(Blocks)
      BY DEF SInv, IInv, TypeOK
    <2>4. written \o <<>> = written
      BY <2>3, ConcatEmptySeq
    <2>5. added = written
      BY <2>2, <2>4 DEF SInv, InOrder
    <2>6. QED
      BY <2>1, <2>5
  <1>2. QED
    BY <1>1, SerialInvariant, PTL

(* For them the worker implements the safety part of a FIFO queue.          *)
THEOREM WorkerIsAQueue == SerialSpec => Queue!Init /\ [][Queue!Next]_(Queue!vars)
  <1>1. Init => Queue!Init
    <2>1. <<>> \o <<>> = <<>>
      OBVIOUS
    <2>2. QED
      BY <2>1 DEF Init, Queue!Init
  <1>2. SInv /\ [SerialNext]_vars => [Queue!Next]_(Queue!vars)
    <2> SUFFICES ASSUME SInv, [SerialNext]_vars PROVE [Queue!Next]_(Queue!vars)
      OBVIOUS
    <2>1. pending \in Seq(Blocks) /\ back \in Seq(Blocks)
      BY DEF SInv, IInv, TypeOK
    <2>2. CASE Adding
      <3>1. PICK b \in Blocks : pending' = Append(pending, b)
                                /\ back' = back /\ written' = written
        BY <2>2 DEF Adding
      <3>2. back \o Append(pending, b) = Append(back \o pending, b)
        <4>1. /\ Append(pending, b) = pending \o <<b>> /\ <<b>> \in Seq(Blocks)
              /\ back \o pending \in Seq(Blocks)
          BY <2>1, AppendIsConcat, ConcatProperties
        <4>2. back \o (pending \o <<b>>) = (back \o pending) \o <<b>>
          BY <2>1, <4>1, ConcatAssociative
        <4>3. QED
          BY <4>1, <4>2, AppendIsConcat
      <3>3. (back \o pending)' = Append(back \o pending, b)
        BY <3>1, <3>2
      <3>4. Queue!Accept(b)
        BY <3>1, <3>3 DEF Queue!Accept
      <3>5. QED
        BY <3>4 DEF Queue!Next
    <2>3. CASE Draining
      <3>1. worker = NoThread
        BY <2>3 DEF Draining, SInv, JoinedAlone
      <3>2. back = <<>>
        BY <3>1, NoThreadAssumption
        DEF SInv, IInv, BackInUse, OnlyWorker, NoThreadAssumption
      <3>3. /\ pending # <<>> /\ pending' = Tail(pending) /\ back' = <<>>
            /\ written' = Append(written, Head(pending))
        BY <2>3, <3>2 DEF Draining
      <3>4. Tail(pending) \in Seq(Blocks)
        BY <2>1, <3>3, HeadTailProperties
      <3>5. back \o pending = pending /\ (back \o pending)' = Tail(pending)
        BY <2>1, <3>2, <3>3, <3>4, ConcatEmptySeq
      <3>6. QED
        BY <3>3, <3>5 DEF Queue!Write, Queue!Next
    <2>4. CASE Writing
      <3>1. /\ back # <<>> /\ back' = Tail(back) /\ pending' = pending
            /\ written' = Append(written, Head(back))
        BY <2>4 DEF Writing
      <3>2. /\ Head(back) \in Blocks /\ Tail(back) \in Seq(Blocks)
            /\ <<Head(back)>> \in Seq(Blocks)
            /\ back = <<Head(back)>> \o Tail(back)
        BY <2>1, <3>1, HeadConcatTail
      <3>3. back \o pending = <<Head(back)>> \o (Tail(back) \o pending)
        BY <2>1, <3>2, ConcatAssociative
      <3>4. Tail(back) \o pending \in Seq(Blocks)
        BY <2>1, <3>2, ConcatProperties
      <3>5. /\ back \o pending # <<>>
            /\ Head(back \o pending) = Head(back)
            /\ Tail(back \o pending) = Tail(back) \o pending
        BY <3>2, <3>3, <3>4
      <3>6. QED
        BY <3>1, <3>5 DEF Queue!Write, Queue!Next
    <2>5. CASE Swapping
      <3>1. back = <<>> /\ back' = pending /\ pending' = <<>> /\ written' = written
        BY <2>5 DEF Swapping
      <3>2. back \o pending = pending /\ pending \o <<>> = pending
        BY <2>1, <3>1, ConcatEmptySeq
      <3>3. QED
        BY <3>1, <3>2 DEF Queue!vars
    <2>6. CASE Resting
      BY <2>6 DEF Resting, Queue!vars
    <2>7. QED
      BY <2>2, <2>3, <2>4, <2>5, <2>6, BlockSteps DEF SInv, SerialNext
  <1>3. QED
    BY <1>1, <1>2, SerialInvariant, PTL DEF SerialSpec
=============================================================================
