-------------------------- MODULE ThreadPoolProofs --------------------------
(***************************************************************************)
(* Proofs about ThreadPool for any number of workers, any set of tasks and *)
(* any choice of the other constants: its invariants, what becomes of each *)
(* connection, and that the pool implements TaskDispatch.  At the end the  *)
(* deque behind its queue, for any elements and any capacity: additions    *)
(* and removals do to the ring what they do to a sequence, which is what   *)
(* lets ThreadPool keep the queue as one.                                  *)
(***************************************************************************)
EXTENDS ThreadPool, NumberInduction, FiniteSetTheorems, TLAPS

CONSTANTS Junk, MaxPowTwo    \* of the deque
D == INSTANCE Deque

\* The initial state satisfies the inductive invariant.
LEMMA InitIInv == Init => IInv
<1> SUFFICES ASSUME Init
             PROVE  IInv
  OBVIOUS
<1> USE MaxWorkersAssumption, TasksAssumption, SwitchesAssumption DEF Init
<1>1. TypeOK
  <2>1. queue \in Seq(Tasks)
    OBVIOUS
  <2>2. pc \in [Workers -> WorkerLabels] /\ held \in [Workers -> Tasks \cup {NoTask}]
    BY DEF WorkerLabels
  <2>3. mutex \in Workers \cup {Main, Free}
    BY DEF Free
  <2>4. spawned \in 0..MaxWorkers /\ joining \in 1..(MaxWorkers + 1) /\ spurious \in 0..MaxSpurious
    OBVIOUS
  <2> QED
    BY <2>1, <2>2, <2>3, <2>4 DEF TypeOK, MainLabels, HandlerLabels
<1>2. Phases
  BY DEF Phases, Workers
<1>3. Critical /\ Hands
  BY DEF Critical, Hands
<1> QED
  BY <1>1, <1>2, <1>3 DEF IInv

\* A step of the main thread outside the handler keeps it.
LEMMA MainKeepsIInv ==
  ASSUME IInv, MainProgress \/ AcceptFails \/ (\E t \in Tasks : Accept(t))
  PROVE  IInv'
<1> USE MaxWorkersAssumption, TasksAssumption, SwitchesAssumption
    DEF IInv, TypeOK, Phases, Critical, Hands, Workers, Main, Free, MainAt, MainGoto,
        WorkerLabels, MainLabels, HandlerLabels, poolVars, workerVars, mainVars,
        handlerVars, historyVars
<1>1. CASE StartThreadPool
  BY <1>1 DEF StartThreadPool
<1>2. CASE CreateWorker
  <2>1. spawned' \in Workers /\ spawned' = spawned + 1 /\ pc[spawned'] = "unborn"
    BY <1>2 DEF CreateWorker
  <2>2. TypeOK' /\ Hands'
    BY <1>2, <2>1 DEF CreateWorker
  <2>3. \A w \in Workers : pc'[w] = IF w = spawned' THEN "load" ELSE pc[w]
    BY <1>2 DEF CreateWorker
  <2>4. hpc = "none" /\ joining = 1
    BY <1>2 DEF CreateWorker
  <2>5. Phases'
    BY <1>2, <2>1, <2>3, <2>4 DEF CreateWorker
  <2>6. Critical'
    BY <1>2, <2>3 DEF CreateWorker
  <2> QED
    BY <2>2, <2>5, <2>6
<1>3. CASE SubmitLock
  BY <1>3 DEF SubmitLock
<1>4. CASE SubmitAdd
  BY <1>4 DEF SubmitAdd
<1>5. CASE SubmitSignal
  <2>1. PICK woken \in SUBSET waitset : Wake(woken)
    BY <1>5 DEF SubmitSignal
  <2>2. pc' \in [Workers -> WorkerLabels] /\ waitset' \subseteq Workers
    BY <2>1 DEF Wake
  <2>3. \A w \in Workers : pc'[w] = pc[w] \/ (pc[w] = "wait" /\ pc'[w] = "woken")
    BY <2>1 DEF Wake
  <2>4. \A w \in Workers : w \in waitset' <=> pc'[w] = "wait"
    <3> TAKE w \in Workers
    <3>1. w \in waitset' <=> w \in waitset /\ w \notin woken
      BY <2>1 DEF Wake
    <3>2. pc'[w] = IF w \in woken THEN "woken" ELSE pc[w]
      BY <2>1 DEF Wake
    <3> QED
      BY <3>1, <3>2
  <2>5. TypeOK' /\ Hands'
    BY <1>5, <2>2, <2>3 DEF SubmitSignal
  <2>6. Phases'
    BY <1>5, <2>3 DEF SubmitSignal
  <2>7. Critical'
    BY <1>5, <2>3, <2>4 DEF SubmitSignal
  <2> QED
    BY <2>5, <2>6, <2>7
<1>6. CASE SubmitUnlock
  BY <1>6 DEF SubmitUnlock
<1>7. CASE AcceptFails
  BY <1>7 DEF AcceptFails
<1>8. CASE \E t \in Tasks : Accept(t)
  BY <1>8 DEF Accept
<1> QED
  BY <1>1, <1>2, <1>3, <1>4, <1>5, <1>6, <1>7, <1>8 DEF MainProgress

\* A step of a worker keeps it.
LEMMA WorkerKeepsIInv ==
  ASSUME IInv, NEW w \in Workers, WorkerProgress(w) \/ SpuriousWakeup(w)
  PROVE  IInv'
<1> USE MaxWorkersAssumption, TasksAssumption, SwitchesAssumption
    DEF IInv, TypeOK, Phases, Critical, Hands, Workers, Main, Free, WorkerAt, Goto,
        WorkerLabels, MainLabels, HandlerLabels, poolVars, workerVars, mainVars,
        handlerVars, historyVars
<1>1. CASE LoadMagicDB(w)
  BY <1>1 DEF LoadMagicDB
<1>2. CASE TestRunning(w)
  BY <1>2 DEF TestRunning
<1>3. CASE LockQueue(w)
  BY <1>3 DEF LockQueue
<1>4. CASE CheckQueue(w)
  <2>1. CASE running /\ queue = <<>>
    <3>1. TypeOK'
      BY <1>4, <2>1 DEF CheckQueue, Wait
    <3>2. Phases' /\ Hands'
      BY <1>4, <2>1 DEF CheckQueue, Wait
    <3>3. Critical'
      BY <1>4, <2>1 DEF CheckQueue, Wait
    <3> QED
      BY <3>1, <3>2, <3>3
  <2>2. CASE running /\ queue # <<>>
    <3>1. TypeOK'
      BY <1>4, <2>2 DEF CheckQueue
    <3>2. Phases' /\ Hands'
      BY <1>4, <2>2 DEF CheckQueue
    <3>3. Critical'
      BY <1>4, <2>2 DEF CheckQueue
    <3> QED
      BY <3>1, <3>2, <3>3
  <2>3. CASE ~running
    <3>1. TypeOK'
      BY <1>4, <2>3 DEF CheckQueue
    <3>2. Phases' /\ Hands'
      BY <1>4, <2>3 DEF CheckQueue
    <3>3. Critical'
      BY <1>4, <2>3 DEF CheckQueue
    <3> QED
      BY <3>1, <3>2, <3>3
  <2> QED
    BY <2>1, <2>2, <2>3
<1>5. CASE Reacquire(w)
  BY <1>5 DEF Reacquire
<1>6. CASE QuitUnlock(w)
  BY <1>6 DEF QuitUnlock
<1>7. CASE Take(w)
  BY <1>7 DEF Take
<1>8. CASE UnlockQueue(w)
  BY <1>8 DEF UnlockQueue
<1>9. CASE Finish(w)
  BY <1>9 DEF Finish
<1>10. CASE LeaveUnlock(w)
  BY <1>10 DEF LeaveUnlock
<1>11. CASE CancelInCall(w)
  BY <1>11 DEF CancelInCall
<1>12. CASE CancelInWait(w)
  BY <1>12 DEF CancelInWait
<1>13. CASE DieWithMutex(w)
  BY <1>13 DEF DieWithMutex
<1>14. CASE SpuriousWakeup(w)
  BY <1>14 DEF SpuriousWakeup
<1> QED
  BY <1>1, <1>2, <1>3, <1>4, <1>5, <1>6, <1>7, <1>8, <1>9, <1>10, <1>11, <1>12, <1>13, <1>14
     DEF WorkerProgress

\* The arrival of a signal and a step of the handler keep it.
LEMMA HandlerKeepsIInv ==
  ASSUME IInv, Signal \/ HandlerProgress
  PROVE  IInv'
<1> USE MaxWorkersAssumption, TasksAssumption, SwitchesAssumption
    DEF IInv, TypeOK, Phases, Critical, Hands, Workers, Main, Free, HandlerAt, HandlerGoto,
        WorkerLabels, MainLabels, HandlerLabels, poolVars, workerVars, mainVars,
        handlerVars, historyVars
<1>1. CASE Signal
  BY <1>1 DEF Signal
<1>2. CASE ShutDownLock
  BY <1>2 DEF ShutDownLock
<1>3. CASE ShutDownStop
  <2>1. \A w \in Workers : pc[w] # "take"
    BY <1>3 DEF ShutDownStop
  <2> QED
    BY <1>3, <2>1 DEF ShutDownStop
<1>4. CASE ShutDownBroadcast
  BY <1>4 DEF ShutDownBroadcast, Wake
<1>5. CASE ShutDownUnlock
  <2>1. ~running
    BY <1>5 DEF ShutDownUnlock
  <2> QED
    BY <1>5, <2>1 DEF ShutDownUnlock
<1>6. CASE CancelWorker
  BY <1>6 DEF CancelWorker
<1>7. CASE JoinWorker
  BY <1>7 DEF JoinWorker
<1>8. CASE FreeWorker
  BY <1>8 DEF FreeWorker
<1>9. CASE FreeServer
  BY <1>9 DEF FreeServer
<1> QED
  BY <1>1, <1>2, <1>3, <1>4, <1>5, <1>6, <1>7, <1>8, <1>9 DEF HandlerProgress

\* So does every step of the specification, stuttering included.
LEMMA NextKeepsIInv == IInv /\ [Next]_vars => IInv'
<1> SUFFICES ASSUME IInv, [Next]_vars
             PROVE  IInv'
  OBVIOUS
<1>1. CASE MainProgress \/ AcceptFails \/ (\E t \in Tasks : Accept(t))
  BY <1>1, MainKeepsIInv
<1>2. CASE \E w \in Workers : WorkerProgress(w) \/ SpuriousWakeup(w)
  BY <1>2, WorkerKeepsIInv
<1>3. CASE Signal \/ HandlerProgress
  BY <1>3, HandlerKeepsIInv
<1>4. CASE UNCHANGED vars
  BY <1>4 DEF vars, poolVars, workerVars, mainVars, handlerVars, historyVars, IInv, TypeOK,
              Phases, Critical, Hands
<1> QED
  BY <1>1, <1>2, <1>3, <1>4 DEF Next

\* IInv holds in every reachable state of the pool.
THEOREM Invariance == Spec => []IInv
  BY InitIInv, NextKeepsIInv, PTL DEF Spec

\* Every variable of the pool has its type.
THEOREM TypeCorrect == Spec => []TypeOK
<1>1. IInv => TypeOK
  BY DEF IInv
<1> QED
  BY <1>1, Invariance, PTL

\* The assertion behind cc_deque_remove_first (threadpool.c:40) never fails.
THEOREM AssertionHolds == Spec => []RemoveFirstSucceeds
<1>1. IInv => RemoveFirstSucceeds
  BY DEF IInv, Critical, RemoveFirstSucceeds
<1> QED
  BY <1>1, Invariance, PTL

\* The handler frees the server only when every worker has ended.
THEOREM JoinsEveryWorker == Spec => []JoinedBeforeFree
<1>1. IInv => JoinedBeforeFree
  BY MaxWorkersAssumption DEF IInv, Phases, JoinedBeforeFree, Workers
<1> QED
  BY <1>1, Invariance, PTL

\* The deque is never reached by two threads at once.
THEOREM OneAtTheQueue == Spec => []QueueExclusive
<1>1. ASSUME IInv, NEW x \in AtQueue, NEW y \in AtQueue
      PROVE  x = y
  <2>1. CASE running
    BY <1>1, <2>1 DEF IInv, Critical, Phases, AtQueue, Main
  <2>2. CASE ~running
    BY <1>1, <2>2 DEF IInv, Critical, AtQueue, Main
  <2> QED
    BY <2>1, <2>2
<1>2. IInv => QueueExclusive
  BY <1>1 DEF QueueExclusive
<1> QED
  BY <1>2, Invariance, PTL

\* Once shutDownThreadPool has cleared running, no worker starts another task.
THEOREM NothingStartsAfterStop == Spec => NoStartAfterStop
<1>1. ASSUME IInv, [Next]_vars, ~running, hpc # "none", NEW w \in Workers
      PROVE  held'[w] \in {held[w], NoTask}
  <2>1. CASE UNCHANGED held
    BY <2>1
  <2>2. CASE \E v \in Workers : Take(v) \/ Finish(v) \/ CancelInCall(v)
    BY <1>1, <2>2 DEF IInv, TypeOK, Critical, Take, Finish, CancelInCall, WorkerAt
  <2> QED
    BY <1>1, <2>1, <2>2 DEF Next, MainProgress, WorkerProgress, HandlerProgress, StartThreadPool,
       CreateWorker, SubmitLock, SubmitAdd, SubmitSignal, SubmitUnlock, Accept, AcceptFails,
       LoadMagicDB, TestRunning, LockQueue, CheckQueue, Reacquire, QuitUnlock, UnlockQueue,
       LeaveUnlock, CancelInWait, DieWithMutex, SpuriousWakeup, Signal, ShutDownLock,
       ShutDownStop, ShutDownBroadcast, ShutDownUnlock, CancelWorker, JoinWorker, FreeWorker,
       FreeServer, vars, workerVars
<1>2. IInv /\ [Next]_vars => [~running /\ hpc # "none" =>
                               \A w \in Workers : held'[w] \in {held[w], NoTask}]_vars
  BY <1>1
<1> QED
  BY <1>2, Invariance, PTL DEF Spec, NoStartAfterStop


\* The workers that look at the queue before they wait are finitely many.
LEMMA LookersFinite == IsFiniteSet(Lookers) /\ Cardinality(Lookers) \in Nat
<1>1. IsFiniteSet(Workers)
  BY FS_Interval, MaxWorkersAssumption DEF Workers
<1>2. Lookers \in SUBSET Workers
  BY DEF Lookers
<1> QED
  BY <1>1, <1>2, FS_Subset, FS_CardinalityType

\* A step that leaves the queue alone and costs no looker keeps NoLostWakeup.
LEMMA MoreLookers ==
  ASSUME NoLostWakeup, TypeOK,
         running' => running /\ waitset' \subseteq waitset,
         queue' = queue, Lookers \subseteq Lookers',
         mpc = "signal" => mpc' = "signal"
  PROVE  NoLostWakeup'
<1>1. Cardinality(Lookers) <= Cardinality(Lookers') /\ Cardinality(Lookers) \in Nat
      /\ Cardinality(Lookers') \in Nat
  <2>1. IsFiniteSet(Lookers')
    <3>1. IsFiniteSet(Workers)
      BY FS_Interval, MaxWorkersAssumption DEF Workers
    <3>2. Lookers' \in SUBSET Workers
      BY DEF Lookers
    <3> QED
      BY <3>1, <3>2, FS_Subset
  <2> QED
    BY <2>1, LookersFinite, FS_Subset, FS_CardinalityType
<1>2. Len(queue) \in Nat
  BY DEF TypeOK
<1> QED
  BY <1>1, <1>2 DEF NoLostWakeup


\* A step of the main thread keeps it: the append raises the queue's length and owes
\* one signal, which the next step pays with one more looker.
LEMMA MainKeepsWakeup ==
  ASSUME IInv, NoLostWakeup, MainProgress \/ AcceptFails \/ (\E t \in Tasks : Accept(t))
  PROVE  NoLostWakeup'
<1> USE DEF IInv
<1>1. CASE StartThreadPool
  <2>1. \A v \in Workers : v > spawned
    BY <1>1 DEF StartThreadPool, MainAt, Phases, Workers
  <2>2. \A v \in Workers : v \notin waitset
    BY <2>1 DEF Phases, Critical
  <2>3. waitset = {} /\ waitset' = waitset
    BY <1>1, <2>2 DEF StartThreadPool, TypeOK
  <2> QED
    BY <2>3 DEF NoLostWakeup
<1>2. CASE CreateWorker
  <2>1. Lookers \subseteq Lookers'
    BY <1>2 DEF CreateWorker, Lookers, TypeOK
  <2> QED
    BY <1>2, <2>1, MoreLookers DEF CreateWorker, MainAt, poolVars
<1>3. CASE SubmitLock \/ SubmitUnlock \/ AcceptFails \/ (\E t \in Tasks : Accept(t))
  <2>1. UNCHANGED <<poolVars, pc>> /\ (mpc = "signal" => mpc' = "signal")
    BY <1>3 DEF SubmitLock, SubmitUnlock, AcceptFails, Accept, MainAt, workerVars, mainVars
  <2>2. Lookers \subseteq Lookers'
    BY <2>1 DEF Lookers
  <2> QED
    BY <2>1, <2>2, MoreLookers DEF poolVars
<1>4. CASE SubmitAdd
  <2>1. Lookers' = Lookers /\ UNCHANGED <<running, waitset>> /\ mpc = "add" /\ mpc' = "signal"
    BY <1>4 DEF SubmitAdd, MainAt, MainGoto, Lookers, workerVars
  <2>2. Len(queue') = Len(queue) + 1 /\ Len(queue) \in Nat
    BY <1>4 DEF SubmitAdd, TypeOK, MainAt
  <2> QED
    BY <2>1, <2>2, LookersFinite DEF NoLostWakeup
<1>5. CASE SubmitSignal
  <2>1. CASE waitset = {}
    BY <1>5, <2>1 DEF SubmitSignal, Wake, NoLostWakeup
  <2>2. CASE waitset # {}
    <3>1. PICK w \in waitset : Wake({w})
      BY <1>5, <2>2 DEF SubmitSignal
    <3>2. w \in Workers /\ pc[w] = "wait"
      BY DEF TypeOK, Critical
    <3>3. Lookers' = Lookers \cup {w} /\ w \notin Lookers
      BY <3>1, <3>2 DEF Wake, Lookers
    <3>4. Cardinality(Lookers') = Cardinality(Lookers) + 1
      BY <3>3, LookersFinite, FS_AddElement
    <3>5. UNCHANGED <<running, queue>> /\ mpc = "signal" /\ mpc' = "unlock"
      BY <1>5 DEF SubmitSignal, MainAt, MainGoto
    <3>6. Len(queue) \in Nat
      BY DEF TypeOK
    <3> QED
      BY <2>2, <3>4, <3>5, <3>6, LookersFinite DEF NoLostWakeup
  <2> QED
    BY <2>1, <2>2
<1> QED
  BY <1>1, <1>2, <1>3, <1>4, <1>5 DEF MainProgress

\* A step of a worker keeps it: a worker stops looking only when it has found the
\* queue empty or has shortened it.
LEMMA WorkerKeepsWakeup ==
  ASSUME IInv, NoLostWakeup, NEW w \in Workers, WorkerProgress(w) \/ SpuriousWakeup(w)
  PROVE  NoLostWakeup'
<1> USE DEF IInv
<1> DEFINE Quiet == \/ LoadMagicDB(w) \/ TestRunning(w) \/ LockQueue(w) \/ Reacquire(w)
                    \/ QuitUnlock(w) \/ UnlockQueue(w) \/ Finish(w) \/ LeaveUnlock(w)
                    \/ DieWithMutex(w)
<1>1. CASE Quiet
  <2>1. UNCHANGED <<poolVars, mainVars>>
    BY <1>1 DEF LoadMagicDB, TestRunning, LockQueue, Reacquire, QuitUnlock, UnlockQueue, Finish,
       LeaveUnlock, DieWithMutex
  <2>2. running => Lookers \subseteq Lookers'
    BY <1>1 DEF LoadMagicDB, TestRunning, LockQueue, Reacquire, QuitUnlock, UnlockQueue, Finish,
       LeaveUnlock, DieWithMutex, WorkerAt, Goto, Lookers, TypeOK
  <2>3. CASE running
    BY <2>1, <2>2, <2>3, MoreLookers DEF poolVars, mainVars
  <2>4. CASE ~running
    BY <2>1, <2>4 DEF NoLostWakeup, poolVars
  <2> QED
    BY <2>3, <2>4
<1>2. CASE CancelInCall(w) \/ CancelInWait(w)
  <2>1. ~running /\ running' = running
    BY <1>2 DEF CancelInCall, CancelInWait, Phases, poolVars
  <2> QED
    BY <2>1 DEF NoLostWakeup
<1>3. CASE SpuriousWakeup(w)
  <2>1. Lookers \subseteq Lookers'
    BY <1>3 DEF SpuriousWakeup, WorkerAt, Goto, Lookers, TypeOK
  <2> QED
    BY <1>3, <2>1, MoreLookers DEF SpuriousWakeup, mainVars
<1>4. CASE CheckQueue(w)
  <2>1. CASE running /\ queue = <<>>
    <3>1. queue' = <<>>
      BY <1>4, <2>1 DEF CheckQueue
    <3>2. Len(queue') = 0 /\ Cardinality(Lookers)' \in Nat
      <4>1. IsFiniteSet(Workers)
        BY FS_Interval, MaxWorkersAssumption DEF Workers
      <4>2. Lookers' \in SUBSET Workers
        BY DEF Lookers
      <4>3. IsFiniteSet(Lookers')
        BY <4>1, <4>2, FS_Subset
      <4> QED
        BY <3>1, <4>3, FS_CardinalityType
    <3> QED
      BY <3>2 DEF NoLostWakeup
  <2>2. CASE running /\ queue # <<>>
    <3>1. Lookers \subseteq Lookers' /\ UNCHANGED <<poolVars, mpc>>
      BY <1>4, <2>2 DEF CheckQueue, WorkerAt, Goto, Lookers, TypeOK, poolVars, mainVars
    <3> QED
      BY <3>1, MoreLookers DEF poolVars
  <2>3. CASE ~running
    BY <1>4, <2>3 DEF CheckQueue, NoLostWakeup
  <2> QED
    BY <2>1, <2>2, <2>3
<1>5. CASE Take(w)
  <2>1. Lookers' = Lookers \ {w} /\ w \in Lookers
    BY <1>5 DEF Take, WorkerAt, Goto, Lookers, TypeOK
  <2>2. Cardinality(Lookers') = Cardinality(Lookers) - 1
    BY <2>1, LookersFinite, FS_RemoveElement
  <2>3. Len(queue') = Len(queue) - 1 /\ Len(queue) \in Nat
    BY <1>5 DEF Take, TypeOK
  <2>4. UNCHANGED <<running, waitset, mpc>>
    BY <1>5 DEF Take, mainVars
  <2> QED
    BY <2>2, <2>3, <2>4, LookersFinite DEF NoLostWakeup
<1> QED
  BY <1>1, <1>2, <1>3, <1>4, <1>5 DEF WorkerProgress

\* The handler keeps it: it clears running before it wakes or cancels anybody.
LEMMA HandlerKeepsWakeup ==
  ASSUME IInv, NoLostWakeup, Signal \/ HandlerProgress
  PROVE  NoLostWakeup'
<1>1. CASE Signal \/ ShutDownLock
  <2>1. UNCHANGED <<poolVars, pc, mpc>>
    BY <1>1 DEF Signal, ShutDownLock, workerVars, mainVars
  <2>2. Lookers' = Lookers
    BY <2>1 DEF Lookers
  <2> QED
    BY <2>1, <2>2, MoreLookers DEF IInv, poolVars
<1>2. CASE HandlerProgress /\ ~ShutDownLock
  <2>1. ~running'
    BY <1>2 DEF HandlerProgress, ShutDownStop, ShutDownBroadcast, ShutDownUnlock, CancelWorker,
       JoinWorker, FreeWorker, FreeServer, HandlerAt, poolVars, IInv, Phases
  <2> QED
    BY <2>1 DEF NoLostWakeup
<1> QED
  BY <1>1, <1>2

\* While a worker sleeps, the queue is covered by workers that will look at it.
THEOREM WakeupsSuffice == Spec => []NoLostWakeup
<1>1. Init => NoLostWakeup
  BY DEF Init, NoLostWakeup
<1>2. IInv /\ NoLostWakeup /\ [Next]_vars => NoLostWakeup'
  <2> SUFFICES ASSUME IInv, NoLostWakeup, [Next]_vars
               PROVE  NoLostWakeup'
    OBVIOUS
  <2>1. CASE UNCHANGED vars
    BY <2>1 DEF vars, poolVars, workerVars, mainVars, NoLostWakeup, Lookers
  <2> QED
    BY <2>1, MainKeepsWakeup, WorkerKeepsWakeup, HandlerKeepsWakeup DEF Next
<1> QED
  BY <1>1, <1>2, Invariance, PTL DEF Spec
----------------------------------------------------------------------------
(***************************************************************************)
(* What becomes of connections in the pool: each is in one place, and the  *)
(* pool implements the dispatcher of TaskDispatch.                         *)
(***************************************************************************)

\* Before the pool is started there are no connections.
Unstarted == mpc = "start" => accepted = {}
Conserved == TaskConserved /\ Unstarted

\* What is in the queue after an append, and after a removal from a queue without
\* duplicates.
LEMMA QueuedAppend ==
  ASSUME NEW q \in Seq(Tasks), NEW t \in Tasks
  PROVE  /\ {Append(q, t)[i] : i \in DOMAIN Append(q, t)} = {q[i] : i \in DOMAIN q} \cup {t}
         /\ (\A i, j \in DOMAIN q : q[i] = q[j] => i = j) /\ t \notin {q[i] : i \in DOMAIN q} =>
               \A i, j \in DOMAIN Append(q, t) : Append(q, t)[i] = Append(q, t)[j] => i = j
<1> DEFINE r == Append(q, t)
<1>1. DOMAIN q = 1..Len(q) /\ DOMAIN r = 1..(Len(q) + 1) /\ Len(q) \in Nat
  OBVIOUS
<1>2. \A i \in DOMAIN r : r[i] = IF i = Len(q) + 1 THEN t ELSE q[i]
  OBVIOUS
<1>3. \A i \in DOMAIN r : i \in DOMAIN q \/ i = Len(q) + 1
  BY <1>1
<1>4. \A i \in DOMAIN q : i \in DOMAIN r /\ i # Len(q) + 1
  BY <1>1
<1>5. Len(q) + 1 \in DOMAIN r
  BY <1>1
<1> HIDE DEF r
<1>6. {r[i] : i \in DOMAIN r} = {q[i] : i \in DOMAIN q} \cup {t}
  BY <1>2, <1>3, <1>4, <1>5
<1>7. ASSUME \A i, j \in DOMAIN q : q[i] = q[j] => i = j, t \notin {q[i] : i \in DOMAIN q},
             NEW i \in DOMAIN r, NEW j \in DOMAIN r, r[i] = r[j]
      PROVE  i = j
  BY <1>2, <1>3, <1>7
<1> QED
  BY <1>6, <1>7 DEF r

LEMMA QueuedTail ==
  ASSUME NEW q \in Seq(Tasks), q # <<>>, \A i, j \in DOMAIN q : q[i] = q[j] => i = j
  PROVE  /\ Head(q) \in {q[i] : i \in DOMAIN q}
         /\ {Tail(q)[i] : i \in DOMAIN Tail(q)} = {q[i] : i \in DOMAIN q} \ {Head(q)}
         /\ \A i, j \in DOMAIN Tail(q) : Tail(q)[i] = Tail(q)[j] => i = j
<1> DEFINE r == Tail(q)
<1>1. DOMAIN q = 1..Len(q) /\ DOMAIN r = 1..(Len(q) - 1) /\ Len(q) \in Nat /\ Len(q) > 0
  OBVIOUS
<1>2. \A i \in DOMAIN r : r[i] = q[i + 1]
  OBVIOUS
<1>3. Head(q) = q[1] /\ 1 \in DOMAIN q
  BY <1>1
<1>4. \A i \in DOMAIN r : i + 1 \in DOMAIN q /\ i + 1 # 1 /\ i \in Nat
  BY <1>1
<1>5. \A i \in DOMAIN q : i # 1 => \E j \in DOMAIN r : j + 1 = i
  <2> TAKE i \in DOMAIN q
  <2> HAVE i # 1
  <2>1. i - 1 \in DOMAIN r /\ (i - 1) + 1 = i
    BY <1>1
  <2> QED
    BY <2>1
<1> HIDE DEF r
<1>6. {r[i] : i \in DOMAIN r} = {q[i] : i \in DOMAIN q} \ {q[1]}
  <2>1. ASSUME NEW i \in DOMAIN r PROVE r[i] \in {q[k] : k \in DOMAIN q} \ {q[1]}
    <3>1. r[i] = q[i + 1] /\ i + 1 \in DOMAIN q /\ i + 1 # 1
      BY <1>2, <1>4
    <3>2. q[i + 1] # q[1]
      BY <1>3, <3>1
    <3> QED
      BY <3>1, <3>2
  <2>2. ASSUME NEW k \in DOMAIN q, q[k] # q[1] PROVE q[k] \in {r[i] : i \in DOMAIN r}
    <3>1. PICK j \in DOMAIN r : j + 1 = k
      BY <2>2, <1>5
    <3>2. r[j] = q[k]
      BY <1>2, <3>1
    <3> QED
      BY <3>2
  <2> QED
    BY <2>1, <2>2
<1>7. ASSUME NEW i \in DOMAIN r, NEW j \in DOMAIN r, r[i] = r[j]
      PROVE  i = j
  <2>1. i + 1 = j + 1
    BY <1>2, <1>4, <1>7
  <2> QED
    BY <1>4, <2>1
<1> QED
  BY <1>3, <1>6, <1>7 DEF r

\* What the workers hold when one more takes a task, and when one lets go of it.
LEMMA HeldGains ==
  ASSUME TypeOK, NEW w \in Workers, held[w] = NoTask, NEW t \in Tasks,
         held' = [held EXCEPT ![w] = t]
  PROVE  /\ Held' = Held \cup {t}
         /\ (\A u, v \in Workers : held[u] = held[v] /\ held[u] # NoTask => u = v) /\ t \notin Held =>
               \A u, v \in Workers : held'[u] = held'[v] /\ held'[u] # NoTask => u = v
<1>1. \A v \in Workers : held'[v] = IF v = w THEN t ELSE held[v]
  BY DEF TypeOK
<1>2. t # NoTask
  BY TasksAssumption
<1>3. Held' = Held \cup {t}
  BY <1>1, <1>2 DEF Held
<1>4. ASSUME \A u, v \in Workers : held[u] = held[v] /\ held[u] # NoTask => u = v, t \notin Held,
             NEW u \in Workers, NEW v \in Workers, held'[u] = held'[v], held'[u] # NoTask
      PROVE  u = v
  BY <1>1, <1>2, <1>4 DEF Held
<1> QED
  BY <1>3, <1>4

LEMMA HeldLoses ==
  ASSUME TypeOK, NEW w \in Workers, held' = [held EXCEPT ![w] = NoTask],
         \A u, v \in Workers : held[u] = held[v] /\ held[u] # NoTask => u = v
  PROVE  /\ Held' = Held \ {held[w]}
         /\ \A u, v \in Workers : held'[u] = held'[v] /\ held'[u] # NoTask => u = v
<1>1. \A v \in Workers : held'[v] = IF v = w THEN NoTask ELSE held[v]
  BY DEF TypeOK
<1>2. Held' = Held \ {held[w]}
  BY <1>1 DEF Held
<1> QED
  BY <1>1, <1>2

\* Steps that leave the connections where they are.
LEMMA StillConserved ==
  ASSUME Conserved, UNCHANGED <<hand, queue, held, done, accepted>>,
         running' => running \/ accepted = {}, mpc' = "start" => mpc = "start"
  PROVE  Conserved'
<1>1. Hand' = Hand /\ Queued' = Queued /\ Held' = Held /\ done' = done /\ accepted' = accepted
  BY DEF Hand, Queued, Held
<1>2. OnePlace'
  BY <1>1 DEF Conserved, TaskConserved, OnePlace
<1>3. CASE accepted = {}
  BY <1>1, <1>2, <1>3 DEF Conserved, TaskConserved, Unstarted
<1>4. CASE running' => running
  BY <1>1, <1>2, <1>4 DEF Conserved, TaskConserved, Unstarted
<1> QED
  BY <1>3, <1>4

\* A step of the main thread: a connection comes into its hand, and goes to the queue.
LEMMA MainConserves ==
  ASSUME IInv, Conserved, MainProgress \/ AcceptFails \/ (\E t \in Tasks : Accept(t))
  PROVE  Conserved'
<1> USE DEF IInv
<1>1. CASE StartThreadPool
  <2>1. accepted = {} /\ UNCHANGED <<hand, queue, held, done, accepted>> /\ mpc' # "start"
    BY <1>1 DEF StartThreadPool, MainAt, MainGoto, Conserved, Unstarted, workerVars, historyVars
  <2> QED
    BY <2>1, StillConserved
<1>2. CASE CreateWorker \/ SubmitLock \/ SubmitSignal \/ SubmitUnlock \/ AcceptFails
  <2>1. /\ UNCHANGED <<hand, queue, held, done, accepted>>
        /\ running' = running
        /\ mpc' = "start" => mpc = "start"
    BY <1>2 DEF CreateWorker, SubmitLock, SubmitSignal, SubmitUnlock, AcceptFails, MainGoto,
       poolVars, workerVars, mainVars, historyVars, Wake
  <2> QED
    BY <2>1, StillConserved
<1>3. ASSUME NEW t \in Tasks, Accept(t)
      PROVE  Conserved'
  <2>1. /\ UNCHANGED <<queue, held, done, running>> /\ mpc' = "lock"
        /\ hand' = t /\ accepted' = accepted \cup {t} /\ t \notin accepted
    BY <1>3 DEF Accept, MainGoto, poolVars, workerVars
  <2>2. Hand = {} /\ Hand' = {t}
    BY <1>3, <2>1, TasksAssumption DEF Accept, MainAt, Hands, Hand
  <2>3. Queued' = Queued /\ Held' = Held
    BY <2>1 DEF Queued, Held
  <2>4. OnePlace'
    BY <2>1, <2>2, <2>3 DEF Conserved, TaskConserved, OnePlace
  <2> QED
    BY <2>1, <2>2, <2>3, <2>4 DEF Conserved, TaskConserved, Unstarted
<1>4. CASE SubmitAdd
  <2>1. /\ UNCHANGED <<held, done, running, accepted>> /\ mpc' = "signal"
        /\ queue' = Append(queue, hand) /\ hand' = NoTask
    BY <1>4 DEF SubmitAdd, MainGoto, workerVars, historyVars
  <2>2. hand \in Tasks /\ Hand = {hand} /\ Hand' = {}
    BY <1>4, <2>1 DEF SubmitAdd, MainAt, TypeOK, Hands, Hand
  <2>3. Held' = Held
    BY <2>1 DEF Held
  <2>4. Queued' = Queued \cup {hand}
        /\ (hand \notin Queued /\ (\A i, j \in DOMAIN queue : queue[i] = queue[j] => i = j)
               => \A i, j \in DOMAIN queue' : queue'[i] = queue'[j] => i = j)
    BY <2>1, <2>2, QueuedAppend DEF Queued, TypeOK
  <2>5. OnePlace'
    BY <2>1, <2>2, <2>3, <2>4 DEF Conserved, TaskConserved, OnePlace
  <2> QED
    BY <2>1, <2>2, <2>3, <2>4, <2>5 DEF Conserved, TaskConserved, Unstarted
<1> QED
  BY <1>1, <1>2, <1>3, <1>4 DEF MainProgress

\* A step of a worker: a connection goes from the queue to it, and from it to those done.
LEMMA WorkerConserves ==
  ASSUME IInv, Conserved, NEW w \in Workers, WorkerProgress(w) \/ SpuriousWakeup(w)
  PROVE  Conserved'
<1> USE DEF IInv
<1>1. CASE Take(w)
  <2>1. /\ UNCHANGED <<hand, done, running, accepted, mpc>>
        /\ queue # <<>> /\ queue' = Tail(queue)
        /\ held[w] = NoTask /\ held' = [held EXCEPT ![w] = Head(queue)]
    BY <1>1 DEF Take, WorkerAt, Hands, mainVars, historyVars
  <2>2. Hand' = Hand
    BY <2>1 DEF Hand
  <2>3. OnePlace
    BY DEF Conserved, TaskConserved
  <2>4. /\ Head(queue) \in Queued /\ Queued' = Queued \ {Head(queue)}
        /\ \A i, j \in DOMAIN queue' : queue'[i] = queue'[j] => i = j
    <3>1. queue \in Seq(Tasks) /\ \A i, j \in DOMAIN queue : queue[i] = queue[j] => i = j
      BY <2>3 DEF TypeOK, OnePlace
    <3>2. /\ Head(queue) \in {queue[i] : i \in DOMAIN queue}
          /\ {Tail(queue)[i] : i \in DOMAIN Tail(queue)} = {queue[i] : i \in DOMAIN queue} \ {Head(queue)}
          /\ \A i, j \in DOMAIN Tail(queue) : Tail(queue)[i] = Tail(queue)[j] => i = j
      BY <2>1, <3>1, QueuedTail
    <3> QED
      BY <2>1, <3>2 DEF Queued
  <2>5. Head(queue) \in Tasks /\ Head(queue) \notin Held
    BY <2>1, <2>3, <2>4 DEF OnePlace, TypeOK
  <2>6. /\ Held' = Held \cup {Head(queue)}
        /\ \A u, v \in Workers : held'[u] = held'[v] /\ held'[u] # NoTask => u = v
    BY <2>1, <2>3, <2>5, HeldGains DEF OnePlace
  <2>7. OnePlace'
    BY <2>1, <2>2, <2>3, <2>4, <2>6 DEF OnePlace
  <2> QED
    BY <2>1, <2>2, <2>4, <2>6, <2>7 DEF Conserved, TaskConserved, Unstarted
<1>2. CASE Finish(w)
  <2>1. /\ UNCHANGED <<hand, queue, running, accepted, mpc>>
        /\ held[w] # NoTask /\ held' = [held EXCEPT ![w] = NoTask]
        /\ done' = done \cup {held[w]}
    BY <1>2 DEF Finish, WorkerAt, Hands, mainVars, poolVars
  <2>2. Hand' = Hand /\ Queued' = Queued
    BY <2>1 DEF Hand, Queued
  <2>3. OnePlace
    BY DEF Conserved, TaskConserved
  <2>4. held[w] \in Held
    BY <2>1 DEF Held
  <2>5. /\ Held' = Held \ {held[w]}
        /\ \A u, v \in Workers : held'[u] = held'[v] /\ held'[u] # NoTask => u = v
    BY <2>1, <2>3, HeldLoses DEF OnePlace
  <2>6. OnePlace'
    BY <2>1, <2>2, <2>3, <2>4, <2>5 DEF OnePlace
  <2> QED
    BY <2>1, <2>2, <2>4, <2>5, <2>6 DEF Conserved, TaskConserved, Unstarted
<1>3. CASE CancelInCall(w)
  <2>1. /\ UNCHANGED <<hand, queue, running, accepted, mpc, done>>
        /\ held' = [held EXCEPT ![w] = NoTask] /\ ~running
    BY <1>3 DEF CancelInCall, Phases, mainVars, poolVars, historyVars
  <2>2. Hand' = Hand /\ Queued' = Queued
    BY <2>1 DEF Hand, Queued
  <2>3. OnePlace
    BY DEF Conserved, TaskConserved
  <2>4. /\ Held' = Held \ {held[w]}
        /\ \A u, v \in Workers : held'[u] = held'[v] /\ held'[u] # NoTask => u = v
    BY <2>1, <2>3, HeldLoses DEF OnePlace
  <2>5. OnePlace'
    BY <2>1, <2>2, <2>3, <2>4 DEF OnePlace
  <2> QED
    BY <2>1, <2>2, <2>4, <2>5 DEF Conserved, TaskConserved, Unstarted
<1>4. CASE ~Take(w) /\ ~Finish(w) /\ ~CancelInCall(w)
  <2>1. UNCHANGED <<hand, queue, running, accepted, mpc, done, held>>
    BY <1>4 DEF WorkerProgress, LoadMagicDB, TestRunning, LockQueue, CheckQueue, Reacquire,
       QuitUnlock, UnlockQueue, LeaveUnlock, CancelInWait, DieWithMutex, SpuriousWakeup,
       poolVars, mainVars, historyVars
  <2> QED
    BY <2>1, StillConserved
<1> QED
  BY <1>1, <1>2, <1>3, <1>4

\* The handler touches no connection.
LEMMA HandlerConserves ==
  ASSUME IInv, Conserved, Signal \/ HandlerProgress
  PROVE  Conserved'
<1>1. UNCHANGED <<hand, queue, accepted, mpc, done, held>> /\ (running' => running)
  BY DEF Signal, HandlerProgress, ShutDownLock, ShutDownStop, ShutDownBroadcast, ShutDownUnlock,
     CancelWorker, JoinWorker, FreeWorker, FreeServer, poolVars, mainVars, workerVars, historyVars
<1> QED
  BY <1>1, StillConserved

LEMMA ConservedHolds == Spec => []Conserved
<1>1. Init => Conserved
  BY DEF Init, Conserved, TaskConserved, OnePlace, Unstarted, Hand, Queued, Held
<1>2. IInv /\ Conserved /\ [Next]_vars => Conserved'
  <2> SUFFICES ASSUME IInv, Conserved, [Next]_vars
               PROVE  Conserved'
    OBVIOUS
  <2>1. CASE UNCHANGED vars
    BY <2>1, StillConserved DEF vars, poolVars, workerVars, mainVars, historyVars
  <2> QED
    BY <2>1, MainConserves, WorkerConserves, HandlerConserves DEF Next
<1> QED
  BY <1>1, <1>2, Invariance, PTL DEF Spec

\* Every connection accept returned is in exactly one place, and none is lost before the
\* pool is stopped.
THEOREM ConnectionsConserved == Spec => []TaskConserved
<1>1. Conserved => TaskConserved
  BY DEF Conserved
<1> QED
  BY <1>1, ConservedHolds, PTL

\* A worker without a task leaves fewer than MaxWorkers that have one.
LEMMA RoomForOne ==
  ASSUME TypeOK, NEW w \in Workers, held[w] = NoTask
  PROVE  Cardinality(Held) < MaxWorkers
<1> DEFINE Busy == {v \in Workers : held[v] # NoTask}
           holds == [v \in Busy |-> held[v]]
<1>1. IsFiniteSet(Workers) /\ Cardinality(Workers) = MaxWorkers
  BY FS_Interval, MaxWorkersAssumption DEF Workers
<1>2. IsFiniteSet(Workers \ {w}) /\ Cardinality(Workers \ {w}) = MaxWorkers - 1
  BY <1>1, FS_RemoveElement
<1>3. Busy \in SUBSET (Workers \ {w})
  OBVIOUS
<1>4. IsFiniteSet(Busy) /\ Cardinality(Busy) <= MaxWorkers - 1
  BY <1>2, <1>3, FS_Subset
<1>5. holds \in Surjection(Busy, Held)
  <2>1. holds \in [Busy -> Held]
    BY DEF Held
  <2>2. \A t \in Held : \E v \in Busy : holds[v] = t
    BY DEF Held
  <2> QED
    BY <2>1, <2>2 DEF Surjection
<1>6. IsFiniteSet(Held) /\ Cardinality(Held) <= Cardinality(Busy)
  BY <1>4, <1>5, FS_Surjection
<1>7. Cardinality(Held) \in Nat /\ Cardinality(Busy) \in Nat
  BY <1>4, <1>6, FS_CardinalityType
<1> QED
  BY <1>4, <1>6, <1>7, MaxWorkersAssumption

\* Each step of the main thread is a submission, or none of the dispatcher's business.
LEMMA MainDispatches ==
  ASSUME IInv, Conserved, MainProgress \/ AcceptFails \/ (\E t \in Tasks : Accept(t))
  PROVE  [Dispatcher!Next]_(Dispatcher!vars)
<1> USE DEF IInv
<1>1. accepted \subseteq Tasks /\ NoTask \notin accepted
  BY TasksAssumption DEF TypeOK
<1>2. CASE StartThreadPool \/ CreateWorker \/ SubmitLock \/ SubmitSignal \/ SubmitUnlock \/ AcceptFails
  <2>1. UNCHANGED <<hand, queue, held, done, accepted, hpc>>
    BY <1>2 DEF StartThreadPool, CreateWorker, SubmitLock, SubmitSignal, SubmitUnlock, AcceptFails,
       poolVars, workerVars, mainVars, handlerVars, historyVars
  <2> QED
    BY <2>1 DEF Dispatcher!vars, Held
<1>3. ASSUME NEW t \in Tasks, Accept(t)
      PROVE  [Dispatcher!Next]_(Dispatcher!vars)
  <2>1. hand = NoTask
    BY <1>3 DEF Accept, MainAt, Hands
  <2>2. (accepted \ {hand})' = accepted \ {hand}
    BY <1>1, <1>3, <2>1 DEF Accept
  <2>3. UNCHANGED <<queue, held, done, hpc>>
    BY <1>3 DEF Accept, poolVars, workerVars, handlerVars
  <2> QED
    BY <2>2, <2>3 DEF Dispatcher!vars, Held
<1>4. CASE SubmitAdd
  <2>1. hand \in Tasks /\ hand \in accepted
    BY <1>4 DEF SubmitAdd, MainAt, Hands, TypeOK, Conserved, TaskConserved, Hand
  <2>2. (accepted \ {hand})' = (accepted \ {hand}) \cup {hand}
    BY <1>1, <1>4, <2>1 DEF SubmitAdd, historyVars
  <2>3. UNCHANGED <<held, done, hpc>> /\ queue' = Append(queue, hand)
    BY <1>4 DEF SubmitAdd, workerVars, handlerVars, historyVars
  <2>4. Dispatcher!Submit(hand)
    BY <2>2, <2>3 DEF Dispatcher!Submit, Held
  <2> QED
    BY <2>1, <2>4 DEF Dispatcher!Next
<1> QED
  BY <1>2, <1>3, <1>4 DEF MainProgress

\* A worker's removal is a dispatch, its return the end of a task, its cancellation the
\* abandonment of one in a stopped pool.
LEMMA WorkerDispatches ==
  ASSUME IInv, Conserved, NEW w \in Workers, WorkerProgress(w) \/ SpuriousWakeup(w)
  PROVE  [Dispatcher!Next]_(Dispatcher!vars)
<1> USE DEF IInv
<1>1. OnePlace
  BY DEF Conserved, TaskConserved
<1>2. CASE Take(w)
  <2>1. /\ UNCHANGED <<hand, done, accepted, hpc>>
        /\ queue # <<>> /\ queue' = Tail(queue)
        /\ held[w] = NoTask /\ held' = [held EXCEPT ![w] = Head(queue)]
    BY <1>2 DEF Take, WorkerAt, Hands, mainVars, handlerVars, historyVars
  <2>2. hpc \in {"none", "lock", "stop"}
    BY <1>2 DEF Take, WorkerAt, Critical, Phases
  <2>3. TypeOK /\ Head(queue) \in Tasks
    BY <2>1 DEF TypeOK
  <2>4. Cardinality(Held) < MaxWorkers /\ Held' = Held \cup {Head(queue)}
    <3> HIDE DEF IInv
    <3>1. Cardinality(Held) < MaxWorkers
      BY <2>1, <2>3, RoomForOne
    <3>2. Held' = Held \cup {Head(queue)}
      BY <2>1, <2>3, HeldGains
    <3> QED
      BY <3>1, <3>2
  <2>5. Dispatcher!Cardinality(Held) = Cardinality(Held)
    BY DEF Dispatcher!Cardinality, Cardinality
  <2>6. Dispatcher!Dispatch
    BY <2>1, <2>2, <2>4, <2>5 DEF Dispatcher!Dispatch
  <2> QED
    BY <2>6 DEF Dispatcher!Next
<1>3. CASE Finish(w)
  <2>1. /\ UNCHANGED <<hand, queue, accepted, hpc>>
        /\ held[w] # NoTask /\ held' = [held EXCEPT ![w] = NoTask]
        /\ done' = done \cup {held[w]}
    BY <1>3 DEF Finish, WorkerAt, Hands, mainVars, handlerVars, poolVars
  <2>2. held[w] \in Held /\ held[w] \in Tasks /\ Held' = Held \ {held[w]}
    BY <1>1, <2>1, HeldLoses DEF OnePlace, Held, TypeOK
  <2>3. Dispatcher!Finish(held[w])
    BY <2>1, <2>2 DEF Dispatcher!Finish
  <2> QED
    BY <2>2, <2>3 DEF Dispatcher!Next
<1>4. CASE CancelInCall(w)
  <2>1. /\ UNCHANGED <<hand, queue, accepted, done, hpc>>
        /\ held' = [held EXCEPT ![w] = NoTask] /\ w \in cancelled
    BY <1>4 DEF CancelInCall, mainVars, handlerVars, poolVars, historyVars
  <2>2. hpc \notin {"none", "lock", "stop"}
    BY <2>1 DEF Phases
  <2>3. Held' = Held \ {held[w]}
    BY <1>1, <2>1, HeldLoses DEF OnePlace
  <2>4. CASE held[w] = NoTask
    BY <2>1, <2>3, <2>4 DEF Dispatcher!vars, Held
  <2>5. CASE held[w] # NoTask
    <3>1. held[w] \in Held /\ held[w] \in Tasks
      BY <2>5 DEF Held, TypeOK
    <3>2. Dispatcher!Abandon(held[w])
      BY <2>1, <2>2, <2>3, <3>1 DEF Dispatcher!Abandon
    <3> QED
      BY <3>1, <3>2 DEF Dispatcher!Next
  <2> QED
    BY <2>4, <2>5
<1>5. CASE ~Take(w) /\ ~Finish(w) /\ ~CancelInCall(w)
  <2>1. UNCHANGED <<hand, queue, accepted, done, held, hpc>>
    BY <1>5 DEF WorkerProgress, LoadMagicDB, TestRunning, LockQueue, CheckQueue, Reacquire,
       QuitUnlock, UnlockQueue, LeaveUnlock, CancelInWait, DieWithMutex, SpuriousWakeup,
       poolVars, mainVars, handlerVars, historyVars
  <2> QED
    BY <2>1 DEF Dispatcher!vars, Held
<1> QED
  BY <1>2, <1>3, <1>4, <1>5

\* The handler stops the dispatcher where it clears running.
LEMMA HandlerDispatches ==
  ASSUME IInv, Signal \/ HandlerProgress
  PROVE  [Dispatcher!Next]_(Dispatcher!vars)
<1>1. UNCHANGED <<hand, queue, accepted, done, held>>
  BY DEF Signal, HandlerProgress, ShutDownLock, ShutDownStop, ShutDownBroadcast, ShutDownUnlock,
     CancelWorker, JoinWorker, FreeWorker, FreeServer, poolVars, mainVars, workerVars, historyVars
<1>2. CASE ShutDownStop
  <2>1. hpc = "stop" /\ hpc' = "broadcast"
    BY <1>2 DEF ShutDownStop, HandlerAt, HandlerGoto
  <2>2. Dispatcher!Stop
    BY <1>1, <2>1 DEF Dispatcher!Stop, Held
  <2> QED
    BY <2>2 DEF Dispatcher!Next
<1>3. CASE ~ShutDownStop
  <2>1. (hpc \notin {"none", "lock", "stop"})' = (hpc \notin {"none", "lock", "stop"})
    BY <1>3 DEF Signal, HandlerProgress, ShutDownLock, ShutDownBroadcast, ShutDownUnlock,
       CancelWorker, JoinWorker, FreeWorker, FreeServer, HandlerAt, HandlerGoto, handlerVars
  <2> QED
    BY <1>1, <2>1 DEF Dispatcher!vars, Held
<1> QED
  BY <1>2, <1>3

\* The pool with its threads, mutex and condition variable is a dispatcher that starts
\* each connection once, in the order of their arrival, none after the stop.
THEOREM PoolDispatches == Spec => ImplementsDispatch
<1>1. Init => Dispatcher!Init
  BY DEF Init, Dispatcher!Init, Held
<1>2. IInv /\ Conserved /\ [Next]_vars => [Dispatcher!Next]_(Dispatcher!vars)
  <2> SUFFICES ASSUME IInv, Conserved, [Next]_vars
               PROVE  [Dispatcher!Next]_(Dispatcher!vars)
    OBVIOUS
  <2>1. CASE UNCHANGED vars
    <3>1. UNCHANGED <<hand, queue, accepted, done, held, hpc>>
      BY <2>1 DEF vars, poolVars, workerVars, mainVars, handlerVars, historyVars
    <3> QED
      BY <3>1 DEF Dispatcher!vars, Held
  <2> QED
    BY <2>1, MainDispatches, WorkerDispatches, HandlerDispatches DEF Next
<1> QED
  BY <1>1, <1>2, Invariance, ConservedHolds, PTL DEF Spec, ImplementsDispatch, Dispatcher!Spec

-----------------------------------------------------------------------------
(* The deque: its elements, one by one, from first on.                     *)

Rings(E, cap) ==
    [buf : [0..(cap - 1) -> E], first : 0..(cap - 1), last : 0..(cap - 1), size : 0..cap,
     cap : {cap}, spilt : BOOLEAN]

\* A deque whose indices are in its buffer, with its elements from first on.
Ring(d, E) ==
    /\ d.cap \in Nat \ {0} /\ d \in Rings(E, d.cap)
    /\ d.last = (d.first + d.size) % d.cap

\* A remainder of what is at most once around.
LEMMA Around ==
  ASSUME NEW k \in Nat \ {0}, NEW x \in Int, -k <= x, x < 2 * k
  PROVE  x % k = IF x < 0 THEN x + k ELSE IF x < k THEN x ELSE x - k
<1> DEFINE q == x \div k
           r == x % k
<1>1. q \in Int /\ r \in 0..(k - 1) /\ x = k * q + r
  OBVIOUS
<1> HIDE DEF q, r
<1>2. q \in {-1, 0, 1}
  <2>1. CASE q >= 2
    <3>1. k * q = k * (q - 2) + 2 * k
      BY <1>1
    <3>2. q - 2 \in Nat
      BY <1>1, <2>1
    <3>3. k * (q - 2) \in Nat
      BY <3>2
    <3> QED
      BY <1>1, <3>1, <3>3
  <2>2. CASE q <= -2
    <3>1. k * q = -(k * (-2 - q)) - 2 * k
      BY <1>1
    <3>2. -2 - q \in Nat
      BY <1>1, <2>2
    <3>3. k * (-2 - q) \in Nat
      BY <3>2
    <3> QED
      BY <1>1, <3>1, <3>3
  <2> QED
    BY <1>1, <2>1, <2>2
<1>3. k * 1 = k /\ k * 0 = 0 /\ k * (-1) = -k
  OBVIOUS
<1>4. r = IF x < 0 THEN x + k ELSE IF x < k THEN x ELSE x - k
  <2>1. CASE q = -1
    BY <1>1, <1>3, <2>1
  <2>2. CASE q = 0
    BY <1>1, <1>3, <2>2
  <2>3. CASE q = 1
    BY <1>1, <1>3, <2>3
  <2> QED
    BY <1>2, <2>1, <2>2, <2>3
<1> QED
  BY <1>4 DEF r

\* The slot i places on, and the slots next to one.
LEMMA Onward ==
  ASSUME NEW k \in Nat \ {0}, NEW f \in 0..(k - 1), NEW i \in 0..k
  PROVE  (f + i) % k = IF f + i < k THEN f + i ELSE f + i - k
<1> DEFINE x == f + i
<1>1. x \in Int /\ -k <= x /\ x < 2 * k /\ ~(x < 0)
  OBVIOUS
<1> HIDE DEF x
<1>2. x % k = IF x < k THEN x ELSE x - k
  BY <1>1, Around
<1> QED
  BY <1>2 DEF x

LEMMA Beside ==
  ASSUME NEW k \in Nat \ {0}, NEW l \in 0..(k - 1)
  PROVE  /\ (l + 1) % k = IF l + 1 < k THEN l + 1 ELSE 0
         /\ (l - 1) % k = IF l > 0 THEN l - 1 ELSE k - 1
<1> DEFINE x == l + 1
           y == l - 1
<1>1. /\ x \in Int /\ -k <= x /\ x < 2 * k /\ ~(x < 0)
      /\ y \in Int /\ -k <= y /\ y < k /\ y < 2 * k
  OBVIOUS
<1> HIDE DEF x, y
<1>2. /\ x % k = IF x < k THEN x ELSE x - k
      /\ y % k = IF y < 0 THEN y + k ELSE y
  BY <1>1, Around
<1> QED
  BY <1>2 DEF x, y

\* The slot i places on from the slot f, in a buffer of k.
On(k, f, i) == (f + i) % k

\* One slot on from the slot i places on is the slot i + 1 places on; and so back, and
\* from a first slot moved by one.
LEMMA NextOn ==
  ASSUME NEW k \in Nat \ {0}, NEW f \in 0..(k - 1), NEW i \in 0..(k - 1)
  PROVE  /\ (On(k, f, i) + 1) % k = On(k, f, i + 1)
         /\ (On(k, f, i + 1) - 1) % k = On(k, f, i)
         /\ On(k, (f + 1) % k, i) = On(k, f, i + 1)
         /\ On(k, (f - 1) % k, i + 1) = On(k, f, i)
<1> DEFINE m == i + 1
           x == (f + i) % k
           y == (f + m) % k
           up == (f + 1) % k
           down == (f - 1) % k
<1>1. m \in 0..k /\ i \in 0..k
  OBVIOUS
<1>2. x = (IF f + i < k THEN f + i ELSE f + i - k) /\ x \in 0..(k - 1)
  <2>1. x = IF f + i < k THEN f + i ELSE f + i - k
    BY <1>1, Onward
  <2> HIDE DEF x
  <2> QED
    BY <2>1
<1>3. y = IF f + m < k THEN f + m ELSE f + m - k
  <2> HIDE DEF m
  <2> QED
    BY <1>1, Onward
<1>4. y \in 0..(k - 1) /\ f + m = f + i + 1
  <2> HIDE DEF y
  <2> QED
    BY <1>1, <1>3
<1>5. /\ up = (IF f + 1 < k THEN f + 1 ELSE 0) /\ up \in 0..(k - 1)
      /\ down = (IF f > 0 THEN f - 1 ELSE k - 1) /\ down \in 0..(k - 1)
  <2>1. up = (IF f + 1 < k THEN f + 1 ELSE 0) /\ down = (IF f > 0 THEN f - 1 ELSE k - 1)
    BY Beside
  <2> HIDE DEF up, down
  <2> QED
    BY <2>1
<1> HIDE DEF x, y, up, down
<1>6. (x + 1) % k = IF x + 1 < k THEN x + 1 ELSE 0
  BY <1>2, Beside
<1>7. (y - 1) % k = IF y > 0 THEN y - 1 ELSE k - 1
  BY <1>4, Beside
<1>8. (up + i) % k = IF up + i < k THEN up + i ELSE up + i - k
  BY <1>1, <1>5, Onward
<1>9. (down + m) % k = IF down + m < k THEN down + m ELSE down + m - k
  <2> HIDE DEF m
  <2> QED
    BY <1>1, <1>5, Onward
<1>10. (x + 1) % k = y
  BY <1>2, <1>3, <1>6
<1>11. (y - 1) % k = x
  BY <1>2, <1>3, <1>7
<1>12. (up + i) % k = y
  BY <1>3, <1>5, <1>8
<1>13. (down + m) % k = x
  BY <1>2, <1>5, <1>9
<1> QED
  BY <1>10, <1>11, <1>12, <1>13 DEF x, y, up, down, On

\* Different places are different slots.
LEMMA Apart ==
  ASSUME NEW k \in Nat \ {0}, NEW f \in 0..(k - 1), NEW i \in 0..(k - 1), NEW j \in 0..(k - 1),
         (f + i) % k = (f + j) % k
  PROVE  i = j
<1> DEFINE x == (f + i) % k
           y == (f + j) % k
<1>1. i \in 0..k /\ j \in 0..k
  OBVIOUS
<1>2. /\ x = IF f + i < k THEN f + i ELSE f + i - k
      /\ y = IF f + j < k THEN f + j ELSE f + j - k
  BY <1>1, Onward
<1>3. x = y
  OBVIOUS
<1> HIDE DEF x, y
<1> QED
  BY <1>2, <1>3

LEMMA OnIs ==
  ASSUME NEW k \in Nat \ {0}, NEW f \in 0..(k - 1), NEW i \in 0..k
  PROVE  /\ On(k, f, i) = IF f + i < k THEN f + i ELSE f + i - k
         /\ On(k, f, i) \in 0..(k - 1)
<1>1. On(k, f, i) = IF f + i < k THEN f + i ELSE f + i - k
  BY Onward DEF On
<1> QED
  BY <1>1

LEMMA OnAll ==
  ASSUME NEW k \in Nat \ {0}, NEW f \in 0..(k - 1)
  PROVE  /\ (f - 1) % k \in 0..(k - 1) /\ (f + 1) % k \in 0..(k - 1)
         /\ On(k, f, 0) = f
         /\ \A i \in 0..(k - 1) :
              /\ (On(k, f, i) + 1) % k = On(k, f, i + 1)
              /\ (On(k, f, i + 1) - 1) % k = On(k, f, i)
              /\ On(k, (f + 1) % k, i) = On(k, f, i + 1)
              /\ On(k, (f - 1) % k, i + 1) = On(k, f, i)
         /\ \A i, j \in 0..(k - 1) : On(k, f, i) = On(k, f, j) => i = j
<1>1. /\ (f - 1) % k = (IF f > 0 THEN f - 1 ELSE k - 1)
      /\ (f + 1) % k = (IF f + 1 < k THEN f + 1 ELSE 0)
  BY Beside
<1>2. (f - 1) % k \in 0..(k - 1) /\ (f + 1) % k \in 0..(k - 1)
  BY <1>1
<1>3. On(k, f, 0) = f
  BY OnIs
<1>4. ASSUME NEW i \in 0..(k - 1)
      PROVE  /\ (On(k, f, i) + 1) % k = On(k, f, i + 1)
             /\ (On(k, f, i + 1) - 1) % k = On(k, f, i)
             /\ On(k, (f + 1) % k, i) = On(k, f, i + 1)
             /\ On(k, (f - 1) % k, i + 1) = On(k, f, i)
  BY <1>4, NextOn
<1>5. ASSUME NEW i \in 0..(k - 1), NEW j \in 0..(k - 1), On(k, f, i) = On(k, f, j) PROVE i = j
  BY <1>5, Apart DEF On
<1> QED
  BY <1>2, <1>3, <1>4, <1>5

\* The fields of a ring, and where its elements are.
LEMMA RingFields ==
  ASSUME NEW E, NEW d, Ring(d, E)
  PROVE  /\ d.cap \in Nat \ {0} /\ d.size \in 0..d.cap
         /\ d.first \in 0..(d.cap - 1) /\ d.last \in 0..(d.cap - 1) /\ d.spilt \in BOOLEAN
         /\ d.buf \in [0..(d.cap - 1) -> E]
         /\ d = [buf |-> d.buf, first |-> d.first, last |-> d.last, size |-> d.size,
                 cap |-> d.cap, spilt |-> d.spilt]
         /\ d.last = IF d.first + d.size < d.cap THEN d.first + d.size ELSE d.first + d.size - d.cap
<1> DEFINE k == d.cap
           x == d.first + d.size
<1>1. d.last = x % k /\ k \in Nat \ {0} /\ d \in Rings(E, k)
  BY DEF Ring
<1> HIDE DEF k
<1>2. /\ d.size \in 0..k /\ d.first \in 0..(k - 1) /\ d.last \in 0..(k - 1)
      /\ d.spilt \in BOOLEAN /\ d.buf \in [0..(k - 1) -> E]
      /\ d = [buf |-> d.buf, first |-> d.first, last |-> d.last, size |-> d.size,
              cap |-> d.cap, spilt |-> d.spilt]
  BY <1>1 DEF Rings
<1>3. x % k = IF x < k THEN x ELSE x - k
  <2> DEFINE f == d.first
             n == d.size
  <2>1. f \in 0..(k - 1) /\ n \in 0..k /\ k \in Nat \ {0}
    BY <1>1, <1>2
  <2> HIDE DEF f, n
  <2>2. (f + n) % k = IF f + n < k THEN f + n ELSE f + n - k
    BY <2>1, Onward
  <2> QED
    BY <2>1, <2>2 DEF f, n
<1> HIDE DEF x
<1>4. d.last = IF x < k THEN x ELSE x - k
  BY <1>1, <1>3
<1> QED
  BY <1>1, <1>2, <1>4 DEF k, x

\* The last index is that of the slot behind the last element.
LEMMA RingLast ==
  ASSUME NEW E, NEW d, Ring(d, E)
  PROVE  /\ d.last = On(d.cap, d.first, d.size)
         /\ \A i \in Nat : D!Slot(d, i) = On(d.cap, d.first, i)
  BY DEF Ring, On, D!Slot

\* The element i places behind the first.
LEMMA ElementAt ==
  ASSUME NEW E, NEW d, Ring(d, E), NEW i \in 0..(d.cap - 1)
  PROVE  /\ D!Slot(d, i) = IF d.first + i < d.cap THEN d.first + i ELSE d.first + i - d.cap
         /\ D!Slot(d, i) \in 0..(d.cap - 1)
         /\ D!At(d, i) = d.buf[D!Slot(d, i)] /\ D!At(d, i) \in E
<1>1. d.first \in 0..(d.cap - 1) /\ d.cap \in Nat \ {0} /\ d.buf \in [0..(d.cap - 1) -> E]
  BY RingFields
<1>2. d.first + i \in Int /\ -d.cap <= d.first + i /\ d.first + i < 2 * d.cap /\ ~(d.first + i < 0)
  BY <1>1
<1>3. D!Slot(d, i) = IF d.first + i < d.cap THEN d.first + i ELSE d.first + i - d.cap
  <2> DEFINE f == d.first
             k == d.cap
  <2>1. k \in Nat \ {0} /\ f \in 0..(k - 1) /\ i \in 0..k
    BY <1>1
  <2> HIDE DEF f, k
  <2>2. (f + i) % k = IF f + i < k THEN f + i ELSE f + i - k
    BY <2>1, Onward
  <2> QED
    BY <2>2 DEF D!Slot, f, k
<1>4. D!Slot(d, i) \in 0..(d.cap - 1)
  BY <1>1, <1>2, <1>3
<1> QED
  BY <1>1, <1>3, <1>4 DEF D!At

LEMMA ContentsType ==
  ASSUME NEW E, NEW d, Ring(d, E)
  PROVE  /\ D!Contents(d) \in Seq(E) /\ Len(D!Contents(d)) = d.size
         /\ \A n \in 1..d.size : D!Contents(d)[n] = D!At(d, n - 1)
<1>1. d.size \in Nat /\ d.size <= d.cap /\ d.cap \in Nat
  BY RingFields
<1>2. \A n \in 1..d.size : n - 1 \in 0..(d.cap - 1) /\ D!At(d, n - 1) \in E
  BY <1>1, ElementAt
<1>3. D!Contents(d) \in [1..d.size -> E] /\ \A n \in 1..d.size : D!Contents(d)[n] = D!At(d, n - 1)
  BY <1>2 DEF D!Contents
<1> QED
  BY <1>1, <1>3

\* What says which sequence a ring holds.
LEMMA ContentsAre ==
  ASSUME NEW E, NEW d, Ring(d, E), NEW s \in Seq(E), Len(s) = d.size,
         \A n \in 1..d.size : s[n] = D!At(d, n - 1)
  PROVE  D!Contents(d) = s
<1>1. DOMAIN s = 1..d.size /\ s = [n \in DOMAIN s |-> s[n]]
  OBVIOUS
<1> QED
  BY <1>1 DEF D!Contents

\* What makes a ring.
LEMMA RingMade ==
  ASSUME NEW E, NEW r, r.cap \in Nat \ {0},
         r = [buf |-> r.buf, first |-> r.first, last |-> r.last, size |-> r.size,
              cap |-> r.cap, spilt |-> r.spilt],
         r.buf \in [0..(r.cap - 1) -> E], r.first \in 0..(r.cap - 1), r.last \in 0..(r.cap - 1),
         r.size \in 0..r.cap, r.spilt \in BOOLEAN, r.last = On(r.cap, r.first, r.size)
  PROVE  Ring(r, E)
  BY DEF Ring, Rings, On

\* copy_buffer: a buffer with a slot to spare, grown or not, gets the elements in their order.
LEMMA RebuiltLaw ==
  ASSUME NEW E, Junk \in E, NEW d, Ring(d, E), NEW room \in Nat, d.cap <= room, d.size < room
  PROVE  LET h == D!Rebuilt(d, room)
         IN  /\ Ring(h, E) /\ D!Contents(h) = D!Contents(d)
             /\ h.size = d.size /\ h.cap = room /\ h.spilt = d.spilt
<1> DEFINE h == D!Rebuilt(d, room)
           k == d.cap
           f == d.first
           n == d.size
           b == D!CopyBuffer(d, room)
           copied == D!Copied(d)
<1>1. /\ k \in Nat \ {0} /\ n \in 0..k /\ f \in 0..(k - 1) /\ d.last \in 0..(k - 1)
      /\ d.buf \in [0..(k - 1) -> E] /\ d.spilt \in BOOLEAN
      /\ d.last = IF f + n < k THEN f + n ELSE f + n - k
  BY RingFields
<1>2. copied = IF d.last > f THEN n ELSE k - f + d.last
  BY DEF D!Copied
<1>3. copied \in 0..k /\ n <= copied
  BY <1>1, <1>2
<1>4. h = [buf |-> b, first |-> 0, last |-> n, size |-> n, cap |-> room,
           spilt |-> d.spilt \/ copied > room]
  BY DEF D!Rebuilt
<1>5. b = [i \in 0..(room - 1) |->
             CASE i >= copied -> Junk
               [] i < copied /\ d.last > f -> d.buf[f + i]
               [] OTHER -> IF i < k - f THEN d.buf[f + i] ELSE d.buf[i - (k - f)]]
  BY DEF D!CopyBuffer
<1>6. \A i \in Nat : D!Slot(d, i) = On(k, f, i)
  BY RingLast
<1>7. D!Contents(d) \in Seq(E) /\ Len(D!Contents(d)) = n
      /\ \A i \in 1..n : D!Contents(d)[i] = D!At(d, i - 1)
  BY ContentsType
<1> HIDE DEF k, f, n, copied, b, h
<1>8. ASSUME NEW i \in 0..(room - 1)
      PROVE  /\ b[i] = IF i >= copied THEN Junk
                       ELSE IF d.last > f \/ i < k - f THEN d.buf[f + i] ELSE d.buf[i - (k - f)]
             /\ b[i] \in E
  <2>1. CASE i >= copied
    BY <1>3, <1>5, <2>1
  <2>2. CASE i < copied /\ d.last > f
    <3>1. f + i \in 0..(k - 1)
      BY <1>1, <1>2, <2>2
    <3>2. ~(i >= copied) /\ b[i] = d.buf[f + i]
      BY <1>3, <1>5, <2>2
    <3> QED
      BY <1>1, <2>2, <3>1, <3>2
  <2>3. CASE i < copied /\ ~(d.last > f)
    <3> DEFINE last == d.last
    <3>0. /\ k \in Nat \ {0} /\ f \in 0..(k - 1) /\ last \in 0..(k - 1)
          /\ copied = k - f + last /\ i \in Nat /\ i < copied
      BY <1>1, <1>2, <2>3
    <3> HIDE DEF last
    <3>1. IF i < k - f THEN f + i \in 0..(k - 1) ELSE i - (k - f) \in 0..(k - 1)
      BY <3>0
    <3>2. ~(i >= copied)
      BY <1>3, <2>3
    <3>3. b[i] = IF i < k - f THEN d.buf[f + i] ELSE d.buf[i - (k - f)]
      BY <1>5, <2>3, <3>2
    <3> QED
      BY <1>1, <2>3, <3>1, <3>2, <3>3
  <2> QED
    BY <1>3, <2>1, <2>2, <2>3
<1>9. b \in [0..(room - 1) -> E]
  BY <1>5, <1>8
<1>10. room \in Nat \ {0} /\ 0 \in 0..(room - 1) /\ n \in 0..(room - 1) /\ n \in 0..room
       /\ ~(copied > room)
  BY <1>1, <1>3 DEF k, n
<1>11. On(room, 0, n) = n
  BY <1>10, OnIs
<1>12. /\ h.buf = b /\ h.first = 0 /\ h.last = n /\ h.size = n /\ h.cap = room
       /\ h.spilt = (d.spilt \/ copied > room)
       /\ h = [buf |-> h.buf, first |-> h.first, last |-> h.last, size |-> h.size,
               cap |-> h.cap, spilt |-> h.spilt]
  BY <1>4
<1>13. h.spilt = d.spilt
  BY <1>1, <1>10, <1>12
<1>14. Ring(h, E)
  BY <1>1, <1>9, <1>10, <1>11, <1>12, <1>13, RingMade
<1>15. ASSUME NEW i \in 1..n PROVE D!Contents(d)[i] = D!At(h, i - 1)
  <2> DEFINE j == i - 1
  <2>1. j \in 0..(n - 1) /\ j \in Nat /\ j \in 0..(room - 1) /\ j \in 0..(k - 1)
        /\ j \in 0..room /\ j \in 0..k
    BY <1>1, <1>10
  <2>2. D!Contents(d)[i] = D!At(d, j)
    BY <1>7
  <2> HIDE DEF j
  <2>3. D!Slot(h, j) = On(room, 0, j) /\ On(room, 0, j) = j
    BY <1>10, <1>12, <1>14, <2>1, RingLast, OnIs
  <2>4. D!At(h, j) = b[j]
    BY <1>12, <2>3, Zenon DEF D!At
  <2>5. D!Slot(d, j) = IF f + j < k THEN f + j ELSE f + j - k
    BY <1>1, <1>6, <2>1, OnIs
  <2>6. D!At(d, j) = d.buf[D!Slot(d, j)]
    BY DEF D!At
  <2>7. b[j] = d.buf[D!Slot(d, j)]
    <3>1. ~(j >= copied) /\ (d.last > f => f + j < k)
      BY <1>1, <1>3, <2>1
    <3>2. b[j] = IF d.last > f \/ j < k - f THEN d.buf[f + j] ELSE d.buf[j - (k - f)]
      BY <1>8, <2>1, <3>1
    <3>3. CASE f + j < k
      BY <1>1, <2>1, <2>5, <3>2, <3>3
    <3>4. CASE ~(f + j < k)
      <4>1. ~(d.last > f \/ j < k - f) /\ j - (k - f) = f + j - k
        BY <1>1, <2>1, <3>1, <3>4
      <4> QED
        BY <2>5, <3>2, <3>4, <4>1
    <3> QED
      BY <3>3, <3>4
  <2> QED
    BY <2>2, <2>4, <2>6, <2>7 DEF j
<1>16. D!Contents(h) = D!Contents(d)
  BY <1>7, <1>12, <1>14, <1>15, ContentsAre
<1> QED
  BY <1>12, <1>13, <1>14, <1>16 DEF h, n

\* A full ring that grows keeps its elements in their order.
LEMMA Expanded ==
  ASSUME NEW E, Junk \in E, NEW d, Ring(d, E), d.size = d.cap
  PROVE  LET h == D!ExpandCapacity(d)
         IN  /\ Ring(h, E) /\ D!Contents(h) = D!Contents(d)
             /\ h.size = d.size /\ h.cap = 2 * d.cap /\ h.spilt = d.spilt
<1> DEFINE room == 2 * d.cap
<1>1. d.cap \in Nat \ {0}
  BY RingFields
<1>2. room \in Nat /\ d.cap <= room /\ d.size < room
  BY <1>1
<1> HIDE DEF room
<1>3. LET h == D!Rebuilt(d, room)
      IN  /\ Ring(h, E) /\ D!Contents(h) = D!Contents(d)
          /\ h.size = d.size /\ h.cap = room /\ h.spilt = d.spilt
  BY <1>2, RebuiltLaw
<1> QED
  BY <1>3 DEF D!ExpandCapacity, room

\* Before an addition the ring has a free slot.
LEMMA RoomMade ==
  ASSUME NEW E, Junk \in E, NEW d, Ring(d, E), NEW alloc, D!CanHold(d, alloc)
  PROVE  LET h == D!Holding(d)
         IN  /\ Ring(h, E) /\ D!Contents(h) = D!Contents(d)
             /\ h.size = d.size /\ h.size < h.cap /\ h.spilt = d.spilt
<1>1. d.size \in 0..d.cap /\ d.cap \in Nat \ {0}
  BY RingFields
<1>2. CASE d.size = d.cap
  BY <1>1, <1>2, Expanded DEF D!Holding
<1>3. CASE d.size # d.cap
  BY <1>1, <1>3 DEF D!Holding
<1> QED
  BY <1>2, <1>3

\* A slot of a buffer written.
LEMMA Written ==
  ASSUME NEW E, NEW k \in Nat \ {0}, NEW buf \in [0..(k - 1) -> E], NEW l \in 0..(k - 1), NEW e \in E
  PROVE  /\ [buf EXCEPT ![l] = e] \in [0..(k - 1) -> E]
         /\ \A i \in 0..(k - 1) : [buf EXCEPT ![l] = e][i] = IF i = l THEN e ELSE buf[i]
  OBVIOUS

\* An element put behind the last: the sequence is longer by it.
PutLast(h, e) ==
    [h EXCEPT !.buf = [h.buf EXCEPT ![h.last] = e], !.last = (h.last + 1) % h.cap, !.size = h.size + 1]

LEMMA Appended ==
  ASSUME NEW E, NEW h, Ring(h, E), h.size < h.cap, NEW e \in E
  PROVE  LET r == PutLast(h, e)
         IN  Ring(r, E) /\ r.spilt = h.spilt /\ D!Contents(r) = Append(D!Contents(h), e)
<1> DEFINE r == PutLast(h, e)
           k == h.cap
           f == h.first
           l == h.last
           n == h.size
           after == (l + 1) % k
           b == [h.buf EXCEPT ![h.last] = e]
           c == D!Contents(h)
           s == Append(c, e)
<1>1. /\ k \in Nat \ {0} /\ n \in 0..(k - 1) /\ f \in 0..(k - 1) /\ l \in 0..(k - 1)
      /\ h.buf \in [0..(k - 1) -> E] /\ h.spilt \in BOOLEAN
  BY RingFields
<1>2. l = On(k, f, n) /\ \A i \in Nat : D!Slot(h, i) = On(k, f, i)
  BY RingLast
<1>3a. ASSUME NEW x, x = PutLast(h, e)
       PROVE  /\ x.buf = b /\ x.first = f /\ x.last = after /\ x.size = n + 1 /\ x.cap = k
              /\ x.spilt = h.spilt
              /\ x = [buf |-> x.buf, first |-> x.first, last |-> x.last, size |-> x.size,
                      cap |-> x.cap, spilt |-> x.spilt]
  BY <1>3a DEF Ring, Rings, PutLast
<1>3b. r = PutLast(h, e)
  OBVIOUS
<1> HIDE DEF r
<1>3. /\ r.buf = b /\ r.first = f /\ r.last = after /\ r.size = n + 1 /\ r.cap = k
      /\ r.spilt = h.spilt
  BY <1>3a, <1>3b
<1>0. r = [buf |-> r.buf, first |-> r.first, last |-> r.last, size |-> r.size,
           cap |-> r.cap, spilt |-> r.spilt]
  BY <1>3a, <1>3b
<1>4. /\ b \in [0..(k - 1) -> E]
      /\ \A i \in 0..(k - 1) : b[i] = IF i = l THEN e ELSE h.buf[i]
  BY <1>1, Written
<1>5. c \in Seq(E) /\ Len(c) = n /\ \A i \in 1..n : c[i] = D!At(h, i - 1)
  BY ContentsType
<1> HIDE DEF k, f, n, c, l
<1>2a. \A i, j \in 0..(k - 1) : On(k, f, i) = On(k, f, j) => i = j
  BY <1>1, OnAll
<1>6. after = On(k, f, n + 1) /\ after \in 0..(k - 1) /\ n + 1 \in 0..k
  <2>1. (On(k, f, n) + 1) % k = On(k, f, n + 1)
    BY <1>1, OnAll
  <2>2. after = On(k, f, n + 1)
    BY <1>2, <2>1, Zenon
  <2>3. n + 1 \in 0..k
    BY <1>1
  <2> DEFINE m == n + 1
  <2>4. On(k, f, m) \in 0..(k - 1)
    <3>1. m \in 0..k
      BY <2>3
    <3> HIDE DEF m
    <3> QED
      BY <1>1, <3>1, OnIs
  <2> QED
    BY <2>2, <2>3, <2>4
<1> HIDE DEF b, after
<1>7. Ring(r, E)
  BY <1>0, <1>1, <1>3, <1>4, <1>6, RingMade
<1>8. s \in Seq(E) /\ Len(s) = n + 1 /\ s[n + 1] = e /\ \A i \in 1..n : s[i] = c[i]
  BY <1>1, <1>5
<1>9. ASSUME NEW i \in 1..r.size PROVE s[i] = D!At(r, i - 1)
  <2> DEFINE j == i - 1
  <2>1. i \in 1..(n + 1) /\ j \in 0..(k - 1) /\ i = j + 1
    BY <1>1, <1>3
  <2>2. D!Slot(r, j) = On(k, f, j) /\ D!Slot(h, j) = On(k, f, j) /\ On(k, f, j) \in 0..(k - 1)
    <3> HIDE DEF j
    <3>1. j \in Nat /\ j \in 0..k
      BY <1>1, <2>1
    <3>2. D!Slot(r, j) = On(r.cap, r.first, j)
      BY <1>7, <3>1, RingLast
    <3>3. D!Slot(h, j) = On(k, f, j)
      BY <1>2, <3>1
    <3>4. On(k, f, j) \in 0..(k - 1)
      BY <1>1, <3>1, OnIs
    <3> QED
      BY <1>3, <3>2, <3>3, <3>4
  <2> HIDE DEF j
  <2>3. D!At(r, j) = IF On(k, f, j) = l THEN e ELSE D!At(h, j)
    <3>1. D!At(r, j) = b[On(k, f, j)] /\ D!At(h, j) = h.buf[On(k, f, j)]
      BY <1>3, <2>2, Zenon DEF D!At
    <3> QED
      BY <1>4, <2>2, <3>1
  <2>4. CASE j = n
    <3>1. D!At(r, j) = e /\ i = n + 1
      BY <1>2, <2>1, <2>3, <2>4
    <3> QED
      BY <1>8, <3>1 DEF j
  <2>5. CASE j # n
    <3>1. i \in 1..n /\ On(k, f, j) # l
      BY <1>1, <1>2, <1>2a, <2>1, <2>5
    <3> QED
      BY <1>5, <1>8, <2>3, <3>1 DEF j
  <2> QED
    BY <2>4, <2>5
<1>10. D!Contents(r) = s
  <2> HIDE DEF s
  <2> QED
    BY <1>3, <1>7, <1>8, <1>9, ContentsAre
<1> QED
  BY <1>3, <1>7, <1>10 DEF n, c, r

\* An element put before the first: the sequence begins with it.
PutFirst(h, e) ==
    [h EXCEPT !.first = (h.first - 1) % h.cap, !.buf = [h.buf EXCEPT ![(h.first - 1) % h.cap] = e],
              !.size = h.size + 1]

LEMMA Prepended ==
  ASSUME NEW E, NEW h, Ring(h, E), h.size < h.cap, NEW e \in E
  PROVE  LET r == PutFirst(h, e)
         IN  Ring(r, E) /\ r.spilt = h.spilt /\ D!Contents(r) = <<e>> \o D!Contents(h)
<1> DEFINE r == PutFirst(h, e)
           k == h.cap
           f == h.first
           g == (f - 1) % k
           n == h.size
           b == [h.buf EXCEPT ![g] = e]
           c == D!Contents(h)
           s == <<e>> \o c
<1>1. /\ k \in Nat \ {0} /\ n \in 0..(k - 1) /\ f \in 0..(k - 1) /\ h.last \in 0..(k - 1)
      /\ h.buf \in [0..(k - 1) -> E] /\ h.spilt \in BOOLEAN
  BY RingFields
<1>2. h.last = On(k, f, n) /\ \A i \in Nat : D!Slot(h, i) = On(k, f, i)
  BY RingLast
<1>3a. ASSUME NEW x, x = PutFirst(h, e)
       PROVE  /\ x.buf = b /\ x.first = g /\ x.last = h.last /\ x.size = n + 1 /\ x.cap = k
              /\ x.spilt = h.spilt
              /\ x = [buf |-> x.buf, first |-> x.first, last |-> x.last, size |-> x.size,
                      cap |-> x.cap, spilt |-> x.spilt]
  BY <1>3a DEF Ring, Rings, PutFirst
<1>3b. r = PutFirst(h, e)
  OBVIOUS
<1> HIDE DEF r
<1>3. /\ r.buf = b /\ r.first = g /\ r.last = h.last /\ r.size = n + 1 /\ r.cap = k
      /\ r.spilt = h.spilt
  BY <1>3a, <1>3b
<1>0. r = [buf |-> r.buf, first |-> r.first, last |-> r.last, size |-> r.size,
           cap |-> r.cap, spilt |-> r.spilt]
  BY <1>3a, <1>3b
<1>4. c \in Seq(E) /\ Len(c) = n /\ \A i \in 1..n : c[i] = D!At(h, i - 1)
  BY ContentsType
<1> HIDE DEF k, f, n, c
<1>5. g \in 0..(k - 1) /\ \A i \in 0..(k - 1) : On(k, g, i + 1) = On(k, f, i)
  BY <1>1, OnAll
<1> HIDE DEF g
<1>6. On(k, g, 0) = g /\ \A i \in 1..(k - 1) : On(k, g, i) # g
  <2>1. On(k, g, 0) = g /\ \A i, j \in 0..(k - 1) : On(k, g, i) = On(k, g, j) => i = j
    BY <1>1, <1>5, OnAll
  <2> QED
    BY <1>1, <2>1
<1>7. /\ b \in [0..(k - 1) -> E]
      /\ \A i \in 0..(k - 1) : b[i] = IF i = g THEN e ELSE h.buf[i]
  BY <1>1, <1>5, Written
<1> HIDE DEF b
<1>8. Ring(r, E)
  <2>1. n + 1 \in 0..k /\ h.last = On(k, g, n + 1)
    BY <1>1, <1>2, <1>5
  <2> QED
    BY <1>0, <1>1, <1>3, <1>5, <1>7, <2>1, RingMade
<1>9. s \in Seq(E) /\ Len(s) = n + 1 /\ s[1] = e /\ \A i \in 1..n : s[i + 1] = c[i]
  BY <1>1, <1>4
<1>10. ASSUME NEW i \in 1..r.size PROVE s[i] = D!At(r, i - 1)
  <2> DEFINE j == i - 1
  <2>1. i \in 1..(n + 1) /\ j \in 0..(k - 1) /\ i = j + 1 /\ j \in Nat /\ j \in 0..k
    BY <1>1, <1>3
  <2> HIDE DEF j
  <2>2. D!At(r, j) = b[On(k, g, j)] /\ On(k, g, j) \in 0..(k - 1)
    <3>1. D!Slot(r, j) = On(r.cap, r.first, j)
      BY <1>8, <2>1, RingLast
    <3>2. On(k, g, j) \in 0..(k - 1)
      BY <1>1, <1>5, <2>1, OnIs
    <3>3. D!At(r, j) = b[On(k, g, j)]
      BY <1>3, <3>1, Zenon DEF D!At
    <3> QED
      BY <3>2, <3>3
  <2>3. CASE j = 0
    <3>1. D!At(r, j) = e
      BY <1>6, <1>7, <2>2, <2>3
    <3> QED
      BY <1>9, <2>1, <2>3, <3>1 DEF j
  <2>4. CASE j # 0
    <3> DEFINE m == j - 1
    <3>1. m \in 0..(k - 1) /\ m + 1 = j /\ m \in Nat /\ j \in 1..n /\ j \in 1..(k - 1)
      BY <1>1, <2>1, <2>4
    <3>2. c[j] = D!At(h, m)
      BY <1>4, <3>1
    <3> HIDE DEF m
    <3>3. On(k, g, j) = On(k, f, m) /\ D!Slot(h, m) = On(k, f, m)
      BY <1>2, <1>5, <3>1
    <3>4. D!At(r, j) = D!At(h, m)
      <4>1. D!At(h, m) = h.buf[On(k, f, m)]
        BY <3>3, Zenon DEF D!At
      <4> QED
        BY <1>6, <1>7, <2>2, <3>1, <3>3, <4>1
    <3> QED
      BY <1>9, <2>1, <3>1, <3>2, <3>4 DEF j
  <2> QED
    BY <2>3, <2>4
<1>11. D!Contents(r) = s
  <2> HIDE DEF s
  <2> QED
    BY <1>3, <1>8, <1>9, <1>10, ContentsAre
<1> QED
  BY <1>3, <1>8, <1>11 DEF n, c, r

-----------------------------------------------------------------------------
\* cc_deque_add_last puts the element behind all others, growing first when the buffer is
\* full, and writes no slot outside the buffer; refused, it leaves the deque alone.
THEOREM AddLastLaw ==
  ASSUME NEW E, Junk \in E, NEW d, Ring(d, E), NEW e \in E, NEW alloc
  PROVE  LET r == D!AddLast(d, e, alloc)
         IN  /\ r.stat = "OK" <=> D!CanHold(d, alloc)
             /\ r.stat = "OK" => /\ Ring(r.list, E) /\ r.list.spilt = d.spilt
                                 /\ D!Contents(r.list) = Append(D!Contents(d), e)
             /\ r.stat # "OK" => r.list = d
<1> DEFINE r == D!AddLast(d, e, alloc)
           h == D!Holding(d)
<1>1. CASE ~D!CanHold(d, alloc)
  BY <1>1 DEF D!AddLast, D!Refused
<1>2. CASE D!CanHold(d, alloc)
  <2>1. /\ Ring(h, E) /\ D!Contents(h) = D!Contents(d)
        /\ h.size = d.size /\ h.size < h.cap /\ h.spilt = d.spilt
    BY <1>2, RoomMade
  <2>2. h.last \in DOMAIN h.buf
    BY <2>1, RingFields
  <2>3. r = D!Done(PutLast(h, e))
    <3>1. r = D!Done([h EXCEPT !.buf = [@ EXCEPT ![h.last] = e], !.last = (@ + 1) % h.cap,
                               !.size = @ + 1, !.spilt = @ \/ FALSE])
      <4> HIDE DEF h
      <4> QED
        BY <1>2, <2>2 DEF D!AddLast, h
    <3> HIDE DEF h
    <3>2. h.spilt \in BOOLEAN
      BY <2>1, RingFields
    <3>3. PutLast(h, e) = [h EXCEPT !.buf = [@ EXCEPT ![h.last] = e], !.last = (@ + 1) % h.cap,
                                    !.size = @ + 1, !.spilt = @ \/ FALSE]
      BY <2>1, <3>2 DEF Ring, Rings, PutLast
    <3> QED
      BY <3>1, <3>3
  <2> HIDE DEF h, r
  <2>4. r.stat = "OK" /\ r.list = PutLast(h, e)
    BY <2>3 DEF D!Done
  <2> QED
    BY <1>2, <2>1, <2>4, Appended DEF r
<1> QED
  BY <1>1, <1>2

\* cc_deque_add_first puts it before all others.
THEOREM AddFirstLaw ==
  ASSUME NEW E, Junk \in E, NEW d, Ring(d, E), NEW e \in E, NEW alloc
  PROVE  LET r == D!AddFirst(d, e, alloc)
         IN  /\ r.stat = "OK" <=> D!CanHold(d, alloc)
             /\ r.stat = "OK" => /\ Ring(r.list, E) /\ r.list.spilt = d.spilt
                                 /\ D!Contents(r.list) = <<e>> \o D!Contents(d)
             /\ r.stat # "OK" => r.list = d
<1> DEFINE r == D!AddFirst(d, e, alloc)
           h == D!Holding(d)
<1>1. CASE ~D!CanHold(d, alloc)
  BY <1>1 DEF D!AddFirst, D!Refused
<1>2. CASE D!CanHold(d, alloc)
  <2>1. /\ Ring(h, E) /\ D!Contents(h) = D!Contents(d)
        /\ h.size = d.size /\ h.size < h.cap /\ h.spilt = d.spilt
    BY <1>2, RoomMade
  <2>2. r = D!Done(PutFirst(h, e))
    <3> HIDE DEF h
    <3> QED
      BY <1>2 DEF D!AddFirst, PutFirst, h
  <2> HIDE DEF h, r
  <2>3. r.stat = "OK" /\ r.list = PutFirst(h, e)
    BY <2>2 DEF D!Done
  <2> QED
    BY <1>2, <2>1, <2>3, Prepended DEF r
<1> QED
  BY <1>1, <1>2

\* The first slot is that of the first element, the one before last that of the last.
LEMMA Ends ==
  ASSUME NEW E, NEW d, Ring(d, E), d.size # 0
  PROVE  /\ d.buf[d.first] = D!At(d, 0) /\ d.buf[(d.last - 1) % d.cap] = D!At(d, d.size - 1)
         /\ (d.first + 1) % d.cap \in 0..(d.cap - 1) /\ (d.last - 1) % d.cap \in 0..(d.cap - 1)
         /\ (d.last - 1) % d.cap = On(d.cap, d.first, d.size - 1)
         /\ d.last = On(d.cap, (d.first + 1) % d.cap, d.size - 1)
<1> DEFINE k == d.cap
           f == d.first
           n == d.size
           m == n - 1
<1>1. k \in Nat \ {0} /\ f \in 0..(k - 1) /\ n \in 1..k /\ d.last \in 0..(k - 1)
  BY RingFields
<1>2. d.last = On(k, f, n) /\ \A i \in Nat : D!Slot(d, i) = On(k, f, i)
  BY RingLast
<1> HIDE DEF k, f, n
<1>3. m \in 0..(k - 1) /\ m + 1 = n /\ m \in Nat /\ 0 \in Nat
  BY <1>1
<1> HIDE DEF m
<1>4. On(k, f, 0) = f /\ (f + 1) % k \in 0..(k - 1) /\ (d.last - 1) % k \in 0..(k - 1)
  BY <1>1, OnAll
<1>5. (d.last - 1) % k = On(k, f, m) /\ d.last = On(k, (f + 1) % k, m)
  <2>1. (On(k, f, m + 1) - 1) % k = On(k, f, m) /\ On(k, (f + 1) % k, m) = On(k, f, m + 1)
    BY <1>1, <1>3, OnAll
  <2> QED
    BY <1>2, <1>3, <2>1
<1>6. D!Slot(d, 0) = f /\ D!Slot(d, m) = (d.last - 1) % k
  BY <1>2, <1>3, <1>4, <1>5
<1>7. d.buf[f] = D!At(d, 0) /\ d.buf[(d.last - 1) % k] = D!At(d, m)
  BY <1>6, Zenon DEF D!At
<1> QED
  BY <1>4, <1>5, <1>7 DEF k, f, n, m

\* cc_deque_remove_first takes the first element off and hands it out.
THEOREM RemoveFirstLaw ==
  ASSUME NEW E, NEW d, Ring(d, E), d.size # 0
  PROVE  LET r == D!RemoveFirst(d)
         IN  /\ r.stat = "OK" /\ r.out = Head(D!Contents(d))
             /\ Ring(r.list, E) /\ r.list.spilt = d.spilt
             /\ D!Contents(r.list) = Tail(D!Contents(d))
<1> DEFINE r == D!RemoveFirst(d)
           x == r.list
           k == d.cap
           f == d.first
           g == (f + 1) % k
           n == d.size
           c == D!Contents(d)
           s == Tail(c)
<1>1. /\ k \in Nat \ {0} /\ f \in 0..(k - 1) /\ n \in 1..k /\ d.last \in 0..(k - 1)
      /\ d.buf \in [0..(k - 1) -> E] /\ d.spilt \in BOOLEAN
  BY RingFields
<1>2. \A i \in Nat : D!Slot(d, i) = On(k, f, i)
  BY RingLast
<1>3. d.buf[f] = D!At(d, 0) /\ g \in 0..(k - 1) /\ d.last = On(k, g, n - 1)
  BY Ends
<1>4. c \in Seq(E) /\ Len(c) = n /\ \A i \in 1..n : c[i] = D!At(d, i - 1)
  BY ContentsType
<1>5. r = D!DoneWith([d EXCEPT !.first = (@ + 1) % d.cap, !.size = @ - 1], d.buf[d.first])
  BY DEF D!RemoveFirst
<1>6. r.stat = "OK" /\ r.out = d.buf[f] /\ x = [d EXCEPT !.first = (@ + 1) % d.cap, !.size = @ - 1]
  BY <1>5 DEF D!DoneWith
<1>7. ASSUME NEW y, y = [d EXCEPT !.first = (@ + 1) % d.cap, !.size = @ - 1]
      PROVE  /\ y.buf = d.buf /\ y.first = g /\ y.last = d.last /\ y.size = n - 1 /\ y.cap = k
             /\ y.spilt = d.spilt
             /\ y = [buf |-> y.buf, first |-> y.first, last |-> y.last, size |-> y.size,
                     cap |-> y.cap, spilt |-> y.spilt]
  BY <1>7 DEF Ring, Rings
<1> HIDE DEF r
<1>8. /\ x.buf = d.buf /\ x.first = g /\ x.last = d.last /\ x.size = n - 1 /\ x.cap = k
      /\ x.spilt = d.spilt
      /\ x = [buf |-> x.buf, first |-> x.first, last |-> x.last, size |-> x.size,
              cap |-> x.cap, spilt |-> x.spilt]
  BY <1>6, <1>7
<1> HIDE DEF x, k, f, n, c, g
<1>9. Ring(x, E)
  <2>1. n - 1 \in 0..k
    BY <1>1
  <2> QED
    BY <1>1, <1>3, <1>8, <2>1, RingMade
<1>10. s \in Seq(E) /\ Len(s) = n - 1 /\ \A i \in 1..(n - 1) : s[i] = c[i + 1]
  BY <1>1, <1>4
<1>11. ASSUME NEW i \in 1..x.size PROVE s[i] = D!At(x, i - 1)
  <2> DEFINE j == i - 1
  <2>1. i \in 1..(n - 1) /\ i + 1 \in 1..n /\ (i + 1) - 1 = i /\ i \in Nat /\ i = j + 1
        /\ j \in 0..(k - 1) /\ j \in Nat
    BY <1>1, <1>8
  <2> HIDE DEF j
  <2>2. s[i] = D!At(d, i)
    BY <1>4, <1>10, <2>1
  <2>3. D!Slot(x, j) = On(k, g, j)
    BY <1>8, <1>9, <2>1, RingLast
  <2>4. On(k, g, j) = On(k, f, i)
    <3>1. On(k, (f + 1) % k, j) = On(k, f, j + 1)
      BY <1>1, <2>1, OnAll
    <3> QED
      BY <2>1, <3>1 DEF g
  <2>5. D!At(x, j) = D!At(d, i)
    <3>1. D!Slot(x, j) = D!Slot(d, i)
      BY <1>2, <2>1, <2>3, <2>4
    <3> QED
      BY <1>8, <3>1, Zenon DEF D!At
  <2> QED
    BY <2>2, <2>5 DEF j
<1>12. D!Contents(x) = s
  <2> HIDE DEF s
  <2> QED
    BY <1>8, <1>9, <1>10, <1>11, ContentsAre
<1>13. r.out = Head(c)
  <2>1. 1 \in 1..n /\ 1 - 1 = 0 /\ c # <<>>
    BY <1>1, <1>4
  <2> QED
    BY <1>3, <1>4, <1>6, <2>1
<1> QED
  BY <1>6, <1>8, <1>9, <1>12, <1>13 DEF r, x, c

\* cc_deque_remove_last takes the last one off.
THEOREM RemoveLastLaw ==
  ASSUME NEW E, NEW d, Ring(d, E), d.size # 0
  PROVE  LET r == D!RemoveLast(d)
             c == D!Contents(d)
         IN  /\ r.stat = "OK" /\ r.out = c[d.size]
             /\ Ring(r.list, E) /\ r.list.spilt = d.spilt
             /\ D!Contents(r.list) = SubSeq(c, 1, d.size - 1)
<1> DEFINE r == D!RemoveLast(d)
           x == r.list
           k == d.cap
           f == d.first
           l == (d.last - 1) % k
           n == d.size
           c == D!Contents(d)
           s == SubSeq(c, 1, n - 1)
<1>1. /\ k \in Nat \ {0} /\ f \in 0..(k - 1) /\ n \in 1..k
      /\ d.buf \in [0..(k - 1) -> E] /\ d.spilt \in BOOLEAN
  BY RingFields
<1>2. \A i \in Nat : D!Slot(d, i) = On(k, f, i)
  BY RingLast
<1>3. d.buf[l] = D!At(d, n - 1) /\ l \in 0..(k - 1) /\ l = On(k, f, n - 1)
  BY Ends
<1>4. c \in Seq(E) /\ Len(c) = n /\ \A i \in 1..n : c[i] = D!At(d, i - 1)
  BY ContentsType
<1>5. r = D!DoneWith([d EXCEPT !.last = l, !.size = @ - 1], d.buf[l])
  BY DEF D!RemoveLast
<1>6. r.stat = "OK" /\ r.out = d.buf[l] /\ x = [d EXCEPT !.last = l, !.size = @ - 1]
  BY <1>5 DEF D!DoneWith
<1>7. ASSUME NEW y, y = [d EXCEPT !.last = l, !.size = @ - 1]
      PROVE  /\ y.buf = d.buf /\ y.first = f /\ y.last = l /\ y.size = n - 1 /\ y.cap = k
             /\ y.spilt = d.spilt
             /\ y = [buf |-> y.buf, first |-> y.first, last |-> y.last, size |-> y.size,
                     cap |-> y.cap, spilt |-> y.spilt]
  BY <1>7 DEF Ring, Rings
<1> HIDE DEF r
<1>8. /\ x.buf = d.buf /\ x.first = f /\ x.last = l /\ x.size = n - 1 /\ x.cap = k
      /\ x.spilt = d.spilt
      /\ x = [buf |-> x.buf, first |-> x.first, last |-> x.last, size |-> x.size,
              cap |-> x.cap, spilt |-> x.spilt]
  BY <1>6, <1>7
<1> HIDE DEF x, k, f, n, c, l
<1>9. Ring(x, E)
  <2>1. n - 1 \in 0..k
    BY <1>1
  <2> QED
    BY <1>1, <1>3, <1>8, <2>1, RingMade
<1>10. s \in Seq(E) /\ Len(s) = n - 1 /\ \A i \in 1..(n - 1) : s[i] = c[i]
  BY <1>1, <1>4
<1>11. ASSUME NEW i \in 1..x.size PROVE s[i] = D!At(x, i - 1)
  <2> DEFINE j == i - 1
  <2>1. i \in 1..(n - 1) /\ i \in 1..n /\ j \in Nat
    BY <1>1, <1>8
  <2>2. s[i] = D!At(d, j)
    BY <1>4, <1>10, <2>1
  <2> HIDE DEF j
  <2>3. D!Slot(x, j) = D!Slot(d, j)
    BY <1>2, <1>8, <1>9, <2>1, RingLast
  <2>4. D!At(x, j) = D!At(d, j)
    BY <1>8, <2>3, Zenon DEF D!At
  <2> QED
    BY <2>2, <2>4 DEF j
<1>12. D!Contents(x) = s
  <2> HIDE DEF s
  <2> QED
    BY <1>8, <1>9, <1>10, <1>11, ContentsAre
<1>13. r.out = c[n]
  <2>1. n \in 1..n
    BY <1>1
  <2> QED
    BY <1>3, <1>4, <1>6, <2>1
<1> QED
  BY <1>6, <1>8, <1>9, <1>12, <1>13 DEF r, x, c, n

\* In the first half of a deque, closing the gap moves what lies before it one slot on.
GapClosedUp(d, i, E) ==
    LET k == d.cap
        f == d.first
        b == D!ClosedUp(d, On(k, f, i), i)
    IN  /\ b \in [0..(k - 1) -> E]
        /\ \A m \in 1..(k - 1) : b[On(k, f, m)] = d.buf[On(k, f, IF m <= i THEN m - 1 ELSE m)]

LEMMA ClosedUpSlots ==
  ASSUME NEW E, NEW d, Ring(d, E), NEW i \in 1..(d.cap - 1)
  PROVE  GapClosedUp(d, i, E)
<1> DEFINE k == d.cap
           f == d.first
           buf == d.buf
           p == On(k, f, i)
           c == k - 1
           b == D!ClosedUp(d, p, i)
<1>0. /\ k \in Nat \ {0} /\ f \in 0..(k - 1) /\ buf \in [0..(k - 1) -> E] /\ i \in 1..(k - 1)
      /\ d.cap = k /\ d.first = f /\ d.buf = buf
  BY RingFields
<1>14. ASSUME /\ b \in [0..(k - 1) -> E]
              /\ \A m \in 1..(k - 1) :
                   b[On(k, f, m)] = buf[On(k, f, IF m <= i THEN m - 1 ELSE m)]
       PROVE  GapClosedUp(d, i, E)
  BY <1>14 DEF GapClosedUp
<1> HIDE DEF k, f, buf
<1> SUFFICES /\ b \in [0..(k - 1) -> E]
             /\ \A m \in 1..(k - 1) :
                  b[On(k, f, m)] = buf[On(k, f, IF m <= i THEN m - 1 ELSE m)]
  BY <1>14
<1> USE <1>0
<1>1. p \in 0..c /\ p = IF f + i < k THEN f + i ELSE f + i - k
  <2>1. i \in 0..k
    OBVIOUS
  <2> QED
    BY <2>1, OnIs
<1>2. ASSUME NEW m \in 1..c
      PROVE  /\ On(k, f, m) \in 0..c /\ On(k, f, m - 1) \in 0..c
             /\ On(k, f, m) = IF f + m < k THEN f + m ELSE f + m - k
             /\ On(k, f, m - 1) = IF f + (m - 1) < k THEN f + (m - 1) ELSE f + (m - 1) - k
  <2> DEFINE j == m - 1
  <2>1. m \in 0..k /\ j \in 0..k
    OBVIOUS
  <2> HIDE DEF j
  <2>2. /\ On(k, f, m) \in 0..c /\ On(k, f, j) \in 0..c
        /\ On(k, f, m) = IF f + m < k THEN f + m ELSE f + m - k
        /\ On(k, f, j) = IF f + j < k THEN f + j ELSE f + j - k
    BY <2>1, OnIs
  <2> QED
    BY <2>2 DEF j
<1> HIDE DEF p
<1>3. CASE p >= f
  <2>1. b = [q \in 0..c |-> IF q \in (f + 1)..(f + i) THEN buf[q - 1] ELSE buf[q]]
    <3>1. b = D!Moved(buf, f + 1, f, i) /\ DOMAIN buf = 0..c
      BY <1>1, <1>3 DEF D!ClosedUp
    <3>2. \A q \in 0..c : q - (f + 1) + f = q - 1 /\ f + 1 + i - 1 = f + i
      OBVIOUS
    <3> QED
      BY <3>1, <3>2 DEF D!Moved
  <2>2. f + i < k
    BY <1>1, <1>3
  <2> HIDE DEF b
  <2>3. \A q \in 0..c : b[q] = IF q \in (f + 1)..(f + i) THEN buf[q - 1] ELSE buf[q]
    BY <2>1
  <2>4. b \in [0..c -> E]
    <3>1. ASSUME NEW q \in 0..c PROVE b[q] \in E
      <4>1. q \in (f + 1)..(f + i) => q - 1 \in 0..c
        BY <1>1
      <4> QED
        BY <2>3, <4>1
    <3> QED
      BY <2>1, <3>1
  <2>5. ASSUME NEW m \in 1..c PROVE b[On(k, f, m)] = buf[On(k, f, IF m <= i THEN m - 1 ELSE m)]
    <3> DEFINE q == On(k, f, m)
               r == On(k, f, m - 1)
    <3>0. /\ q \in 0..c /\ r \in 0..c
          /\ q = IF f + m < k THEN f + m ELSE f + m - k
          /\ r = IF f + (m - 1) < k THEN f + (m - 1) ELSE f + (m - 1) - k
      BY <1>2
    <3> HIDE DEF q, r
    <3>1. CASE m <= i
      <4>1. q \in (f + 1)..(f + i) /\ r = q - 1
        BY <2>2, <3>0, <3>1
      <4>2. b[q] = buf[r]
        BY <2>3, <3>0, <4>1
      <4> QED
        BY <3>1, <4>2 DEF q, r
    <3>2. CASE ~(m <= i)
      <4>1. q \notin (f + 1)..(f + i)
        BY <2>2, <3>0, <3>2
      <4>2. b[q] = buf[q]
        BY <2>3, <3>0, <4>1
      <4> QED
        BY <3>2, <4>2 DEF q
    <3> QED
      BY <3>1, <3>2
  <2> QED
    BY <2>4, <2>5 DEF b, p
<1>4. CASE p < f
  <2> DEFINE b1 == D!Moved(buf, f + 1, f, c - f)
             b2 == D!Moved(b1, 1, 0, p)
  <2>1. b = [b2 EXCEPT ![0] = buf[c]]
    BY <1>4 DEF D!ClosedUp
  <2>2. b1 = [q \in 0..c |-> IF q \in (f + 1)..c THEN buf[q - 1] ELSE buf[q]]
    <3>1. DOMAIN buf = 0..c /\ f + 1 + (c - f) - 1 = c /\ \A q \in 0..c : q - (f + 1) + f = q - 1
      OBVIOUS
    <3> QED
      BY <3>1 DEF D!Moved
  <2> HIDE DEF b1
  <2>3. b2 = [q \in 0..c |-> IF q \in 1..p THEN b1[q - 1] ELSE b1[q]]
    <3>1. DOMAIN b1 = 0..c /\ 1 + p - 1 = p /\ \A q \in 0..c : q - 1 + 0 = q - 1
      BY <1>1, <2>2
    <3> QED
      BY <3>1 DEF D!Moved
  <2> HIDE DEF b2, b
  <2>4. \A q \in 0..c : b[q] = IF q = 0 THEN buf[c]
                               ELSE IF q \in 1..p \/ q \in (f + 1)..c THEN buf[q - 1] ELSE buf[q]
    <3>1. ASSUME NEW q \in 0..c PROVE b[q] = IF q = 0 THEN buf[c] ELSE b2[q]
      BY <2>1, <2>3
    <3>2. ASSUME NEW q \in 1..c PROVE b2[q] = IF q \in 1..p THEN buf[q - 1] ELSE b1[q]
      <4>1. q \in 0..c /\ q - 1 \in 0..c
        OBVIOUS
      <4>2. q \in 1..p => b1[q - 1] = buf[q - 1]
        BY <1>1, <1>4, <2>2, <4>1
      <4> QED
        BY <2>3, <4>1, <4>2
    <3>3. ASSUME NEW q \in 1..c PROVE b1[q] = IF q \in (f + 1)..c THEN buf[q - 1] ELSE buf[q]
      BY <2>2
    <3> QED
      BY <3>1, <3>2, <3>3
  <2>5. b \in [0..c -> E]
    <3>1. \A q \in 0..c : b[q] \in E
      BY <1>1, <2>4
    <3>2. b2 = [q \in 0..c |-> b2[q]]
      BY <2>3
    <3> QED
      BY <2>1, <3>1, <3>2
  <2>6. ASSUME NEW m \in 1..c PROVE b[On(k, f, m)] = buf[On(k, f, IF m <= i THEN m - 1 ELSE m)]
    <3> DEFINE q == On(k, f, m)
               r == On(k, f, m - 1)
    <3>0. /\ q \in 0..c /\ r \in 0..c
          /\ q = IF f + m < k THEN f + m ELSE f + m - k
          /\ r = IF f + (m - 1) < k THEN f + (m - 1) ELSE f + (m - 1) - k
      BY <1>2
    <3> HIDE DEF q, r
    <3>1. CASE m <= i
      <4>1. /\ q = 0 => r = c
            /\ q # 0 => (q \in 1..p \/ q \in (f + 1)..c) /\ r = q - 1
        BY <1>1, <1>4, <3>0, <3>1
      <4>2. b[q] = buf[r]
        BY <2>4, <3>0, <4>1
      <4> QED
        BY <3>1, <4>2 DEF q, r
    <3>2. CASE ~(m <= i)
      <4>1. q # 0 /\ ~(q \in 1..p \/ q \in (f + 1)..c)
        BY <1>1, <1>4, <3>0, <3>2
      <4>2. b[q] = buf[q]
        BY <2>4, <3>0, <4>1
      <4> QED
        BY <3>2, <4>2 DEF q
    <3> QED
      BY <3>1, <3>2
  <2> QED
    BY <2>5, <2>6 DEF b, p
<1> QED
  BY <1>1, <1>3, <1>4

\* In the second half it moves what lies behind it one slot back, but for what lies at
\* the start of the buffer.
GapClosedDown(d, i, E) ==
    LET k == d.cap
        f == d.first
        b == D!ClosedDown(d, On(k, f, i))
    IN  /\ b \in [0..(k - 1) -> E]
        /\ \A j \in 0..(d.size - 2) :
             b[On(k, f, j)] = d.buf[On(k, f, IF j < i THEN j ELSE j + 1)]

LEMMA ClosedDownSlots ==
  ASSUME NEW E, NEW d, Ring(d, E), NEW i \in 1..(d.size - 1),
         On(d.cap, d.first, i) > d.last => (d.last = 0 \/ (d.last = 1 /\ d.size < d.cap))
  PROVE  GapClosedDown(d, i, E)
<1> DEFINE k == d.cap
           f == d.first
           n == d.size
           buf == d.buf
           p == On(k, f, i)
           c == k - 1
           l == d.last
           b == D!ClosedDown(d, p)
<1>0. /\ k \in Nat \ {0} /\ f \in 0..(k - 1) /\ buf \in [0..(k - 1) -> E]
      /\ n \in 1..k /\ i \in 1..(n - 1) /\ d.cap = k /\ d.first = f /\ d.buf = buf
      /\ d.last = On(k, f, n)
      /\ On(k, f, i) > d.last => (d.last = 0 \/ (d.last = 1 /\ n < k))
  BY RingFields, RingLast
<1>14. ASSUME /\ b \in [0..(k - 1) -> E]
              /\ \A j \in 0..(n - 2) :
                   b[On(k, f, j)] = buf[On(k, f, IF j < i THEN j ELSE j + 1)]
       PROVE  GapClosedDown(d, i, E)
  BY <1>14 DEF GapClosedDown
<1> HIDE DEF k, f, n, buf
<1> SUFFICES /\ b \in [0..(k - 1) -> E]
             /\ \A j \in 0..(n - 2) :
                  b[On(k, f, j)] = buf[On(k, f, IF j < i THEN j ELSE j + 1)]
  BY <1>14
<1> USE <1>0
<1>1. ASSUME NEW m \in 0..k
      PROVE  /\ On(k, f, m) \in 0..c
             /\ On(k, f, m) = IF f + m < k THEN f + m ELSE f + m - k
  BY OnIs
<1>2. p \in 0..c /\ p = IF f + i < k THEN f + i ELSE f + i - k
  <2>1. i \in 0..k
    OBVIOUS
  <2> QED
    BY <1>1, <2>1
<1>3. l \in 0..c /\ l = IF f + n < k THEN f + n ELSE f + n - k
  <2>1. n \in 0..k
    OBVIOUS
  <2> QED
    BY <1>1, <2>1
<1>4. d.last % d.cap = l
  <2>1. l \in 0..(k - 1)
    BY <1>3
  <2> HIDE DEF l
  <2>2. l % k = l
    BY <2>1, OwnRemainder
  <2> QED
    BY <2>2 DEF l
<1>5. ASSUME NEW j \in 0..(n - 2)
      PROVE  /\ On(k, f, j) \in 0..c /\ On(k, f, j + 1) \in 0..c
             /\ On(k, f, j) = IF f + j < k THEN f + j ELSE f + j - k
             /\ On(k, f, j + 1) = IF f + (j + 1) < k THEN f + (j + 1) ELSE f + (j + 1) - k
  <2> DEFINE m == j + 1
  <2>1. j \in 0..k /\ m \in 0..k
    OBVIOUS
  <2> HIDE DEF m
  <2>2. /\ On(k, f, j) \in 0..c /\ On(k, f, m) \in 0..c
        /\ On(k, f, j) = IF f + j < k THEN f + j ELSE f + j - k
        /\ On(k, f, m) = IF f + m < k THEN f + m ELSE f + m - k
    BY <1>1, <2>1
  <2> QED
    BY <2>2 DEF m
<1>6. p > l => (l = 0 \/ (l = 1 /\ n < k))
  OBVIOUS
<1>7. b = IF p > l
          THEN [D!Moved(D!Moved(buf, p, p + 1, c - p), 1, 0, l) EXCEPT ![c] = buf[0]]
          ELSE D!Moved(buf, p, p + 1, l - p)
  BY <1>4 DEF D!ClosedDown
<1> HIDE DEF p, l, b
<1>8. CASE p > l
  <2> DEFINE b1 == D!Moved(buf, p, p + 1, c - p)
             b2 == D!Moved(b1, 1, 0, l)
  <2>1. b = [b2 EXCEPT ![c] = buf[0]]
    BY <1>7, <1>8
  <2>2. b1 = [q \in 0..c |-> IF q \in p..(c - 1) THEN buf[q + 1] ELSE buf[q]]
    <3>1. DOMAIN buf = 0..c /\ p + (c - p) - 1 = c - 1 /\ \A q \in 0..c : q - p + (p + 1) = q + 1
      BY <1>2
    <3> QED
      BY <3>1 DEF D!Moved
  <2> HIDE DEF b1
  <2>3. b2 = [q \in 0..c |-> IF q \in 1..l THEN b1[q - 1] ELSE b1[q]]
    <3>1. DOMAIN b1 = 0..c /\ 1 + l - 1 = l /\ \A q \in 0..c : q - 1 + 0 = q - 1
      BY <1>3, <2>2
    <3> QED
      BY <3>1 DEF D!Moved
  <2> HIDE DEF b2
  <2>4. p = f + i /\ f + i < k /\ (l = 1 => f >= 2)
    BY <1>2, <1>3, <1>6, <1>8
  <2>5. \A q \in 0..c : /\ q # 1 \/ l = 0 =>
                             b[q] = IF q = c THEN buf[0] ELSE IF q \in p..(c - 1) THEN buf[q + 1] ELSE buf[q]
                        /\ b[q] \in E
    <3>1. ASSUME NEW q \in 0..c
          PROVE  /\ b1[q] = (IF q \in p..(c - 1) THEN buf[q + 1] ELSE buf[q])
                 /\ b1[q] \in E
      <4>1. b1[q] = IF q \in p..(c - 1) THEN buf[q + 1] ELSE buf[q]
        BY <2>2
      <4> QED
        BY <1>2, <4>1
    <3>2. ASSUME NEW q \in 0..c
          PROVE  b[q] = IF q = c THEN buf[0] ELSE IF q \in 1..l THEN b1[q - 1] ELSE b1[q]
      BY <2>1, <2>3
    <3>3. ASSUME NEW q \in 0..c PROVE b[q] \in E
      <4>1. 0 \in 0..c /\ (q \in 1..l => q - 1 \in 0..c)
        BY <1>3
      <4> QED
        BY <3>1, <3>2, <4>1
    <3>4. ASSUME NEW q \in 0..c, q # 1 \/ l = 0 PROVE q \notin 1..l
      BY <1>3, <1>6, <1>8, <3>4
    <3> QED
      BY <3>1, <3>2, <3>3, <3>4
  <2>6. b \in [0..c -> E]
    <3>1. b2 = [q \in 0..c |-> b2[q]]
      BY <2>3
    <3> QED
      BY <2>1, <2>5, <3>1
  <2>7. ASSUME NEW j \in 0..(n - 2) PROVE b[On(k, f, j)] = buf[On(k, f, IF j < i THEN j ELSE j + 1)]
    <3> DEFINE q == On(k, f, j)
    <3>1. q = f + j /\ q \in 0..c /\ (q # 1 \/ l = 0)
      BY <1>3, <1>5, <1>6, <1>8, <2>4
    <3>2. CASE j < i
      <4>1. q # c /\ q \notin p..(c - 1)
        BY <2>4, <3>1, <3>2
      <4> QED
        BY <2>5, <3>1, <3>2, <4>1
    <3>3. CASE ~(j < i)
      <4>1. IF q = c THEN On(k, f, j + 1) = 0 ELSE q \in p..(c - 1) /\ On(k, f, j + 1) = q + 1
        BY <1>5, <2>4, <3>1, <3>3
      <4>2. b[q] = buf[On(k, f, j + 1)]
        BY <2>5, <3>1, <4>1
      <4> QED
        BY <3>3, <4>2
    <3> QED
      BY <3>2, <3>3
  <2> QED
    BY <2>6, <2>7 DEF b, p
<1>9. CASE ~(p > l)
  <2>1. l = p + (n - i) /\ p < l
    BY <1>2, <1>3, <1>9
  <2>2. b = [q \in 0..c |-> IF q \in p..(l - 1) THEN buf[q + 1] ELSE buf[q]]
    <3>1. DOMAIN buf = 0..c /\ p + (l - p) - 1 = l - 1 /\ \A q \in 0..c : q - p + (p + 1) = q + 1
      BY <1>2, <1>3
    <3> QED
      BY <1>7, <1>9, <3>1 DEF D!Moved
  <2>3. \A q \in 0..c : b[q] = IF q \in p..(l - 1) THEN buf[q + 1] ELSE buf[q]
    BY <2>2
  <2>4. b \in [0..c -> E]
    <3>1. \A q \in 0..c : b[q] \in E
      BY <1>2, <1>3, <2>3
    <3> QED
      BY <2>2, <3>1
  <2>5. ASSUME NEW j \in 0..(n - 2) PROVE b[On(k, f, j)] = buf[On(k, f, IF j < i THEN j ELSE j + 1)]
    <3> DEFINE q == On(k, f, j)
               r == On(k, f, j + 1)
    <3>1. /\ q \in 0..c /\ r \in 0..c
          /\ q = IF f + j < k THEN f + j ELSE f + j - k
          /\ r = IF f + (j + 1) < k THEN f + (j + 1) ELSE f + (j + 1) - k
      BY <1>5
    <3> HIDE DEF q, r
    <3>2. CASE j < i
      <4>1. q \notin p..(l - 1)
        BY <1>2, <1>3, <2>1, <3>1, <3>2
      <4>2. b[q] = buf[q]
        BY <2>3, <3>1, <4>1
      <4> QED
        BY <3>2, <4>2 DEF q
    <3>3. CASE ~(j < i)
      <4>1. q \in p..(l - 1) /\ r = q + 1
        BY <1>2, <1>3, <2>1, <3>1, <3>3
      <4>2. b[q] = buf[r]
        BY <2>3, <3>1, <4>1
      <4> QED
        BY <3>3, <4>2 DEF q, r
    <3> QED
      BY <3>2, <3>3
  <2> QED
    BY <2>4, <2>5 DEF b, p
<1> QED
  BY <1>2, <1>3, <1>8, <1>9

\* Removals the code gets wrong: they have to move two elements or more from the start of
\* the buffer, or one of a full buffer.
Misplaced(d, i) ==
    /\ i # 0 /\ i # d.cap - 1 /\ ~D!InFirstHalf(d, i)
    /\ D!Slot(d, i) > d.last /\ d.last >= (IF d.size = d.cap THEN 1 ELSE 2)

\* cc_deque_remove_at, and so a removal through an iterator, takes out the element at the
\* place and leaves the others in their order, in either half of the deque and wherever in
\* the buffer it lies, but for the removals above.
THEOREM RemoveAtLaw ==
  ASSUME NEW E, NEW d, Ring(d, E), NEW i \in 0..(d.size - 1), ~Misplaced(d, i)
  PROVE  LET r == D!RemoveAt(d, i)
             c == D!Contents(d)
         IN  /\ r.stat = "OK" /\ r.out = c[i + 1]
             /\ Ring(r.list, E) /\ r.list.spilt = d.spilt
             /\ D!Contents(r.list) = [m \in 1..(d.size - 1) |-> IF m <= i THEN c[m] ELSE c[m + 1]]
<1> DEFINE r == D!RemoveAt(d, i)
           x == r.list
           k == d.cap
           f == d.first
           n == d.size
           c == D!Contents(d)
           p == D!Slot(d, i)
           s == [m \in 1..(n - 1) |-> IF m <= i THEN c[m] ELSE c[m + 1]]
<1>1. /\ k \in Nat \ {0} /\ f \in 0..(k - 1) /\ n \in 1..k /\ d.last \in 0..(k - 1)
      /\ d.buf \in [0..(k - 1) -> E] /\ d.spilt \in BOOLEAN /\ i < n
  BY RingFields
<1>2. d.last = On(k, f, n) /\ \A j \in Nat : D!Slot(d, j) = On(k, f, j)
  BY RingLast
<1>3. c \in Seq(E) /\ Len(c) = n /\ \A m \in 1..n : c[m] = D!At(d, m - 1)
  BY ContentsType
<1>4. s \in Seq(E) /\ Len(s) = n - 1
  <2> HIDE DEF c, n
  <2>1. \A m \in 1..(n - 1) : (IF m <= i THEN c[m] ELSE c[m + 1]) \in E
    BY <1>1, <1>3
  <2>2. s \in [1..(n - 1) -> E] /\ n - 1 \in Nat
    BY <1>1, <2>1
  <2> QED
    BY <2>2
<1>5. p = On(k, f, i) /\ d.buf[p] = c[i + 1]
  <2>1. i \in Nat /\ i + 1 \in 1..n /\ (i + 1) - 1 = i
    BY <1>1
  <2>2. c[i + 1] = D!At(d, i)
    BY <1>3, <2>1
  <2> QED
    BY <1>2, <2>1, <2>2, Zenon DEF D!At
<1>6. CASE i = 0
  <2>1. r = D!RemoveFirst(d)
    BY <1>1, <1>6 DEF D!RemoveAt
  <2>2. /\ r.stat = "OK" /\ r.out = Head(c) /\ Ring(x, E) /\ x.spilt = d.spilt
        /\ D!Contents(x) = Tail(c)
    BY <1>1, <2>1, RemoveFirstLaw
  <2> HIDE DEF r, x, c, n
  <2>3. Head(c) = c[i + 1] /\ Tail(c) = s
    <3> DEFINE t == Tail(c)
    <3>1. /\ Head(c) = c[i + 1] /\ t \in Seq(E) /\ Len(t) = n - 1
          /\ \A m \in 1..(n - 1) : t[m] = c[m + 1]
      BY <1>1, <1>3, <1>6
    <3> HIDE DEF t
    <3>2. t = [m \in 1..(n - 1) |-> t[m]]
      BY <3>1
    <3>3. \A m \in 1..(n - 1) : t[m] = (IF m <= i THEN c[m] ELSE c[m + 1])
      BY <1>6, <3>1
    <3>4. t = s
      BY <3>2, <3>3
    <3> QED
      BY <3>1, <3>4 DEF t
  <2> QED
    BY <2>2, <2>3 DEF r, x, c, n
<1>7. CASE i = k - 1 /\ i # 0
  <2>1. r = D!RemoveLast(d) /\ n = i + 1
    BY <1>1, <1>7 DEF D!RemoveAt
  <2>2. /\ r.stat = "OK" /\ r.out = c[n] /\ Ring(x, E) /\ x.spilt = d.spilt
        /\ D!Contents(x) = SubSeq(c, 1, n - 1)
    BY <1>1, <2>1, RemoveLastLaw
  <2> HIDE DEF r, x, c, n
  <2>3. SubSeq(c, 1, n - 1) = s
    BY <1>1, <1>3, <1>4, <2>1
  <2> QED
    BY <2>1, <2>2, <2>3 DEF r, x, c, n
<1>8. CASE i # 0 /\ i # k - 1 /\ D!InFirstHalf(d, i)
  <2> DEFINE b == D!ClosedUp(d, p, i)
             g == (f + 1) % k
  <2>1. r = D!DoneWith([d EXCEPT !.buf = b, !.first = g, !.size = n - 1], d.buf[p])
    BY <1>1, <1>8 DEF D!RemoveAt
  <2>2. r.stat = "OK" /\ r.out = d.buf[p] /\ x = [d EXCEPT !.buf = b, !.first = g, !.size = n - 1]
    BY <2>1 DEF D!DoneWith
  <2>3. ASSUME NEW y, y = [d EXCEPT !.buf = b, !.first = g, !.size = n - 1]
        PROVE  /\ y.buf = b /\ y.first = g /\ y.last = d.last /\ y.size = n - 1 /\ y.cap = k
               /\ y.spilt = d.spilt
               /\ y = [buf |-> y.buf, first |-> y.first, last |-> y.last, size |-> y.size,
                       cap |-> y.cap, spilt |-> y.spilt]
    BY <2>3 DEF Ring, Rings
  <2> HIDE DEF r
  <2>4. /\ x.buf = b /\ x.first = g /\ x.last = d.last /\ x.size = n - 1 /\ x.cap = k
        /\ x.spilt = d.spilt
        /\ x = [buf |-> x.buf, first |-> x.first, last |-> x.last, size |-> x.size,
                cap |-> x.cap, spilt |-> x.spilt]
    BY <2>2, <2>3
  <2>5. /\ b \in [0..(k - 1) -> E]
        /\ \A m \in 1..(k - 1) : b[On(k, f, m)] = d.buf[On(k, f, IF m <= i THEN m - 1 ELSE m)]
    <3>1. i \in 1..(k - 1)
      BY <1>1, <1>8
    <3>2. GapClosedUp(d, i, E)
      BY <3>1, ClosedUpSlots
    <3> HIDE DEF p
    <3> QED
      BY <1>5, <3>2 DEF GapClosedUp
  <2> HIDE DEF x, k, f, n, c, p, b
  <2>6. g \in 0..(k - 1) /\ \A j \in 0..(k - 1) : On(k, g, j) = On(k, f, j + 1)
    <3>1. g \in 0..(k - 1)
      BY <1>1, OnAll
    <3>2. ASSUME NEW j \in 0..(k - 1) PROVE On(k, (f + 1) % k, j) = On(k, f, j + 1)
      BY <1>1, <3>2, NextOn
    <3> QED
      BY <3>1, <3>2
  <2> HIDE DEF g
  <2>7. Ring(x, E)
    <3> DEFINE m == n - 1
    <3>1. m \in 0..k /\ m \in 0..(k - 1) /\ m + 1 = n
      BY <1>1
    <3>2. d.last = On(k, g, m)
      BY <1>2, <2>6, <3>1
    <3> QED
      BY <1>1, <2>4, <2>5, <2>6, <3>1, <3>2, RingMade
  <2>8. ASSUME NEW m \in 1..x.size PROVE s[m] = D!At(x, m - 1)
    <3> DEFINE j == m - 1
               o == IF m <= i THEN m - 1 ELSE m
    <3>1. m \in 1..(n - 1) /\ j \in Nat /\ j \in 0..(k - 1) /\ m = j + 1 /\ m \in 1..(k - 1)
          /\ o \in Nat /\ o + 1 \in 1..n
      BY <1>1, <2>4
    <3>2. s[m] = c[o + 1] /\ c[o + 1] = D!At(d, o)
      <4>1. s[m] = IF m <= i THEN c[m] ELSE c[m + 1]
        BY <3>1
      <4>2. (o + 1) - 1 = o
        BY <3>1
      <4>3. s[m] = c[o + 1]
        BY <3>1, <4>1
      <4> QED
        BY <1>3, <3>1, <4>2, <4>3
    <3> HIDE DEF j, s
    <3>3. D!Slot(x, j) = On(k, f, m)
      BY <2>4, <2>6, <2>7, <3>1, RingLast
    <3>4. D!At(x, j) = b[On(k, f, m)]
      BY <2>4, <3>3, Zenon DEF D!At
    <3>5. b[On(k, f, m)] = d.buf[On(k, f, o)]
      BY <2>5, <3>1
    <3> HIDE DEF o
    <3>6. D!At(d, o) = d.buf[On(k, f, o)]
      BY <1>2, <3>1, Zenon DEF D!At
    <3> QED
      BY <3>2, <3>4, <3>5, <3>6 DEF j
  <2>9. D!Contents(x) = s
    <3> HIDE DEF s
    <3> QED
      BY <1>4, <2>4, <2>7, <2>8, ContentsAre
  <2> QED
    BY <1>5, <2>2, <2>4, <2>7, <2>9 DEF r, x, c, n
<1>9. CASE i # 0 /\ i # k - 1 /\ ~D!InFirstHalf(d, i)
  <2> DEFINE b == D!ClosedDown(d, p)
             l == (d.last - 1) % k
  <2>1. r = D!DoneWith([d EXCEPT !.buf = b, !.last = l, !.size = n - 1], d.buf[p])
    BY <1>1, <1>9 DEF D!RemoveAt
  <2>2. r.stat = "OK" /\ r.out = d.buf[p] /\ x = [d EXCEPT !.buf = b, !.last = l, !.size = n - 1]
    BY <2>1 DEF D!DoneWith
  <2>3. ASSUME NEW y, y = [d EXCEPT !.buf = b, !.last = l, !.size = n - 1]
        PROVE  /\ y.buf = b /\ y.first = f /\ y.last = l /\ y.size = n - 1 /\ y.cap = k
               /\ y.spilt = d.spilt
               /\ y = [buf |-> y.buf, first |-> y.first, last |-> y.last, size |-> y.size,
                       cap |-> y.cap, spilt |-> y.spilt]
    BY <2>3 DEF Ring, Rings
  <2> HIDE DEF r
  <2>4. /\ x.buf = b /\ x.first = f /\ x.last = l /\ x.size = n - 1 /\ x.cap = k
        /\ x.spilt = d.spilt
        /\ x = [buf |-> x.buf, first |-> x.first, last |-> x.last, size |-> x.size,
                cap |-> x.cap, spilt |-> x.spilt]
    BY <2>2, <2>3
  <2>5. /\ b \in [0..(k - 1) -> E]
        /\ \A j \in 0..(n - 2) : b[On(k, f, j)] = d.buf[On(k, f, IF j < i THEN j ELSE j + 1)]
    <3>1. i \in 1..(n - 1)
      BY <1>1, <1>9
    <3>2. On(k, f, i) > d.last => (d.last = 0 \/ (d.last = 1 /\ n < k))
      BY <1>1, <1>5, <1>9 DEF Misplaced
    <3>3. GapClosedDown(d, i, E)
      BY <3>1, <3>2, ClosedDownSlots
    <3> HIDE DEF p
    <3> QED
      BY <1>5, <3>3 DEF GapClosedDown
  <2>6. l \in 0..(k - 1) /\ l = On(k, f, n - 1)
    BY <1>1, Ends
  <2> HIDE DEF x, k, f, n, c, p, b, l
  <2>7. Ring(x, E)
    <3>1. n - 1 \in 0..k
      BY <1>1
    <3> QED
      BY <1>1, <2>4, <2>5, <2>6, <3>1, RingMade
  <2>8. ASSUME NEW m \in 1..x.size PROVE s[m] = D!At(x, m - 1)
    <3> DEFINE j == m - 1
               o == IF j < i THEN j ELSE j + 1
    <3>1. m \in 1..(n - 1) /\ j \in Nat /\ j \in 0..(n - 2) /\ m = j + 1
          /\ o \in Nat /\ o + 1 \in 1..n
      BY <1>1, <2>4
    <3>2. s[m] = c[o + 1] /\ c[o + 1] = D!At(d, o)
      <4>1. s[m] = IF m <= i THEN c[m] ELSE c[m + 1]
        BY <3>1
      <4>2. (o + 1) - 1 = o
        BY <3>1
      <4>3. s[m] = c[o + 1]
        BY <3>1, <4>1
      <4> QED
        BY <1>3, <3>1, <4>2, <4>3
    <3>3. b[On(k, f, j)] = d.buf[On(k, f, o)]
      BY <2>5, <3>1
    <3> HIDE DEF j, o, s
    <3>4. D!Slot(x, j) = On(k, f, j)
      BY <2>4, <2>7, <3>1, RingLast
    <3>5. D!At(x, j) = b[On(k, f, j)]
      BY <2>4, <3>4, Zenon DEF D!At
    <3>6. D!At(d, o) = d.buf[On(k, f, o)]
      BY <1>2, <3>1, Zenon DEF D!At
    <3> QED
      BY <3>2, <3>3, <3>5, <3>6 DEF j
  <2>9. D!Contents(x) = s
    <3> HIDE DEF s
    <3> QED
      BY <1>4, <2>4, <2>7, <2>8, ContentsAre
  <2> QED
    BY <1>5, <2>2, <2>4, <2>7, <2>9 DEF r, x, c, n
<1> QED
  BY <1>6, <1>7, <1>8, <1>9
-----------------------------------------------------------------------------
\* In the second half of a deque with a free slot, opening a gap moves what lies from it on
\* one slot on, and the new element is put in it.
GapOpenedUp(d, i, e, E) ==
    LET k == d.cap
        f == d.first
        p == On(k, f, i)
        b == [D!ShiftedUp(d, p, i) EXCEPT ![p] = e]
    IN  /\ b \in [0..(k - 1) -> E]
        /\ \A j \in 0..d.size :
             b[On(k, f, j)] = IF j = i THEN e ELSE d.buf[On(k, f, IF j < i THEN j ELSE j - 1)]

LEMMA OpenedUpSlots ==
  ASSUME NEW E, NEW d, Ring(d, E), NEW e \in E, NEW i \in 0..(d.size - 1), d.size < d.cap,
         (On(d.cap, d.first, i) > d.last \/ d.last = d.cap - 1) => d.size # d.cap - 1
  PROVE  GapOpenedUp(d, i, e, E)
<1> DEFINE k == d.cap
           f == d.first
           n == d.size
           buf == d.buf
           p == On(k, f, i)
           c == k - 1
           l == d.last
           u == D!ShiftedUp(d, p, i)
           b == [u EXCEPT ![p] = e]
<1>0. /\ k \in Nat \ {0} /\ f \in 0..(k - 1) /\ buf \in [0..(k - 1) -> E]
      /\ n \in 1..(k - 1) /\ i \in 0..(n - 1) /\ d.cap = k /\ d.first = f /\ d.buf = buf /\ d.size = n
      /\ d.last = On(k, f, n)
      /\ (On(k, f, i) > d.last \/ d.last = k - 1) => n # k - 1
  BY RingFields, RingLast
<1>1. ASSUME /\ b \in [0..(k - 1) -> E]
             /\ \A j \in 0..n :
                  b[On(k, f, j)] = IF j = i THEN e ELSE buf[On(k, f, IF j < i THEN j ELSE j - 1)]
      PROVE  GapOpenedUp(d, i, e, E)
  BY <1>1 DEF GapOpenedUp
<1> HIDE DEF k, f, n, buf
<1> SUFFICES /\ b \in [0..(k - 1) -> E]
             /\ \A j \in 0..n :
                  b[On(k, f, j)] = IF j = i THEN e ELSE buf[On(k, f, IF j < i THEN j ELSE j - 1)]
  BY <1>1
<1> USE <1>0
<1>2. ASSUME NEW m \in 0..k
      PROVE  /\ On(k, f, m) \in 0..c
             /\ On(k, f, m) = IF f + m < k THEN f + m ELSE f + m - k
  BY OnIs
<1>3. p \in 0..c /\ p = IF f + i < k THEN f + i ELSE f + i - k
  <2>1. i \in 0..k
    OBVIOUS
  <2> QED
    BY <1>2, <2>1
<1>4. l \in 0..c /\ l = IF f + n < k THEN f + n ELSE f + n - k
  <2>1. n \in 0..k
    OBVIOUS
  <2> QED
    BY <1>2, <2>1
<1>5. d.last % d.cap = l
  <2>1. l \in 0..(k - 1)
    BY <1>4
  <2> HIDE DEF l
  <2>2. l % k = l
    BY <2>1, OwnRemainder
  <2> QED
    BY <2>2 DEF l
<1>6. ASSUME NEW j \in 0..n
      PROVE  /\ On(k, f, j) \in 0..c
             /\ On(k, f, j) = IF f + j < k THEN f + j ELSE f + j - k
  <2>1. j \in 0..k
    OBVIOUS
  <2> QED
    BY <1>2, <2>1
<1>7. (p > l \/ l = c) => n # k - 1
  OBVIOUS
<1>8. u = IF p > l \/ l = c
          THEN [(IF l # c THEN D!Moved(D!Moved(buf, p + 1, p, c - p), 1, 0, l + 1)
                          ELSE D!Moved(buf, p + 1, p, c - p)) EXCEPT ![0] = buf[c]]
          ELSE D!Moved(buf, p + 1, p, n - i)
  BY <1>5 DEF D!ShiftedUp
<1> HIDE DEF p, l, u
\* What the shift leaves in the slot the new element is not put in.
<1>9. SUFFICES /\ u \in [0..c -> E]
               /\ \A j \in 0..n : j # i =>
                    u[On(k, f, j)] = buf[On(k, f, IF j < i THEN j ELSE j - 1)]
  <2>1. ASSUME u \in [0..c -> E]
        PROVE  b \in [0..(k - 1) -> E] /\ \A q \in 0..c : b[q] = IF q = p THEN e ELSE u[q]
    BY <1>3, <2>1
  <2> HIDE DEF b
  <2>2. ASSUME NEW j \in 0..n, On(k, f, j) = p PROVE j = i
    BY <1>3, <1>6, <2>2
  <2>3. On(k, f, i) = p
    BY DEF p
  <2> QED
    BY <1>6, <2>1, <2>2, <2>3
<1>10. CASE p > l \/ l = c
  <2> DEFINE b1 == D!Moved(buf, p + 1, p, c - p)
             b2 == IF l # c THEN D!Moved(b1, 1, 0, l + 1) ELSE b1
  <2>1. u = [b2 EXCEPT ![0] = buf[c]]
    BY <1>8, <1>10
  <2>2. b1 = [q \in 0..c |-> IF q \in (p + 1)..c THEN buf[q - 1] ELSE buf[q]]
    <3>1. DOMAIN buf = 0..c /\ p + 1 + (c - p) - 1 = c /\ \A q \in 0..c : q - (p + 1) + p = q - 1
      BY <1>3
    <3> QED
      BY <3>1 DEF D!Moved
  <2> HIDE DEF b1
  <2>3. b2 = [q \in 0..c |-> IF l # c /\ q \in 1..(l + 1) THEN b1[q - 1] ELSE b1[q]]
    <3>1. CASE l # c
      <4>1. DOMAIN b1 = 0..c /\ 1 + (l + 1) - 1 = l + 1 /\ \A q \in 0..c : q - 1 + 0 = q - 1
        BY <1>4, <2>2
      <4> QED
        BY <3>1, <4>1 DEF D!Moved
    <3>2. CASE l = c
      BY <2>2, <3>2
    <3> QED
      BY <3>1, <3>2
  <2> HIDE DEF b2
  <2>4. ASSUME NEW q \in 0..c
        PROVE  b1[q] = (IF q \in (p + 1)..c THEN buf[q - 1] ELSE buf[q]) /\ b1[q] \in E
    <3>1. q \in (p + 1)..c => q - 1 \in 0..c
      BY <1>3
    <3>2. b1[q] = IF q \in (p + 1)..c THEN buf[q - 1] ELSE buf[q]
      BY <2>2
    <3> QED
      BY <3>1, <3>2
  <2>5. ASSUME NEW q \in 0..c
        PROVE  u[q] = IF q = 0 THEN buf[c] ELSE IF l # c /\ q \in 1..(l + 1) THEN b1[q - 1] ELSE b1[q]
    BY <2>1, <2>3
  <2>6. u \in [0..c -> E]
    <3>1. ASSUME NEW q \in 0..c PROVE u[q] \in E
      <4>1. (q \in 1..(l + 1) => q - 1 \in 0..c) /\ c \in 0..c
        BY <1>4
      <4> QED
        BY <2>4, <2>5, <4>1
    <3>2. u = [q \in 0..c |-> u[q]]
      BY <2>1, <2>3
    <3> QED
      BY <3>1, <3>2
  <2>7. ASSUME NEW j \in 0..n, j # i PROVE u[On(k, f, j)] = buf[On(k, f, IF j < i THEN j ELSE j - 1)]
    <3> DEFINE q == On(k, f, j)
               r == On(k, f, j - 1)
    <3>1. q \in 0..c /\ q = IF f + j < k THEN f + j ELSE f + j - k
      BY <1>6
    <3>2. j > 0 => r \in 0..c /\ r = IF f + (j - 1) < k THEN f + (j - 1) ELSE f + (j - 1) - k
      <4> DEFINE m == j - 1
      <4>1. j > 0 => m \in 0..n
        OBVIOUS
      <4> HIDE DEF m
      <4>2. j > 0 => On(k, f, m) \in 0..c /\ On(k, f, m) = IF f + m < k THEN f + m ELSE f + m - k
        BY <1>6, <4>1
      <4> QED
        BY <4>2 DEF m
    <3> HIDE DEF q, r
    <3>3. CASE j < i
      <4>1. p = f + i /\ q = f + j
        BY <1>3, <1>4, <1>10, <3>1, <3>3
      <4>2. q > 0 /\ q < p /\ (l # c => q > l + 1)
        BY <1>3, <1>4, <1>7, <1>10, <3>1, <3>3, <4>1
      <4>3. q # 0 /\ q \notin (p + 1)..c /\ ~(l # c /\ q \in 1..(l + 1))
        BY <1>3, <1>4, <3>1, <4>2
      <4> QED
        BY <2>4, <2>5, <3>1, <3>3, <4>3 DEF q
    <3>4. CASE j > i
      <4>1. /\ q = 0 => r = c
            /\ q # 0 /\ l # c /\ q \in 1..(l + 1) => q - 1 \in 0..c /\ q - 1 \notin (p + 1)..c /\ r = q - 1
            /\ q # 0 /\ ~(l # c /\ q \in 1..(l + 1)) => q \in (p + 1)..c /\ r = q - 1
        BY <1>3, <1>4, <1>7, <1>10, <3>1, <3>2, <3>4
      <4>2. u[q] = buf[r]
        BY <2>4, <2>5, <3>1, <4>1
      <4> QED
        BY <3>4, <4>2 DEF q, r
    <3> QED
      BY <2>7, <3>3, <3>4
  <2> QED
    BY <2>6, <2>7
<1>11. CASE ~(p > l \/ l = c)
  <2>1. l = p + (n - i) /\ p < l /\ l < c
    BY <1>3, <1>4, <1>11
  <2>2. u = [q \in 0..c |-> IF q \in (p + 1)..l THEN buf[q - 1] ELSE buf[q]]
    <3>1. DOMAIN buf = 0..c /\ p + 1 + (n - i) - 1 = l /\ \A q \in 0..c : q - (p + 1) + p = q - 1
      BY <1>3, <1>4, <2>1
    <3> QED
      BY <1>8, <1>11, <3>1 DEF D!Moved
  <2>3. \A q \in 0..c : u[q] = IF q \in (p + 1)..l THEN buf[q - 1] ELSE buf[q]
    BY <2>2
  <2>4. u \in [0..c -> E]
    <3>1. ASSUME NEW q \in 0..c PROVE u[q] \in E
      <4>1. q \in (p + 1)..l => q - 1 \in 0..c
        BY <1>3
      <4> QED
        BY <2>3, <4>1
    <3> QED
      BY <2>2, <3>1
  <2>5. ASSUME NEW j \in 0..n, j # i PROVE u[On(k, f, j)] = buf[On(k, f, IF j < i THEN j ELSE j - 1)]
    <3> DEFINE q == On(k, f, j)
               r == On(k, f, j - 1)
    <3>1. q \in 0..c /\ q = IF f + j < k THEN f + j ELSE f + j - k
      BY <1>6
    <3>2. j > 0 => r \in 0..c /\ r = IF f + (j - 1) < k THEN f + (j - 1) ELSE f + (j - 1) - k
      <4> DEFINE m == j - 1
      <4>1. j > 0 => m \in 0..n
        OBVIOUS
      <4> HIDE DEF m
      <4>2. j > 0 => On(k, f, m) \in 0..c /\ On(k, f, m) = IF f + m < k THEN f + m ELSE f + m - k
        BY <1>6, <4>1
      <4> QED
        BY <4>2 DEF m
    <3> HIDE DEF q, r
    <3>3. CASE j < i
      <4>1. q < p \/ q > l
        <5>1. CASE f + j < k
          BY <1>3, <1>4, <2>1, <3>1, <3>3, <5>1
        <5>2. CASE ~(f + j < k)
          BY <1>3, <3>1, <3>3, <5>2
        <5> QED
          BY <5>1, <5>2
      <4>2. q \notin (p + 1)..l
        BY <1>3, <1>4, <3>1, <4>1
      <4> QED
        BY <2>3, <3>1, <3>3, <4>2 DEF q
    <3>4. CASE j > i
      <4>1. q \in (p + 1)..l /\ r = q - 1
        BY <1>3, <1>4, <2>1, <3>1, <3>2, <3>4
      <4>2. u[q] = buf[r]
        BY <2>3, <3>1, <4>1
      <4> QED
        BY <3>4, <4>2 DEF q, r
    <3> QED
      BY <2>5, <3>3, <3>4
  <2> QED
    BY <2>4, <2>5
<1> QED
  BY <1>10, <1>11
\* Insertions the code gets wrong: in the first half, but for the front, and those in the
\* second half that take the last free slot with the end of the buffer on their way.
Overlaid(d, i) ==
    IF D!InFirstHalf(d, i) THEN i > 0
    ELSE d.size = d.cap - 1 /\ (D!Slot(d, i) > d.last \/ d.last = d.cap - 1)

\* The gap opened in a deque with a free slot.
PutAt(h, e, i) ==
    [h EXCEPT !.buf = [D!ShiftedUp(h, D!Slot(h, i), i) EXCEPT ![D!Slot(h, i)] = e],
              !.last = (h.last + 1) % h.cap, !.size = h.size + 1]

LEMMA Inserted ==
  ASSUME NEW E, NEW d, Ring(d, E), d.size < d.cap, NEW e \in E, NEW i \in 0..(d.size - 1),
         ~D!InFirstHalf(d, i), ~Overlaid(d, i)
  PROVE  LET x == PutAt(d, e, i)
             c == D!Contents(d)
         IN  /\ Ring(x, E) /\ x.spilt = d.spilt
             /\ D!Contents(x) =
                  [m \in 1..(d.size + 1) |-> IF m <= i THEN c[m] ELSE IF m = i + 1 THEN e ELSE c[m - 1]]
<1> DEFINE k == d.cap
           f == d.first
           n == d.size
           n1 == n + 1
           c == D!Contents(d)
           p == D!Slot(d, i)
           l == (d.last + 1) % k
           b == [D!ShiftedUp(d, p, i) EXCEPT ![p] = e]
           x == PutAt(d, e, i)
           s == [m \in 1..n1 |-> IF m <= i THEN c[m] ELSE IF m = i + 1 THEN e ELSE c[m - 1]]
<1>1. /\ k \in Nat \ {0} /\ f \in 0..(k - 1) /\ n \in 1..(k - 1) /\ d.last \in 0..(k - 1)
      /\ d.buf \in [0..(k - 1) -> E] /\ d.spilt \in BOOLEAN /\ i \in 0..(n - 1)
  BY RingFields
<1>2. d.last = On(k, f, n) /\ \A j \in Nat : D!Slot(d, j) = On(k, f, j)
  BY RingLast
<1>3. c \in Seq(E) /\ Len(c) = n /\ \A m \in 1..n : c[m] = D!At(d, m - 1)
  BY ContentsType
<1>4. s \in Seq(E) /\ Len(s) = n1
  <2> HIDE DEF c, n
  <2>1. ASSUME NEW m \in 1..n1
        PROVE  (IF m <= i THEN c[m] ELSE IF m = i + 1 THEN e ELSE c[m - 1]) \in E
    <3>1. m <= i => m \in 1..n
      BY <1>1
    <3>2. ~(m <= i) /\ m # i + 1 => m - 1 \in 1..n
      BY <1>1
    <3> QED
      BY <1>3, <3>1, <3>2
  <2>2. n1 \in Nat
    BY <1>1
  <2>3. s = [m \in 1..n1 |-> s[m]] /\ \A m \in 1..n1 : s[m] \in E
    BY <2>1
  <2> HIDE DEF s, n1
  <2>4. s \in [1..n1 -> E]
    BY <2>3
  <2> QED
    BY <2>2, <2>4
<1>5. p = On(k, f, i)
  BY <1>1, <1>2
<1>6. ASSUME NEW y, y = [d EXCEPT !.buf = b, !.last = l, !.size = n1]
      PROVE  /\ y.buf = b /\ y.first = f /\ y.last = l /\ y.size = n1 /\ y.cap = k
             /\ y.spilt = d.spilt
             /\ y = [buf |-> y.buf, first |-> y.first, last |-> y.last, size |-> y.size,
                     cap |-> y.cap, spilt |-> y.spilt]
  BY <1>6 DEF Ring, Rings
<1>7. /\ x.buf = b /\ x.first = f /\ x.last = l /\ x.size = n1 /\ x.cap = k
      /\ x.spilt = d.spilt
      /\ x = [buf |-> x.buf, first |-> x.first, last |-> x.last, size |-> x.size,
              cap |-> x.cap, spilt |-> x.spilt]
  <2>1. x = [d EXCEPT !.buf = b, !.last = l, !.size = n1]
    BY DEF PutAt
  <2> HIDE DEF x, b, l
  <2> QED
    BY <1>6, <2>1
<1>8. /\ b \in [0..(k - 1) -> E]
      /\ \A j \in 0..n : b[On(k, f, j)] = IF j = i THEN e ELSE d.buf[On(k, f, IF j < i THEN j ELSE j - 1)]
  <2>1. (On(d.cap, d.first, i) > d.last \/ d.last = d.cap - 1) => d.size # d.cap - 1
    BY <1>5 DEF Overlaid
  <2>2. GapOpenedUp(d, i, e, E)
    BY <2>1, OpenedUpSlots
  <2> HIDE DEF p
  <2> QED
    BY <1>5, <2>2 DEF GapOpenedUp
<1>9. l \in 0..(k - 1) /\ l = On(k, f, n1)
  <2> HIDE DEF k, f, n
  <2>1. n \in 0..(k - 1) /\ n1 \in 0..k
    BY <1>1
  <2>2. (On(k, f, n) + 1) % k = On(k, f, n + 1)
    BY <1>1, <2>1, NextOn
  <2>3. On(k, f, n1) \in 0..(k - 1)
    <3> HIDE DEF n1
    <3> QED
      BY <1>1, <2>1, OnIs
  <2> QED
    BY <1>2, <2>2, <2>3
<1> HIDE DEF x, k, f, n, c, p, b, l
<1>10. Ring(x, E)
  <2>1. n1 \in 0..k
    BY <1>1
  <2> HIDE DEF n1
  <2> QED
    BY <1>1, <1>7, <1>8, <1>9, <2>1, RingMade
<1>11. ASSUME NEW m \in 1..x.size PROVE s[m] = D!At(x, m - 1)
  <2> DEFINE j == m - 1
             o == IF j < i THEN j ELSE j - 1
  <2>1. m \in 1..n1 /\ j \in Nat /\ j \in 0..n /\ m = j + 1
    BY <1>1, <1>7
  <2>2. D!At(x, j) = b[On(k, f, j)]
    <3> HIDE DEF j
    <3>1. D!Slot(x, j) = On(k, f, j)
      BY <1>7, <1>10, <2>1, RingLast
    <3> QED
      BY <1>7, <3>1, Zenon DEF D!At
  <2>3. CASE j = i
    <3>1. s[m] = e
      BY <1>1, <2>1, <2>3
    <3>2. b[On(k, f, j)] = e
      BY <1>8, <2>1, <2>3
    <3> HIDE DEF j, s
    <3> QED
      BY <2>2, <3>1, <3>2 DEF j
  <2>4. CASE j # i
    <3>1. o \in Nat /\ o + 1 \in 1..n /\ (o + 1) - 1 = o
      BY <1>1, <2>1, <2>4
    <3>2. s[m] = c[o + 1]
      <4>1. s[m] = IF m <= i THEN c[m] ELSE IF m = i + 1 THEN e ELSE c[m - 1]
        BY <2>1
      <4> QED
        BY <1>1, <2>1, <2>4, <4>1
    <3>3. b[On(k, f, j)] = d.buf[On(k, f, o)]
      BY <1>8, <2>1, <2>4
    <3> HIDE DEF j, o, s
    <3>4. D!At(d, o) = d.buf[On(k, f, o)]
      BY <1>2, <3>1, Zenon DEF D!At
    <3>5. c[o + 1] = D!At(d, o)
      BY <1>3, <3>1
    <3> QED
      BY <2>2, <3>2, <3>3, <3>4, <3>5 DEF j
  <2> QED
    BY <2>3, <2>4
<1>12. D!Contents(x) = s
  <2> HIDE DEF s
  <2> QED
    BY <1>4, <1>7, <1>10, <1>11, ContentsAre
<1> QED
  BY <1>7, <1>10, <1>12 DEF x, k, f, n, c, p, b, l

\* cc_deque_add_at puts the element at the place, with those from the place on behind it,
\* growing first when the buffer is full, but for the insertions above; without memory to
\* grow it leaves the deque alone.
THEOREM AddAtLaw ==
  ASSUME NEW E, Junk \in E, NEW d, Ring(d, E), NEW e \in E, NEW i \in 0..(d.size - 1),
         NEW alloc, ~Overlaid(d, i)
  PROVE  LET r == D!AddAt(d, e, i, alloc)
             c == D!Contents(d)
         IN  /\ r.stat = "OK" <=> D!CanHold(d, alloc)
             /\ r.stat = "OK" =>
                  /\ Ring(r.list, E) /\ r.list.spilt = d.spilt
                  /\ D!Contents(r.list) =
                       [m \in 1..(d.size + 1) |-> IF m <= i THEN c[m] ELSE IF m = i + 1 THEN e ELSE c[m - 1]]
             /\ r.stat # "OK" => r.list = d
<1> DEFINE r == D!AddAt(d, e, i, alloc)
           h == D!Holding(d)
           c == D!Contents(d)
           s == [m \in 1..(d.size + 1) |-> IF m <= i THEN c[m] ELSE IF m = i + 1 THEN e ELSE c[m - 1]]
<1>1. d.cap \in Nat \ {0} /\ d.size \in 0..d.cap /\ d.size \in Nat \ {0} /\ i < d.size
  BY RingFields
<1>2. CASE ~D!CanHold(d, alloc)
  BY <1>1, <1>2 DEF D!AddAt, D!Refused
<1>3. CASE D!CanHold(d, alloc)
  <2>1. /\ Ring(h, E) /\ D!Contents(h) = c
        /\ h.size = d.size /\ h.size < h.cap /\ h.spilt = d.spilt
    BY <1>3, RoomMade
  <2>2. h.cap \in Nat \ {0} /\ i \in 0..(h.size - 1) /\ i # h.cap - 1
    BY <1>1, <2>1, RingFields
  <2>3. ~(i >= d.size)
    BY <1>1
  <2>4. CASE i = 0
    <3>1. r = D!AddFirst(h, e, alloc)
      <4> HIDE DEF h
      <4> QED
        BY <1>3, <2>3, <2>4 DEF D!AddAt, h
    <3>2. D!CanHold(h, alloc)
      BY <2>1, <2>2 DEF D!CanHold
    <3> HIDE DEF r, h, c
    <3>3. r.stat = "OK" /\ Ring(r.list, E) /\ r.list.spilt = d.spilt /\ D!Contents(r.list) = <<e>> \o c
      BY <2>1, <3>1, <3>2, AddFirstLaw
    <3>4. c \in Seq(E) /\ Len(c) = d.size
      <4>1. D!Contents(d) \in Seq(E) /\ Len(D!Contents(d)) = d.size
        BY ContentsType
      <4> QED
        BY <4>1 DEF c
    <3>5. <<e>> \o c = s
      <4> DEFINE t == <<e>> \o c
                 n == d.size
      <4>1. /\ t \in Seq(E) /\ Len(t) = n + 1
            /\ \A m \in 1..(n + 1) : t[m] = IF m = 1 THEN e ELSE c[m - 1]
        BY <1>1, <3>4
      <4> HIDE DEF t, n
      <4>2. t = [m \in 1..(n + 1) |-> t[m]]
        BY <4>1
      <4>3. \A m \in 1..(n + 1) : t[m] = IF m <= i THEN c[m] ELSE IF m = i + 1 THEN e ELSE c[m - 1]
        BY <2>4, <4>1
      <4> QED
        BY <4>2, <4>3 DEF t, n
    <3> QED
      BY <1>3, <3>3, <3>5 DEF r, h, c
  <2>5. CASE i # 0
    <3> DEFINE x == PutAt(h, e, i)
    <3>1. ~D!InFirstHalf(d, i)
      BY <1>1, <2>5 DEF Overlaid
    <3>2. ~D!InFirstHalf(h, i)
      BY <2>1, <3>1 DEF D!InFirstHalf
    <3>3. ~Overlaid(h, i)
      <4>1. CASE d.size = d.cap
        <5>1. h.cap = 2 * d.cap
          BY <4>1, Expanded DEF D!Holding
        <5>2. h.size # h.cap - 1
          BY <1>1, <2>1, <2>5, <4>1, <5>1
        <5> QED
          BY <3>2, <5>2 DEF Overlaid
      <4>2. CASE d.size # d.cap
        BY <4>2 DEF D!Holding
      <4> QED
        BY <4>1, <4>2
    <3>4. r = D!Done(x)
      <4> HIDE DEF h
      <4>1. r = LET g == h
                    q == D!Slot(g, i)
                IN  D!Done([g EXCEPT !.buf = [D!ShiftedUp(g, q, i) EXCEPT ![q] = e],
                                     !.last = (@ + 1) % g.cap, !.size = @ + 1])
        BY <1>3, <2>2, <2>3, <2>5, <3>2 DEF D!AddAt, h
      <4> QED
        BY <4>1 DEF PutAt
    <3>5. r.stat = "OK" /\ r.list = x
      <4> HIDE DEF x, r
      <4> QED
        BY <3>4 DEF D!Done
    <3>6. /\ Ring(x, E) /\ x.spilt = h.spilt
          /\ D!Contents(x) =
               [m \in 1..(h.size + 1) |->
                  IF m <= i THEN D!Contents(h)[m] ELSE IF m = i + 1 THEN e ELSE D!Contents(h)[m - 1]]
      <4> HIDE DEF h
      <4> QED
        BY <2>1, <2>2, <3>2, <3>3, Inserted
    <3> HIDE DEF x, r, h
    <3> QED
      BY <1>3, <2>1, <3>5, <3>6 DEF r
  <2> QED
    BY <2>4, <2>5
<1> QED
  BY <1>2, <1>3
\* While there is memory to grow, the deque of the pool does what its queue does in
\* ThreadPool: submitTask's cc_deque_add_last leaves the elements of queue', and what
\* cc_deque_remove_first hands a worker is what Take gives it.
THEOREM QueueIsDeque ==
  ASSUME IInv, NEW d, Ring(d, Tasks \cup {Junk}), D!Contents(d) = queue,
         NEW alloc, D!CanHold(d, alloc)
  PROVE  /\ SubmitAdd =>
              LET r == D!AddLast(d, hand, alloc)
              IN  r.stat = "OK" /\ Ring(r.list, Tasks \cup {Junk}) /\ D!Contents(r.list) = queue'
         /\ \A w \in Workers : Take(w) =>
              LET r == D!RemoveFirst(d)
              IN  /\ r.stat = "OK" /\ r.out = held'[w]
                  /\ Ring(r.list, Tasks \cup {Junk}) /\ D!Contents(r.list) = queue'
<1> DEFINE E == Tasks \cup {Junk}
<1>1. Ring(d, E) /\ Junk \in E
  OBVIOUS
<1>2. ASSUME SubmitAdd PROVE hand \in E /\ queue' = Append(queue, hand)
  <2>1. mpc = "add"
    BY <1>2 DEF SubmitAdd, MainAt
  <2>2. hand \in Tasks
    BY <2>1 DEF IInv, TypeOK, Hands
  <2> QED
    BY <1>2, <2>2 DEF SubmitAdd
<1>3. ASSUME NEW w \in Workers, Take(w)
      PROVE  queue # <<>> /\ held'[w] = Head(queue) /\ queue' = Tail(queue)
  <2>1. held \in [Workers -> Tasks \cup {NoTask}]
    BY DEF IInv, TypeOK
  <2> QED
    BY <1>3, <2>1 DEF Take
<1>4. queue # <<>> => d.size # 0
  <2>1. queue \in Seq(E) /\ Len(queue) = d.size
    <3> HIDE DEF E
    <3> QED
      BY <1>1, ContentsType
  <2> QED
    BY <2>1
<1> HIDE DEF E
<1>5. ASSUME SubmitAdd
      PROVE  LET r == D!AddLast(d, hand, alloc)
             IN  r.stat = "OK" /\ Ring(r.list, E) /\ D!Contents(r.list) = queue'
  BY <1>1, <1>2, <1>5, AddLastLaw
<1>6. ASSUME NEW w \in Workers, Take(w)
      PROVE  LET r == D!RemoveFirst(d)
             IN  /\ r.stat = "OK" /\ r.out = held'[w]
                 /\ Ring(r.list, E) /\ D!Contents(r.list) = queue'
  BY <1>1, <1>3, <1>4, <1>6, RemoveFirstLaw
<1> QED
  BY <1>5, <1>6 DEF E
=============================================================================
