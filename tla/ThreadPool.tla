----------------------------- MODULE ThreadPool -----------------------------
(***************************************************************************)
(* The thread pool (src/utils/threadpool.c), the accept loop that feeds it *)
(* (launch in src/server/server.c) and the signal handler that shuts it    *)
(* down (src/main.c), as the threads of one process.                       *)
(*                                                                         *)
(* The main thread runs main -> launch -> submitTask, and on SIGTERM or    *)
(* SIGINT the handler, which suspends whatever main was doing.  Workers    *)
(* 1..MaxWorkers run task_handler.  A task is one accepted connection; its *)
(* callback is handleConnection.                                           *)
(*                                                                         *)
(* A program counter names the line a thread is about to execute.  What is *)
(* done under queueMutex is split where another thread, or the signal      *)
(* handler, can observe the difference.                                    *)
(***************************************************************************)
EXTENDS Integers, Sequences, FiniteSets

CONSTANTS MaxWorkers,      \* pool->maxWorkers
          Tasks,           \* the connections clients may open
          Returning,       \* the tasks whose callback returns
          NoTask,          \* no task in hand
          AcceptMayFail,   \* accept may fail with an errno other than EINTR
          Signals,         \* SIGTERM or SIGINT may arrive
          MaxSpurious      \* bound on spurious wakeups of pthread_cond_wait

ASSUME MaxWorkersAssumption == MaxWorkers \in Nat \ {0}
ASSUME TasksAssumption == NoTask \notin Tasks /\ Returning \subseteq Tasks
ASSUME SwitchesAssumption ==
    AcceptMayFail \in BOOLEAN /\ Signals \in BOOLEAN /\ MaxSpurious \in Nat

Workers == 1..MaxWorkers
Main == 0
Free == -1      \* nobody holds the mutex

VARIABLES
    process,    \* "up", "exited" (main returned) or "aborted" (by the allocator)
    running,    \* pool->running
    mutex,      \* the holder of pool->queueMutex
    queue,      \* pool->taskQueue
    waitset,    \* the workers blocked on pool->avaialableSignal
    pc,         \* the program counter of each worker
    held,       \* the task a worker has removed from the queue (t in task_handler)
    cancelled,  \* workers with a pending pthread_cancel
    mpc,        \* the program counter of the main thread
    hand,       \* the connection main has accepted and not yet queued
    spawned,    \* the number of workers created
    listening,  \* server->socketfd is open
    hpc,        \* the program counter of the signal handler
    joining,    \* the loop index of shutDownThreadPool
    accepted,   \* history: the connections accept has returned
    done,       \* history: the tasks whose callback returned
    spurious    \* the number of spurious wakeups so far

poolVars == <<running, queue, waitset>>
workerVars == <<pc, held, cancelled>>
mainVars == <<mpc, hand, spawned, listening>>
handlerVars == <<hpc, joining>>
historyVars == <<accepted, done, spurious>>
vars == <<process, mutex, poolVars, workerVars, mainVars, handlerVars, historyVars>>

Init ==
    /\ process = "up"
    /\ running = FALSE
    /\ mutex = Free
    /\ queue = <<>>
    /\ waitset = {}
    /\ pc = [w \in Workers |-> "unborn"]
    /\ held = [w \in Workers |-> NoTask]
    /\ cancelled = {}
    /\ mpc = "start"
    /\ hand = NoTask
    /\ spawned = 0
    /\ listening = TRUE
    /\ hpc = "none"
    /\ joining = 1
    /\ accepted = {}
    /\ done = {}
    /\ spurious = 0

----------------------------------------------------------------------------
(* The main thread: launch and submitTask.  While the handler runs it does *)
(* not take a step.                                                        *)

MainAt(label) == process = "up" /\ hpc \in {"none", "returned"} /\ mpc = label
MainGoto(label) == mpc' = label /\ UNCHANGED <<spawned, listening>>

\* startThreadPool up to its loop: nothing competes for the mutex yet.
StartThreadPool ==
    /\ MainAt("start")
    /\ mutex = Free
    /\ running' = TRUE
    /\ MainGoto("create")
    /\ UNCHANGED <<process, mutex, queue, waitset, workerVars, hand, handlerVars, historyVars>>

CreateWorker ==
    /\ MainAt("create")
    /\ spawned' = spawned + 1
    /\ pc' = [pc EXCEPT ![spawned'] = "load"]
    /\ mpc' = IF spawned' = MaxWorkers THEN "accept" ELSE "create"
    /\ UNCHANGED <<process, mutex, poolVars, held, cancelled, hand, listening,
                   handlerVars, historyVars>>

\* A connection arrives.  EINTR only repeats the call.
Accept(t) ==
    /\ MainAt("accept")
    /\ listening
    /\ t \notin accepted
    /\ accepted' = accepted \cup {t}
    /\ hand' = t
    /\ MainGoto("lock")
    /\ UNCHANGED <<process, mutex, poolVars, workerVars, handlerVars, done, spurious>>

\* listen fails, or accept with another errno, EBADF once the handler closed the
\* socket: launch and then main return, which ends the process and every worker.
AcceptFails ==
    /\ \/ MainAt("start") /\ AcceptMayFail
       \/ MainAt("accept") /\ (AcceptMayFail \/ ~listening)
    /\ process' = "exited"
    /\ UNCHANGED <<mutex, poolVars, workerVars, mainVars, handlerVars, historyVars>>

\* submitTask without its pthread_mutex_lock.
SubmitLockUnguarded ==
    /\ MainAt("lock")
    /\ mutex' = Main
    /\ MainGoto("add")
    /\ UNCHANGED <<process, poolVars, workerVars, hand, handlerVars, historyVars>>

SubmitLock ==
    /\ MainAt("lock")
    /\ mutex = Free
    /\ mutex' = Main
    /\ MainGoto("add")
    /\ UNCHANGED <<process, poolVars, workerVars, hand, handlerVars, historyVars>>

\* The task put at the wrong end of the deque.
SubmitAddFirst ==
    /\ MainAt("add")
    /\ queue' = <<hand>> \o queue
    /\ hand' = NoTask
    /\ MainGoto("signal")
    /\ UNCHANGED <<process, mutex, running, waitset, workerVars, handlerVars, historyVars>>

\* cc_deque_add_last.
SubmitAdd ==
    /\ MainAt("add")
    /\ queue' = Append(queue, hand)
    /\ hand' = NoTask
    /\ MainGoto("signal")
    /\ UNCHANGED <<process, mutex, running, waitset, workerVars, handlerVars, historyVars>>

\* pthread_cond_signal wakes any one of the workers that wait.
Wake(woken) ==
    /\ waitset' = waitset \ woken
    /\ pc' = [w \in Workers |-> IF w \in woken THEN "woken" ELSE pc[w]]

\* The signal given only when the queue was empty before.
SubmitSignalIfFirst ==
    /\ MainAt("signal")
    /\ IF waitset = {} \/ Len(queue) > 1 THEN Wake({}) ELSE \E w \in waitset : Wake({w})
    /\ MainGoto("unlock")
    /\ UNCHANGED <<process, mutex, running, queue, held, cancelled, hand, handlerVars,
                   historyVars>>

SubmitSignal ==
    /\ MainAt("signal")
    /\ IF waitset = {} THEN Wake({}) ELSE \E w \in waitset : Wake({w})
    /\ MainGoto("unlock")
    /\ UNCHANGED <<process, mutex, running, queue, held, cancelled, hand, handlerVars,
                   historyVars>>

SubmitUnlock ==
    /\ MainAt("unlock")
    /\ mutex' = Free
    /\ MainGoto("accept")
    /\ UNCHANGED <<process, poolVars, workerVars, hand, handlerVars, historyVars>>

MainProgress ==
    StartThreadPool \/ CreateWorker \/ SubmitLock \/ SubmitAdd \/ SubmitSignal \/ SubmitUnlock
----------------------------------------------------------------------------
(* A worker: task_handler.                                                 *)

WorkerAt(w, label) == process = "up" /\ pc[w] = label
Goto(w, label) == pc' = [pc EXCEPT ![w] = label]

LoadMagicDB(w) ==
    /\ WorkerAt(w, "load")
    /\ Goto(w, "loop")
    /\ UNCHANGED <<process, mutex, poolVars, held, cancelled, mainVars, handlerVars, historyVars>>

\* `while (pool->running)`, read without the mutex.
TestRunning(w) ==
    /\ WorkerAt(w, "loop")
    /\ Goto(w, IF running THEN "lock" ELSE "leave")
    /\ UNCHANGED <<process, mutex, poolVars, held, cancelled, mainVars, handlerVars, historyVars>>

LockQueue(w) ==
    /\ WorkerAt(w, "lock")
    /\ mutex = Free
    /\ mutex' = w
    /\ Goto(w, "check")
    /\ UNCHANGED <<process, poolVars, held, cancelled, mainVars, handlerVars, historyVars>>

\* pthread_cond_wait: the mutex is released and the worker waits, in one step.
Wait(w) ==
    /\ mutex' = Free
    /\ waitset' = waitset \cup {w}
    /\ Goto(w, "wait")

\* The inner loop left without its test of running.
CheckQueueOnly(w) ==
    /\ WorkerAt(w, "check")
    /\ IF queue = <<>>
         THEN Wait(w)
         ELSE Goto(w, "take") /\ UNCHANGED <<mutex, waitset>>
    /\ UNCHANGED <<process, running, queue, held, cancelled, mainVars, handlerVars, historyVars>>

\* The inner loop and the test behind it.
CheckQueue(w) ==
    /\ WorkerAt(w, "check")
    /\ \/ running /\ queue = <<>> /\ Wait(w)
       \/ running /\ queue # <<>> /\ Goto(w, "take") /\ UNCHANGED <<mutex, waitset>>
       \/ ~running /\ Goto(w, "quit") /\ UNCHANGED <<mutex, waitset>>
    /\ UNCHANGED <<process, running, queue, held, cancelled, mainVars, handlerVars, historyVars>>

\* pthread_cond_wait returns with the mutex.
Reacquire(w) ==
    /\ WorkerAt(w, "woken")
    /\ mutex = Free
    /\ mutex' = w
    /\ Goto(w, "check")
    /\ UNCHANGED <<process, poolVars, held, cancelled, mainVars, handlerVars, historyVars>>

SpuriousWakeup(w) ==
    /\ WorkerAt(w, "wait")
    /\ spurious < MaxSpurious
    /\ spurious' = spurious + 1
    /\ waitset' = waitset \ {w}
    /\ Goto(w, "woken")
    /\ UNCHANGED <<process, mutex, running, queue, held, cancelled, mainVars, handlerVars,
                   accepted, done>>

\* `if (!pool->running) { unlock; return; }`
QuitUnlock(w) ==
    /\ WorkerAt(w, "quit")
    /\ mutex' = Free
    /\ Goto(w, "dead")
    /\ UNCHANGED <<process, poolVars, held, cancelled, mainVars, handlerVars, historyVars>>

\* The oldest task read but left in the queue.
TakePeek(w) ==
    /\ WorkerAt(w, "take")
    /\ queue # <<>>
    /\ held' = [held EXCEPT ![w] = Head(queue)]
    /\ Goto(w, "unlock")
    /\ UNCHANGED <<process, mutex, poolVars, cancelled, mainVars, handlerVars, historyVars>>

\* cc_deque_remove_first, whose result the code asserts.
Take(w) ==
    /\ WorkerAt(w, "take")
    /\ queue # <<>>
    /\ held' = [held EXCEPT ![w] = Head(queue)]
    /\ queue' = Tail(queue)
    /\ Goto(w, "unlock")
    /\ UNCHANGED <<process, mutex, running, waitset, cancelled, mainVars, handlerVars, historyVars>>

UnlockQueue(w) ==
    /\ WorkerAt(w, "unlock")
    /\ mutex' = Free
    /\ Goto(w, "run")
    /\ UNCHANGED <<process, poolVars, held, cancelled, mainVars, handlerVars, historyVars>>

\* The callback returns and the task is freed.
Finish(w) ==
    /\ WorkerAt(w, "run")
    /\ held[w] \in Returning
    /\ done' = done \cup {held[w]}
    /\ held' = [held EXCEPT ![w] = NoTask]
    /\ Goto(w, "loop")
    /\ UNCHANGED <<process, mutex, poolVars, cancelled, mainVars, handlerVars, accepted, spurious>>

\* The unlock after the loop, by a worker that does not hold the mutex: a normal
\* mutex is released whoever holds it.
LeaveUnlock(w) ==
    /\ WorkerAt(w, "leave")
    /\ mutex' = Free
    /\ Goto(w, "dead")
    /\ UNCHANGED <<process, poolVars, held, cancelled, mainVars, handlerVars, historyVars>>

\* A pending cancellation is acted upon at a cancellation point: in the magic
\* database's file calls, in the callback's socket and file calls, ...
CancelInCall(w) ==
    /\ process = "up" /\ pc[w] \in {"load", "run"}
    /\ w \in cancelled
    /\ held' = [held EXCEPT ![w] = NoTask]
    /\ Goto(w, "dead")
    /\ UNCHANGED <<process, mutex, poolVars, cancelled, mainVars, handlerVars, historyVars>>

\* ... or in pthread_cond_wait, woken or not, which takes the mutex back first.
CancelInWait(w) ==
    /\ process = "up" /\ pc[w] \in {"wait", "woken"}
    /\ w \in cancelled
    /\ waitset' = waitset \ {w}
    /\ Goto(w, "cancelling")
    /\ UNCHANGED <<process, mutex, running, queue, held, cancelled, mainVars, handlerVars,
                   historyVars>>

\* The thread ends with no cleanup handler that would release the mutex.
DieWithMutex(w) ==
    /\ WorkerAt(w, "cancelling")
    /\ mutex = Free
    /\ mutex' = w
    /\ Goto(w, "dead")
    /\ UNCHANGED <<process, poolVars, held, cancelled, mainVars, handlerVars, historyVars>>

WorkerProgress(w) ==
    \/ LoadMagicDB(w) \/ TestRunning(w) \/ LockQueue(w) \/ CheckQueue(w) \/ Reacquire(w)
    \/ QuitUnlock(w) \/ Take(w) \/ UnlockQueue(w) \/ Finish(w) \/ LeaveUnlock(w)
    \/ CancelInCall(w) \/ CancelInWait(w) \/ DieWithMutex(w)
----------------------------------------------------------------------------
(* The signal handler: sighandler_parent -> shutDownServer ->              *)
(* shutDownThreadPool and freeServer, on the main thread.                  *)

HandlerAt(label) == process = "up" /\ hpc = label
HandlerGoto(label) == hpc' = label /\ UNCHANGED joining

\* One signal, once the workers were created, at any point of the main thread.
Signal ==
    /\ Signals
    /\ HandlerAt("none")
    /\ mpc \notin {"start", "create"}
    /\ HandlerGoto("lock")
    /\ UNCHANGED <<process, mutex, poolVars, workerVars, mainVars, historyVars>>

\* running is cleared without the mutex.
ShutDownLockUnguarded ==
    /\ HandlerAt("lock")
    /\ HandlerGoto("stop")
    /\ UNCHANGED <<process, mutex, poolVars, workerVars, mainVars, historyVars>>

\* queueMutex is not recursive: the handler waits for ever if main holds it.
ShutDownLock ==
    /\ HandlerAt("lock")
    /\ mutex = Free
    /\ mutex' = Main
    /\ HandlerGoto("stop")
    /\ UNCHANGED <<process, poolVars, workerVars, mainVars, historyVars>>

ShutDownStop ==
    /\ HandlerAt("stop")
    /\ running' = FALSE
    /\ HandlerGoto("broadcast")
    /\ UNCHANGED <<process, mutex, queue, waitset, workerVars, mainVars, historyVars>>

ShutDownBroadcast ==
    /\ HandlerAt("broadcast")
    /\ Wake(waitset)
    /\ HandlerGoto("unlock")
    /\ UNCHANGED <<process, mutex, running, queue, held, cancelled, mainVars, historyVars>>

ShutDownUnlock ==
    /\ HandlerAt("unlock")
    /\ mutex' = Free
    /\ HandlerGoto("cancel")
    /\ UNCHANGED <<process, poolVars, workerVars, mainVars, historyVars>>

\* The worker is joined without having been cancelled.
CancelSkipped ==
    /\ HandlerAt("cancel")
    /\ HandlerGoto("join")
    /\ UNCHANGED <<process, mutex, poolVars, workerVars, mainVars, historyVars>>

CancelWorker ==
    /\ HandlerAt("cancel")
    /\ cancelled' = cancelled \cup {joining}
    /\ HandlerGoto("join")
    /\ UNCHANGED <<process, mutex, poolVars, pc, held, mainVars, historyVars>>

\* pthread_join does not wait.
JoinNow ==
    /\ HandlerAt("join")
    /\ HandlerGoto("free")
    /\ UNCHANGED <<process, mutex, poolVars, workerVars, mainVars, historyVars>>

JoinWorker ==
    /\ HandlerAt("join")
    /\ pc[joining] = "dead"
    /\ HandlerGoto("free")
    /\ UNCHANGED <<process, mutex, poolVars, workerVars, mainVars, historyVars>>

\* free() of a pthread_t that custom_alloc took from the arena: the allocator may
\* abort the process or may not notice.
FreeWorker ==
    /\ HandlerAt("free")
    /\ \/ /\ process' = "aborted"
          /\ UNCHANGED handlerVars
       \/ /\ joining' = joining + 1
          /\ hpc' = IF joining = MaxWorkers THEN "close" ELSE "cancel"
          /\ UNCHANGED process
    /\ UNCHANGED <<mutex, poolVars, workerVars, mainVars, historyVars>>

\* freeServer closes the socket, and main goes on where the signal found it.
FreeServer ==
    /\ HandlerAt("close")
    /\ listening' = FALSE
    /\ HandlerGoto("returned")
    /\ UNCHANGED <<process, mutex, poolVars, workerVars, mpc, hand, spawned, historyVars>>

HandlerProgress ==
    \/ ShutDownLock \/ ShutDownStop \/ ShutDownBroadcast \/ ShutDownUnlock
    \/ CancelWorker \/ JoinWorker \/ FreeWorker \/ FreeServer
----------------------------------------------------------------------------
Next ==
    \/ MainProgress
    \/ \E t \in Tasks : Accept(t)
    \/ AcceptFails
    \/ \E w \in Workers : WorkerProgress(w) \/ SpuriousWakeup(w)
    \/ Signal
    \/ HandlerProgress

Spec == Init /\ [][Next]_vars

\* The kernel schedules every thread that can run.  accept fails when its socket
\* is closed; no client has to connect, and no signal has to come.
Fairness ==
    /\ WF_vars(MainProgress)
    /\ WF_vars(~listening /\ AcceptFails)
    /\ WF_vars(HandlerProgress)
    /\ \A w \in Workers : WF_vars(WorkerProgress(w))

FairSpec == Spec /\ Fairness
----------------------------------------------------------------------------
(* Properties.                                                             *)

WorkerLabels == {"unborn", "load", "loop", "lock", "check", "wait", "woken", "take", "unlock",
                 "run", "quit", "leave", "cancelling", "dead"}
MainLabels == {"start", "create", "accept", "lock", "add", "signal", "unlock"}
HandlerLabels == {"none", "lock", "stop", "broadcast", "unlock", "cancel", "join", "free",
                  "close", "returned"}

\* Every variable has its type.
TypeOK ==
    /\ process \in {"up", "exited", "aborted"}
    /\ running \in BOOLEAN
    /\ mutex \in Workers \cup {Main, Free}
    /\ queue \in Seq(Tasks)
    /\ waitset \subseteq Workers
    /\ pc \in [Workers -> WorkerLabels]
    /\ held \in [Workers -> Tasks \cup {NoTask}]
    /\ cancelled \subseteq Workers
    /\ mpc \in MainLabels
    /\ hand \in Tasks \cup {NoTask}
    /\ spawned \in 0..MaxWorkers
    /\ listening \in BOOLEAN
    /\ hpc \in HandlerLabels
    /\ joining \in 1..(MaxWorkers + 1)
    /\ accepted \subseteq Tasks
    /\ done \subseteq Tasks
    /\ spurious \in 0..MaxSpurious

\* The assert(result == CC_OK) behind cc_deque_remove_first (threadpool.c:40) never
\* fails: between a worker's look at the queue and its removal nobody empties it,
\* whatever wakes workers up and whoever unlocks the mutex.
RemoveFirstSucceeds == \A w \in Workers : pc[w] = "take" => queue # <<>>

\* The deque is never reached by two threads at once, although a worker that leaves
\* the loop unlocks a mutex it does not hold (threadpool.c:47).
AtQueue ==
    {w \in Workers : pc[w] = "take" \/ (pc[w] = "check" /\ running)}
    \cup {x \in {Main} : mpc = "add" /\ hpc \in {"none", "returned"}}
QueueExclusive == \A x, y \in AtQueue : x = y

\* A connection accept returned is never handled twice, and never lost before
\* shutdown: main has it in hand, the queue holds it, a worker holds it, or it is done.
Hand == {hand} \ {NoTask}
Queued == {queue[i] : i \in DOMAIN queue}
Held == {held[w] : w \in Workers} \ {NoTask}
OnePlace ==
    /\ Hand \cap (Queued \cup Held \cup done) = {}
    /\ Queued \cap (Held \cup done) = {}
    /\ Held \cap done = {}
    /\ \A i, j \in DOMAIN queue : queue[i] = queue[j] => i = j
    /\ \A v, w \in Workers : held[v] = held[w] /\ held[v] # NoTask => v = w
TaskConserved ==
    /\ OnePlace
    /\ Hand \cup Queued \cup Held \cup done \subseteq accepted
    /\ running => accepted = Hand \cup Queued \cup Held \cup done

\* No lost wakeup: while a worker sleeps, every queued task has a worker awake that
\* will still look at the queue, or main is about to signal one.  The code signals
\* once a task and only under the mutex (threadpool.c:84).
Lookers == {w \in Workers : pc[w] \in {"unborn", "load", "loop", "lock", "check", "woken", "take"}}
NoLostWakeup ==
    running /\ waitset # {} =>
        Len(queue) <= Cardinality(Lookers) + (IF mpc = "signal" THEN 1 ELSE 0)

\* Once shutDownThreadPool cleared running no worker starts another task.
NoStartAfterStop ==
    [][~running /\ hpc # "none" => \A w \in Workers : held'[w] \in {held[w], NoTask}]_vars

\* The handler gets past the joins only when every worker has ended, so nothing
\* uses the arena it then frees and the socket it closes.
JoinedBeforeFree ==
    hpc \in {"close", "returned"} => \A w \in Workers : pc[w] = "dead"

\* The pool implements the dispatcher of TaskDispatch.
Dispatcher == INSTANCE TaskDispatch WITH
    Capacity <- MaxWorkers,
    submitted <- accepted \ {hand},
    pending <- queue,
    executing <- Held,
    stopped <- hpc \notin {"none", "lock", "stop"}
ImplementsDispatch == Dispatcher!Spec

Ended == process # "up"
AllBusy == \A w \in Workers : pc[w] = "run" /\ held[w] \notin Returning

\* A queued connection is served, unless every worker is taken by a connection that
\* never ends, the process ends or it is told to.
EventuallyStarted ==
    \A t \in Tasks :
        hand = t ~> (\E w \in Workers : held[w] = t) \/ AllBusy \/ Ended \/ hpc # "none"

\* An accepted connection whose callback returns is finished, in spite of the others
\* that hold on to their workers, under the same conditions.
EventuallyDone ==
    \A t \in Returning : t \in accepted ~> t \in done \/ AllBusy \/ Ended \/ hpc # "none"

\* Both, for the loop of accept, submitTask and task_handler together.
ConnectionsServed == EventuallyStarted /\ EventuallyDone

\* Shutdown ends the process, except in the two ways it can hang: the signal found
\* main inside submitTask's critical section, or a cancelled worker died with the
\* mutex that others, or main, still need.
SelfDeadlock == hpc = "lock" /\ mutex = Main
Orphaned == mutex \in Workers /\ pc[mutex] = "dead"
ShutdownEnds == hpc # "none" ~> Ended \/ []SelfDeadlock \/ []Orphaned

----------------------------------------------------------------------------
(* The inductive invariant behind the safety properties.                   *)

\* What the phases of startup and shutdown fix: when running is set, where main can
\* have been interrupted, which workers have ended.
Phases ==
    /\ running <=> mpc # "start" /\ hpc \in {"none", "lock", "stop"}
    /\ hpc # "none" => mpc \notin {"start", "create"}
    /\ mpc = "start" => mutex = Free /\ spawned = 0
    /\ mpc = "create" => spawned < MaxWorkers
    /\ \A w \in Workers : w > spawned => pc[w] = "unborn"
    /\ hpc \in {"none", "lock", "stop", "broadcast", "unlock"} => joining = 1 /\ cancelled = {}
    /\ hpc \in {"cancel", "join", "free"} => joining \in Workers
    /\ hpc \in {"close", "returned"} => joining = MaxWorkers + 1
    /\ hpc = "free" => pc[joining] = "dead"
    /\ \A w \in Workers : w < joining => pc[w] = "dead"

\* While the pool runs, whoever is between lock and unlock holds the mutex; only then
\* is a worker about to remove a task, and only a stopped pool's worker unlocks
\* without holding it.
Critical ==
    /\ running => \A w \in Workers : pc[w] \in {"check", "take", "unlock", "quit"} => mutex = w
    /\ running /\ (mpc \in {"add", "signal", "unlock"} \/ hpc = "stop") => mutex = Main
    /\ mpc \in {"add", "signal", "unlock"} => hpc \in {"none", "lock", "returned"}
    /\ \A w \in Workers : pc[w] = "take" => running /\ queue # <<>>
    /\ \A w \in Workers : pc[w] = "leave" => ~running
    /\ \A w \in Workers : w \in waitset <=> pc[w] = "wait"

\* Main has a connection in hand between accept and the append, and a worker from its
\* removal to the end of its callback.
Hands ==
    /\ mpc \in {"lock", "add"} <=> hand # NoTask
    /\ \A w \in Workers : pc[w] \in {"unlock", "run"} <=> held[w] # NoTask

IInv == TypeOK /\ Phases /\ Critical /\ Hands
=============================================================================
