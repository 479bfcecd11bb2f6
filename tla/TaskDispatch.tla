---------------------------- MODULE TaskDispatch ----------------------------
(***************************************************************************)
(* What src/include/threadpool.h promises the rest of the server, without  *)
(* its mutex, condition variable and threads: tasks are dispatched in the  *)
(* order they were submitted, each at most once, at most Capacity of them  *)
(* run at a time, and none starts once the pool was stopped.               *)
(***************************************************************************)
EXTENDS Naturals, Sequences, FiniteSets

CONSTANTS Tasks,     \* what may be submitted: one task for each connection
          Capacity   \* maxWorkers

VARIABLES submitted, \* the tasks handed to submitTask so far
          pending,   \* those not started, oldest first
          executing, \* those whose callback runs
          done,      \* those whose callback returned
          stopped    \* shutDownThreadPool was called

vars == <<submitted, pending, executing, done, stopped>>

Init ==
    /\ submitted = {}
    /\ pending = <<>>
    /\ executing = {}
    /\ done = {}
    /\ stopped = FALSE

Submit(t) ==
    /\ t \notin submitted
    /\ submitted' = submitted \cup {t}
    /\ pending' = Append(pending, t)
    /\ UNCHANGED <<executing, done, stopped>>

Dispatch ==
    /\ ~stopped
    /\ pending # <<>>
    /\ Cardinality(executing) < Capacity
    /\ executing' = executing \cup {Head(pending)}
    /\ pending' = Tail(pending)
    /\ UNCHANGED <<submitted, done, stopped>>

Finish(t) ==
    /\ t \in executing
    /\ executing' = executing \ {t}
    /\ done' = done \cup {t}
    /\ UNCHANGED <<submitted, pending, stopped>>

Stop ==
    /\ ~stopped
    /\ stopped' = TRUE
    /\ UNCHANGED <<submitted, pending, executing, done>>

\* Only a stopped pool gives up a task it has started.
Abandon(t) ==
    /\ stopped
    /\ t \in executing
    /\ executing' = executing \ {t}
    /\ UNCHANGED <<submitted, pending, done, stopped>>

Next ==
    \/ \E t \in Tasks : Submit(t) \/ Finish(t) \/ Abandon(t)
    \/ Dispatch
    \/ Stop

Spec == Init /\ [][Next]_vars
=============================================================================
