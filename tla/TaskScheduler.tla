--------------------------- MODULE TaskScheduler ---------------------------
(***************************************************************************)
(* What the dispatch of tasks promises to the runtime, without an outbox,  *)
(* a publisher or a broker: a task that has become runnable is started,    *)
(* once per time it becomes so, within the limits of the pool, and not     *)
(* later than for ever.  DispatchOutbox implements it.                     *)
(***************************************************************************)
EXTENDS Naturals, FiniteSets

CONSTANTS Task, Run, RunOf, MaxPerRun, MaxActivePool

VARIABLES
    task,        \* agent_tasks.state, as far as the dispatch can tell
    activeRuns   \* runs in the state ACTIVE

vars == <<task, activeRuns>>

Running == {t \in Task : task[t] = "RUNNING"}
HasRoom(t) ==
    /\ Cardinality({u \in Running : RunOf[u] = RunOf[t]}) < MaxPerRun
    /\ Cardinality(Running) < MaxActivePool

Init ==
    /\ task \in [Task -> {"WAITING", "RUNNABLE"}]
    /\ activeRuns = Run

(* A task becomes runnable: its dependencies are done, or a person acted. *)
Announce(t) ==
    /\ task[t] = "WAITING"
    /\ task' = [task EXCEPT ![t] = "RUNNABLE"]
    /\ UNCHANGED activeRuns

Start(t) ==
    /\ task[t] = "RUNNABLE"
    /\ RunOf[t] \in activeRuns
    /\ HasRoom(t)
    /\ task' = [task EXCEPT ![t] = "RUNNING"]
    /\ UNCHANGED activeRuns

(* The execution ends, or is given up and the task is to be run again. *)
Finish(t) ==
    /\ task[t] = "RUNNING"
    /\ \E s \in {"WAITING", "RUNNABLE", "ENDED"} : task' = [task EXCEPT ![t] = s]
    /\ UNCHANGED activeRuns

(* A run stops being active, or becomes active again. *)
Switch(r) ==
    /\ activeRuns' = IF r \in activeRuns THEN activeRuns \ {r} ELSE activeRuns \union {r}
    /\ UNCHANGED task

Next ==
    \/ \E t \in Task : Announce(t) \/ Start(t) \/ Finish(t)
    \/ \E r \in Run : Switch(r)

Spec == Init /\ [][Next]_vars

FairSpec == Spec /\ \A t \in Task : WF_vars(Start(t))

=============================================================================
