--------------------------- MODULE DispatchOutbox ---------------------------
(***************************************************************************)
(* How a runnable task reaches a worker: the dispatch outbox in            *)
(* PostgreSQL, publishers that drain it into RabbitMQ, and workers that    *)
(* take deliveries and claim their tasks.                                  *)
(*                                                                         *)
(* An entry is a task at one revision; the outbox has at most one row per  *)
(* entry and a message names one entry.  Publisher and worker take one     *)
(* step per database transaction or broker call, so that everything may    *)
(* happen in between: leases run out, connections break, processes stop,   *)
(* messages are delivered before their publication has been recorded.      *)
(*                                                                         *)
(* Of the runtime (module TaskRuntime) only what decides about claims is   *)
(* kept: the state and the revision of a task, and whether its run is      *)
(* active.  A consumer stands for one delivery a worker may have in hand   *)
(* (the prefetch window), together with the execution it started.          *)
(***************************************************************************)
EXTENDS Naturals, FiniteSets

CONSTANTS
    Task, Run, Publisher, Consumer,
    NoPublisher, NoConsumer, NoEntry,
    RunOf,          \* [Task -> Run]
    MaxPerRun,      \* running tasks of one run
    MaxActivePool,  \* running tasks of the routing class
    BatchLimit,     \* publishBatchSize
    MaxRevision,    \* bound of the model: revisions of one task
    MaxCopies,      \* bound of the model: copies queued before a publication may be overdue
    MaxFaults,      \* bound of the model: crashes, broken connections, lost answers
    MaxGaps         \* bound of the model: steps that drop a message of a runnable task

ASSUME DispatchAssumption ==
    /\ IsFiniteSet(Task)
    /\ RunOf \in [Task -> Run]
    /\ NoPublisher \notin Publisher
    /\ NoConsumer \notin Consumer
    /\ NoEntry \notin Task \X (1..MaxRevision)
    /\ MaxPerRun \in Nat
    /\ MaxActivePool \in Nat
    /\ BatchLimit \in Nat \ {0}
    /\ MaxRevision \in Nat /\ MaxRevision >= 3
    /\ MaxCopies \in Nat
    /\ MaxFaults \in Nat
    /\ MaxGaps \in Nat

VARIABLES
    task,        \* agent_tasks.state, as far as claims tell it apart
    revision,    \* agent_tasks.revision, heartbeats left out
    executor,    \* the consumer whose claim holds the task's lease
    activeRuns,  \* runs in the state ACTIVE
    row,         \* agent_task_dispatch_outbox.state
    owner,       \* publish_owner
    overdue,     \* rows whose publish_lease_until or republish time has passed
    stage,       \* where a publisher is in runOnce
    batch,       \* the entries it claimed and has not published yet
    current,     \* the entry the broker has accepted and it has not recorded yet
    queue,       \* copies of a message that wait in the broker
    phase,       \* where a consumer is in processMessage
    delivery,    \* the message it processes
    attached,    \* consumers whose delivery the broker has not taken back
    faults, gaps \* counters of the model's bounds

taskVars == <<task, revision, executor>>
outboxVars == <<row, owner, overdue>>
publisherVars == <<stage, batch, current>>
consumerVars == <<phase, delivery, attached>>
counters == <<faults, gaps>>
vars == <<taskVars, activeRuns, outboxVars, publisherVars, queue, consumerVars, counters>>

Entry == Task \X (1..MaxRevision)

(* An outbox row has an owner exactly while it is being published, and a   *)
(* consumer a message exactly while it is at work.                         *)
TypeOK ==
    /\ task \in [Task -> {"WAITING", "RUNNABLE", "RUNNING", "ENDED"}]
    /\ revision \in [Task -> 1..MaxRevision]
    /\ executor \in [Task -> Consumer \union {NoConsumer}]
    /\ activeRuns \subseteq Run
    /\ row \in [Entry -> {"NONE", "PENDING", "PUBLISHING", "PUBLISHED"}]
    /\ owner \in [Entry -> Publisher \union {NoPublisher}]
    /\ \A e \in Entry : row[e] = "PUBLISHING" <=> owner[e] # NoPublisher
    /\ overdue \subseteq {e \in Entry : row[e] \in {"PUBLISHING", "PUBLISHED"}}
    /\ stage \in [Publisher -> {"RECONCILE", "CLAIM", "PUBLISH", "CONFIRM"}]
    /\ batch \in [Publisher -> SUBSET Entry]
    /\ current \in [Publisher -> Entry \union {NoEntry}]
    /\ \A p \in Publisher : stage[p] = "CONFIRM" <=> current[p] # NoEntry
    /\ queue \in [Entry -> Nat]
    /\ phase \in [Consumer -> {"IDLE", "RECEIVED", "DEFERRING", "EXECUTING", "SETTLED"}]
    /\ delivery \in [Consumer -> Entry \union {NoEntry}]
    /\ \A c \in Consumer : phase[c] = "IDLE" <=> delivery[c] = NoEntry
    /\ attached \subseteq {c \in Consumer : phase[c] # "IDLE"}
    /\ faults \in 0..MaxFaults
    /\ gaps \in 0..MaxGaps

(* agent_task_dispatch_outbox gets a row for the revision, unless it has one. *)
Enqueued(t, n) == [row EXCEPT ![<<t, n>>] = IF @ = "NONE" THEN "PENDING" ELSE @]

(* Rows of createGoal and of a plan: a runnable task starts with a row.    *)
Init ==
    /\ task \in [Task -> {"WAITING", "RUNNABLE"}]
    /\ revision = [t \in Task |-> 1]
    /\ executor = [t \in Task |-> NoConsumer]
    /\ activeRuns = Run
    /\ row = [e \in Entry |->
          IF e[2] = 1 /\ task[e[1]] = "RUNNABLE" THEN "PENDING" ELSE "NONE"]
    /\ owner = [e \in Entry |-> NoPublisher]
    /\ overdue = {}
    /\ stage = [p \in Publisher |-> "RECONCILE"]
    /\ batch = [p \in Publisher |-> {}]
    /\ current = [p \in Publisher |-> NoEntry]
    /\ queue = [e \in Entry |-> 0]
    /\ phase = [c \in Consumer |-> "IDLE"]
    /\ delivery = [c \in Consumer |-> NoEntry]
    /\ attached = {}
    /\ faults = 0
    /\ gaps = 0

(* The bounds of the model.  A task that is not at its end gets a new      *)
(* chance only while there are revisions left for its claim and its end.   *)
Fault == faults < MaxFaults /\ faults' = faults + 1 /\ UNCHANGED gaps
Gap == gaps < MaxGaps /\ gaps' = gaps + 1 /\ UNCHANGED faults
HasChance(t) == revision[t] + 3 <= MaxRevision

-----------------------------------------------------------------------------
(* Tasks, as commands and people move them *)

(* Mutant: the revision of the message is not compared. *)
CurrentMut(e) == task[e[1]] = "RUNNABLE" /\ revision[e[1]] >= e[2]

(* The task of the entry is runnable at the entry's revision ... *)
Current(e) == task[e[1]] = "RUNNABLE" /\ revision[e[1]] = e[2]

(* ... and its run is active: the condition of publishing and of claiming. *)
Awaiting(e) == Current(e) /\ RunOf[e[1]] \in activeRuns

(* A task changes its state, and a runnable one is put into the outbox in  *)
(* the same transaction.                                                   *)
Move(t, s) ==
    /\ s # "ENDED" => HasChance(t)
    /\ task' = [task EXCEPT ![t] = s]
    /\ revision' = [revision EXCEPT ![t] = @ + 1]
    /\ row' = IF s = "RUNNABLE" THEN Enqueued(t, revision[t] + 1) ELSE row
    /\ UNCHANGED <<owner, overdue>>

(* promoteEligible, or the resumption of a waiting task. *)
BecomeRunnable(t) ==
    /\ task[t] = "WAITING"
    /\ Move(t, "RUNNABLE")
    /\ UNCHANGED <<executor, activeRuns, publisherVars, queue, consumerVars, counters>>

(* recoverStale takes the lease back, in an active run, without waiting    *)
(* for the execution to notice.                                            *)
RecoverStale(t) ==
    /\ task[t] = "RUNNING"
    /\ RunOf[t] \in activeRuns
    /\ Move(t, "RUNNABLE")
    /\ executor' = [executor EXCEPT ![t] = NoConsumer]
    /\ UNCHANGED <<activeRuns, publisherVars, queue, consumerVars, counters>>

(* A sibling fails or needs a person; the person answers. *)
InterruptRun(r) ==
    /\ r \in activeRuns
    /\ activeRuns' = activeRuns \ {r}
    /\ Gap
    /\ UNCHANGED <<taskVars, outboxVars, publisherVars, queue, consumerVars>>

ResumeRun(r) ==
    /\ r \in Run \ activeRuns
    /\ activeRuns' = activeRuns \union {r}
    /\ UNCHANGED <<taskVars, outboxVars, publisherVars, queue, consumerVars, counters>>

-----------------------------------------------------------------------------
(* The outbox and its publishers *)

(* A publication lease runs out, or a publication is old enough to be      *)
(* repeated.                                                               *)
TimePasses(e) ==
    /\ row[e] \in {"PUBLISHING", "PUBLISHED"}
    /\ queue[e] < MaxCopies
    /\ overdue' = overdue \union {e}
    /\ e \notin overdue
    /\ UNCHANGED <<taskVars, activeRuns, row, owner, publisherVars, queue, consumerVars, counters>>

(* The rows of a set become pending again, the others stay as they are. *)
Release(s) ==
    /\ row' = [e \in Entry |-> IF e \in s THEN "PENDING" ELSE row[e]]
    /\ owner' = [e \in Entry |-> IF e \in s THEN NoPublisher ELSE owner[e]]
    /\ overdue' = overdue \ s

(* Mutant: nothing is published again. *)
UnansweredMut == {}

Expired == {e \in overdue : row[e] = "PUBLISHING"}

Unanswered == {e \in overdue : row[e] = "PUBLISHED" /\ Awaiting(e)}

Missing == {e \in Entry : row[e] = "NONE" /\ Awaiting(e)}

Reconcilable == Expired \union Unanswered \union Missing

(* runOnce: reconcile, claim a batch, then publish and confirm one entry   *)
(* after the other.                                                        *)
Reconcile(p) ==
    /\ stage[p] = "RECONCILE"
    /\ Release(Reconcilable)
    /\ stage' = [stage EXCEPT ![p] = "CLAIM"]
    /\ UNCHANGED <<taskVars, activeRuns, batch, current, queue, consumerVars, counters>>

(* A worker does the same whenever it opens a session. *)
ReconcileSession ==
    /\ Reconcilable # {}
    /\ Release(Reconcilable)
    /\ UNCHANGED <<taskVars, activeRuns, publisherVars, queue, consumerVars, counters>>

(* claimDispatchBatch: expired leases are released, then as many rows as   *)
(* the limit allows are taken among those whose task can be claimed.       *)
ClaimDispatchBatch(p) ==
    LET publishable == {e \in Entry : (row[e] = "PENDING" \/ e \in Expired) /\ Awaiting(e)} IN
    \E taken \in SUBSET publishable :
        /\ stage[p] = "CLAIM"
        /\ IF Cardinality(publishable) <= BatchLimit
           THEN taken = publishable ELSE Cardinality(taken) = BatchLimit
        /\ row' = [e \in Entry |-> IF e \in taken THEN "PUBLISHING"
                                   ELSE IF e \in Expired THEN "PENDING" ELSE row[e]]
        /\ owner' = [e \in Entry |-> IF e \in taken THEN p
                                     ELSE IF e \in Expired THEN NoPublisher ELSE owner[e]]
        /\ overdue' = overdue \ (taken \union Expired)
        /\ batch' = [batch EXCEPT ![p] = taken]
        /\ stage' = [stage EXCEPT ![p] = IF taken = {} THEN "RECONCILE" ELSE "PUBLISH"]
        /\ UNCHANGED <<taskVars, activeRuns, current, queue, consumerVars, counters>>

(* confirmPublish: the broker has the message and says so. *)
Publish(p, e) ==
    /\ stage[p] = "PUBLISH"
    /\ e \in batch[p]
    /\ queue' = [queue EXCEPT ![e] = @ + 1]
    /\ batch' = [batch EXCEPT ![p] = @ \ {e}]
    /\ current' = [current EXCEPT ![p] = e]
    /\ stage' = [stage EXCEPT ![p] = "CONFIRM"]
    /\ UNCHANGED <<taskVars, activeRuns, outboxVars, consumerVars, counters>>

HoldsRow(p, e) == row[e] = "PUBLISHING" /\ owner[e] = p

ConfirmDispatch(p) ==
    LET e == current[p] IN
    /\ stage[p] = "CONFIRM"
    /\ HoldsRow(p, e)
    /\ row' = [row EXCEPT ![e] = "PUBLISHED"]
    /\ owner' = [owner EXCEPT ![e] = NoPublisher]
    /\ overdue' = overdue \ {e}
    /\ current' = [current EXCEPT ![p] = NoEntry]
    /\ stage' = [stage EXCEPT ![p] = IF batch[p] = {} THEN "RECONCILE" ELSE "PUBLISH"]
    /\ UNCHANGED <<taskVars, activeRuns, batch, queue, consumerVars, counters>>

(* An error ends the round: what was claimed and not published waits until *)
(* its lease runs out.                                                     *)
AbandonBatch(p) ==
    /\ stage' = [stage EXCEPT ![p] = "RECONCILE"]
    /\ batch' = [batch EXCEPT ![p] = {}]
    /\ current' = [current EXCEPT ![p] = NoEntry]

(* DISPATCH_PUBLISH_LEASE_LOST, by confirmDispatch and by failDispatch after it. *)
LoseLease(p) ==
    /\ stage[p] = "CONFIRM"
    /\ ~HoldsRow(p, current[p])
    /\ AbandonBatch(p)
    /\ UNCHANGED <<taskVars, activeRuns, outboxVars, queue, consumerVars, counters>>

(* The broker refuses a message or its confirmation does not arrive:       *)
(* failDispatch, if the publisher still has the row.                       *)
FailDispatch(p, e) ==
    /\ \/ stage[p] = "PUBLISH" /\ e \in batch[p]
       \/ stage[p] = "CONFIRM" /\ e = current[p]
    /\ Fault
    /\ Release(IF HoldsRow(p, e) THEN {e} ELSE {})
    /\ AbandonBatch(p)
    /\ UNCHANGED <<taskVars, activeRuns, queue, consumerVars>>

(* The publisher stops, or failDispatch fails too. *)
CrashPublisher(p) ==
    /\ stage[p] \in {"PUBLISH", "CONFIRM"}
    /\ Fault
    /\ AbandonBatch(p)
    /\ UNCHANGED <<taskVars, activeRuns, outboxVars, queue, consumerVars>>

-----------------------------------------------------------------------------
(* The broker and its consumers *)

Receive(c, e) ==
    /\ phase[c] = "IDLE"
    /\ queue[e] > 0
    /\ queue' = [queue EXCEPT ![e] = @ - 1]
    /\ phase' = [phase EXCEPT ![c] = "RECEIVED"]
    /\ delivery' = [delivery EXCEPT ![c] = e]
    /\ attached' = attached \union {c}
    /\ UNCHANGED <<taskVars, activeRuns, outboxVars, publisherVars, counters>>

(* The consumer is done with its message: it acknowledges it ... *)
Done(c) ==
    /\ phase' = [phase EXCEPT ![c] = "IDLE"]
    /\ delivery' = [delivery EXCEPT ![c] = NoEntry]
    /\ attached' = attached \ {c}

Acknowledge(c) == Done(c) /\ UNCHANGED queue

(* Mutant: the message is refused for good instead of queued again. *)
ReturnMut(c) == Done(c) /\ UNCHANGED queue

(* ... or the broker gets it back, unless it has taken it back before. *)
Return(c) ==
    /\ Done(c)
    /\ queue' = IF c \in attached THEN [queue EXCEPT ![delivery[c]] = @ + 1] ELSE queue

Running == {t \in Task : task[t] = "RUNNING"}
Saturated(t) ==
    \/ Cardinality({u \in Running : RunOf[u] = RunOf[t]}) >= MaxPerRun
    \/ Cardinality(Running) >= MaxActivePool

(* claimById: the task of the message is claimed, ... *)
ClaimById(c) ==
    LET e == delivery[c] IN
    /\ phase[c] = "RECEIVED"
    /\ Awaiting(e)
    /\ ~Saturated(e[1])
    /\ task' = [task EXCEPT ![e[1]] = "RUNNING"]
    /\ revision' = [revision EXCEPT ![e[1]] = @ + 1]
    /\ executor' = [executor EXCEPT ![e[1]] = c]
    /\ phase' = [phase EXCEPT ![c] = "EXECUTING"]
    /\ UNCHANGED <<activeRuns, outboxVars, publisherVars, queue, delivery, attached, counters>>

(* ... or no claim is possible now, and the dispatch is to be deferred, ... *)
ClaimDeferred(c) ==
    /\ phase[c] = "RECEIVED"
    /\ Awaiting(delivery[c])
    /\ Saturated(delivery[c][1])
    /\ phase' = [phase EXCEPT ![c] = "DEFERRING"]
    /\ UNCHANGED <<taskVars, activeRuns, outboxVars, publisherVars, queue, delivery, attached, counters>>

(* ... or there is nothing to claim and the message is acknowledged. *)
ClaimStale(c) ==
    /\ phase[c] = "RECEIVED"
    /\ ~Awaiting(delivery[c])
    /\ Acknowledge(c)
    /\ UNCHANGED <<taskVars, activeRuns, outboxVars, publisherVars, counters>>

(* FOR UPDATE SKIP LOCKED names no table, so it also skips a task whose    *)
(* run or goal is locked: while a transaction of a sibling in another      *)
(* routing class has the row of the run, the answer is that there is       *)
(* nothing to claim.                                                       *)
ClaimSkipped(c) ==
    /\ phase[c] = "RECEIVED"
    /\ Awaiting(delivery[c])
    /\ ~Saturated(delivery[c][1])
    /\ Gap
    /\ Acknowledge(c)
    /\ UNCHANGED <<taskVars, activeRuns, outboxVars, publisherVars>>

(* deferPublishedDispatch accepts what has been recorded as published. *)
Deferrable(e) == row[e] = "PUBLISHED" /\ Current(e)

DeferDispatch(c) ==
    /\ phase[c] = "DEFERRING"
    /\ Deferrable(delivery[c])
    /\ Release({delivery[c]})
    /\ Acknowledge(c)
    /\ UNCHANGED <<taskVars, activeRuns, publisherVars, counters>>

DeferRefused(c) ==
    /\ phase[c] = "DEFERRING"
    /\ ~Deferrable(delivery[c])
    /\ Return(c)
    /\ UNCHANGED <<taskVars, activeRuns, outboxVars, publisherVars, counters>>

(* It was accepted, but the worker does not learn it. *)
DeferUnanswered(c) ==
    /\ phase[c] = "DEFERRING"
    /\ Deferrable(delivery[c])
    /\ Fault
    /\ Release({delivery[c]})
    /\ Return(c)
    /\ UNCHANGED <<taskVars, activeRuns, publisherVars>>

(* The execution reports how it ended, while it holds the lease ... *)
Settle(c, s) ==
    LET t == delivery[c][1] IN
    /\ phase[c] = "EXECUTING"
    /\ executor[t] = c
    /\ task[t] = "RUNNING"
    /\ Move(t, s)
    /\ executor' = [executor EXCEPT ![t] = NoConsumer]
    /\ phase' = [phase EXCEPT ![c] = "SETTLED"]
    /\ UNCHANGED <<activeRuns, publisherVars, queue, delivery, attached, counters>>

(* ... and is rejected when it does not: STALE_LEASE_TOKEN, nack. *)
SettleRejected(c) ==
    /\ phase[c] = "EXECUTING"
    /\ executor[delivery[c][1]] # c
    /\ Return(c)
    /\ UNCHANGED <<taskVars, activeRuns, outboxVars, publisherVars, counters>>

AcknowledgeSettled(c) ==
    /\ phase[c] = "SETTLED"
    /\ Acknowledge(c)
    /\ UNCHANGED <<taskVars, activeRuns, outboxVars, publisherVars, counters>>

(* A command fails and the message is refused, or the worker stops. *)
BreakOff(c) ==
    /\ phase[c] # "IDLE"
    /\ Fault
    /\ Return(c)
    /\ UNCHANGED <<taskVars, activeRuns, outboxVars, publisherVars>>

(* The connection closes under a delivery: the broker will deliver it      *)
(* again, the execution goes on.                                           *)
Disconnect(c) ==
    /\ c \in attached
    /\ Fault
    /\ queue' = [queue EXCEPT ![delivery[c]] = @ + 1]
    /\ attached' = attached \ {c}
    /\ UNCHANGED <<taskVars, activeRuns, outboxVars, publisherVars, phase, delivery>>

(* The queue is lost, or the time to live of a message ends. *)
LoseMessage(e) ==
    /\ queue[e] > 0
    /\ Gap
    /\ queue' = [queue EXCEPT ![e] = @ - 1]
    /\ UNCHANGED <<taskVars, activeRuns, outboxVars, publisherVars, consumerVars>>

-----------------------------------------------------------------------------
PublisherStep(p) ==
    \/ Reconcile(p)
    \/ ClaimDispatchBatch(p)
    \/ \E e \in Entry : Publish(p, e)
    \/ ConfirmDispatch(p)
    \/ LoseLease(p)

ConsumerStep(c) ==
    \/ ClaimById(c)
    \/ ClaimDeferred(c)
    \/ ClaimStale(c)
    \/ ClaimSkipped(c)
    \/ DeferDispatch(c)
    \/ DeferRefused(c)
    \/ \E s \in {"WAITING", "RUNNABLE", "ENDED"} : Settle(c, s)
    \/ SettleRejected(c)
    \/ AcknowledgeSettled(c)

Delivered(e) == \E c \in Consumer : Receive(c, e)

Disturbance ==
    \/ \E p \in Publisher : CrashPublisher(p) \/ \E e \in Entry : FailDispatch(p, e)
    \/ \E c \in Consumer : DeferUnanswered(c) \/ BreakOff(c) \/ Disconnect(c)
    \/ \E e \in Entry : LoseMessage(e)

Next ==
    \/ \E t \in Task : BecomeRunnable(t) \/ RecoverStale(t)
    \/ \E r \in Run : InterruptRun(r) \/ ResumeRun(r)
    \/ \E e \in Entry : TimePasses(e) \/ Delivered(e)
    \/ \E p \in Publisher : PublisherStep(p)
    \/ \E c \in Consumer : ConsumerStep(c)
    \/ ReconcileSession
    \/ Disturbance

Spec == Init /\ [][Next]_vars

(* Publishers loop, workers handle what they have received and executions  *)
(* end (tools have deadlines), clocks advance, and the broker, whose       *)
(* queues are served in order, does not pass over a task's messages for    *)
(* ever.                                                                   *)
FairSpec ==
    /\ Spec
    /\ \A p \in Publisher : WF_vars(PublisherStep(p))
    /\ \A c \in Consumer : WF_vars(ConsumerStep(c))
    /\ \A t \in Task : WF_vars(\E n \in 1..MaxRevision : TimePasses(<<t, n>>))
    /\ \A t \in Task : SF_vars(\E n \in 1..MaxRevision : Delivered(<<t, n>>))

-----------------------------------------------------------------------------
InFlight(e) == queue[e] > 0 \/ \E c \in attached : delivery[c] = e

(* As long as no message has been lost and no run interrupted, a task that *)
(* the outbox takes for delivered and that nobody has started has a        *)
(* message under way.  Confirmation, deferral, redelivery and the expiry   *)
(* of publication leases interleave without losing it (RBQ-002).           *)
PublishedIsInFlight ==
    gaps = 0 => \A e \in Entry : row[e] = "PUBLISHED" /\ Current(e) => InFlight(e)

(* However often a message is delivered, also while its first execution    *)
(* goes on after a broken connection, one revision of a task is executed   *)
(* once (RBQ-003).                                                         *)
OneExecutionPerRevision ==
    \A c, d \in Consumer :
        /\ phase[c] \in {"EXECUTING", "SETTLED"}
        /\ phase[d] \in {"EXECUTING", "SETTLED"}
        /\ delivery[c] = delivery[d]
        => c = d

(* Outbox, publishers, broker and consumers together implement the         *)
(* scheduler: they start what is runnable, in an active run, within the    *)
(* limits, and leave nothing runnable for ever (RBQ-001, RBQ-006).  The     *)
(* refinement mapping forgets rows, leases, messages and connections: the  *)
(* scheduler's variables are the two that the database would show.         *)
Scheduler == INSTANCE TaskScheduler WITH task <- task, activeRuns <- activeRuns
ImplementsScheduler == Scheduler!FairSpec

(* RBQ-001: a message is acknowledged without an execution only when its   *)
(* task is stale, ended or cancelled, not when it can be claimed.          *)
DropsOnlyStale ==
    [][\A c \in attached :
          phase[c] = "RECEIVED" /\ phase'[c] = "IDLE" /\ queue' = queue
          => ~Awaiting(delivery[c])]_vars

=============================================================================
