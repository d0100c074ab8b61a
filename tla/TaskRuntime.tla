---------------------------- MODULE TaskRuntime ----------------------------
(***************************************************************************)
(* The durable agent runtime: goals, runs, plan tasks, fan-out groups and  *)
(* the leases under which workers execute tasks.                           *)
(*                                                                         *)
(* Every action is one command of PostgresAgentRuntimeRepository, that is  *)
(* one database transaction.  A command that a worker sends carries the    *)
(* claim it was made under, so an action takes a task t and the number n   *)
(* of one of its claims, not necessarily the last one: delayed, repeated   *)
(* and orphaned commands are the commands of an older n.                   *)
(*                                                                         *)
(* Time is abstract: a lease may expire at any moment, a retry delay may   *)
(* take any time.  A task's revision is abstracted to the one question     *)
(* asked of it: does the dispatch outbox hold a row for the task's current *)
(* revision?                                                               *)
(***************************************************************************)
EXTENDS Naturals, FiniteSets

CONSTANTS
    Candidate, Goal, Run, Task, Group, Worker, RoutingClass,
    NoRun, NoWorker,
    CandidateOf,      \* [Goal -> Candidate]
    GoalOf,           \* [Run -> Goal]
    RunOf,            \* [Task -> Run]
    KeyOf,            \* [Task -> key]: task_key, or the identity of a shard
    ClassOf,          \* [Task -> RoutingClass]: routingClassForTool
    Requires,         \* [Task -> SUBSET Task]: agent_task_dependencies
    Before,           \* [Task -> SUBSET Task]: the tasks that precede in the plan
    ShardsOf,         \* [Group -> SUBSET Task]: what the coordinator will create
    CoordinatorOf,    \* [Group -> Task]
    JoinOf            \* [Group -> Task]

CONSTANTS
    EffectTask,       \* tasks whose tool is not read-only
    RecoverableTask,  \* tasks whose tool has a recovery artifact schema
    DriveTask,        \* tasks that may find that Drive must be reconnected
    DeferrableTask,   \* tasks whose adapter may answer RETRY_LATER
    NotificationTask, \* candidate.telegram/v1
    PublicationTask,  \* candidate.drive-publication/v1
    PollingWorker,    \* workers that poll `claim`; the others take deliveries
    MaxFailures,      \* [Task -> Nat]: MAX_ATTEMPTS_BY_TOOL
    AttemptLimit,     \* budget taskAttempts
    RequestLimit,     \* budget externalRequests
    MaxPerRun, MaxActivePool,
    MaxClaims,        \* bound of the model: claims of one task
    MaxRequests       \* bound of the model: requests to analyse one candidate

ASSUME ReferenceAssumption ==
    /\ CandidateOf \in [Goal -> Candidate]
    /\ GoalOf \in [Run -> Goal]
    /\ RunOf \in [Task -> Run]
    /\ ClassOf \in [Task -> RoutingClass]
    /\ Requires \in [Task -> SUBSET Task]
    /\ Before \in [Task -> SUBSET Task]
    /\ ShardsOf \in [Group -> SUBSET Task]
    /\ CoordinatorOf \in [Group -> Task]
    /\ JoinOf \in [Group -> Task]
    /\ \A special \in {EffectTask, RecoverableTask, DriveTask, DeferrableTask, NotificationTask,
                      PublicationTask} : special \subseteq Task
    /\ PollingWorker \subseteq Worker
    /\ NoRun \notin Run
    /\ NoWorker \notin Worker

(* A shard belongs to one group, and to the run of its coordinator. *)
ASSUME ShardAssumption ==
    /\ \A g \in Group : \A t \in ShardsOf[g] : RunOf[t] = RunOf[CoordinatorOf[g]]
    /\ \A g, h \in Group : g # h => ShardsOf[g] \intersect ShardsOf[h] = {}

(* The plan of a run is closed and ordered: a task depends on tasks of its *)
(* own run, and nothing depends on the notification, the last task.        *)
ASSUME PlanAssumption ==
    /\ \A t \in Task : /\ \A d \in Requires[t] : RunOf[d] = RunOf[t]
                       /\ Requires[t] \intersect NotificationTask = {}
    /\ \A t \in Task : \A u \in Before[t] :
          /\ RunOf[u] = RunOf[t] /\ Before[u] \subseteq Before[t]
          /\ \A g \in Group : u \notin ShardsOf[g]

(* A join depends on its coordinator and its shards, a shard on its        *)
(* coordinator and siblings, and no other task on a shard.                 *)
ASSUME FanoutAssumption ==
    \A g \in Group :
        /\ RunOf[JoinOf[g]] = RunOf[CoordinatorOf[g]]
        /\ JoinOf[g] \notin NotificationTask
        /\ \A h \in Group : JoinOf[g] \notin ShardsOf[h] /\ CoordinatorOf[g] \notin ShardsOf[h]
        /\ Requires[JoinOf[g]] = {CoordinatorOf[g]} \union ShardsOf[g]
        /\ \A t \in ShardsOf[g] : CoordinatorOf[g] \in Requires[t]
        /\ \A t \in Task : Requires[t] \intersect ShardsOf[g] # {} =>
              t = JoinOf[g] \/ t \in ShardsOf[g]

ASSUME LimitAssumption ==
    /\ MaxFailures \in [Task -> Nat \ {0}]
    /\ AttemptLimit \in Nat
    /\ RequestLimit \in Nat
    /\ MaxPerRun \in Nat
    /\ MaxActivePool \in Nat
    /\ MaxClaims \in Nat
    /\ MaxRequests \in Nat

VARIABLES
    taskState,        \* agent_tasks.state, ABSENT before the row exists
    dispatched,       \* tasks whose current revision has a dispatch row
    leaseOwner,       \* agent_tasks.lease_owner
    leaseToken,       \* agent_tasks.lease_token, always equal to attempt_count
    leaseExpired,     \* tasks whose lease_expires_at has passed
    attempt,          \* agent_attempts.state, by claim number
    attemptOwner,     \* agent_attempts.lease_owner, by claim number
    prepared,         \* claims with an external-effect-prepared checkpoint
    effect,           \* agent_outbox.state of the task's operation identity
    reused,           \* plan tasks with reused_from_task_id
    published,        \* claims whose execution has published the report
    groupState,       \* agent_fanout_groups.state
    runState,         \* agent_runs.state
    source,           \* agent_runs.recovery_source_run_id
    used,             \* taskAttempts consumed
    requests,         \* externalRequests consumed
    escalated,        \* runs with an OPEN escalation
    resuming,         \* OPEN escalations read by a reconnect not yet applied
    revoked,          \* runs whose tool grants are revoked
    goalState,        \* agent_goals.state
    candidateStatus,  \* status in candidates.record_json
    archived,         \* archived flag in candidates.record_json
    request,          \* which request for an analysis the candidate is at
    observed,         \* the request enqueue has read and not yet acted on, or 0
    triggeredBy,      \* agent_runs.trigger_identity: the request a run answers, or 0
    enqueued          \* runs created whose enqueue has not yet marked the candidate

leaseVars == <<leaseOwner, leaseToken, leaseExpired, attempt, attemptOwner>>
effectVars == <<prepared, effect, published>>
budgetVars == <<used, requests>>
humanVars == <<escalated, resuming, revoked, archived>>
originVars == <<reused, source, triggeredBy, request, observed, enqueued>>
goalVars == <<runState, goalState, candidateStatus>>
vars == <<taskState, dispatched, leaseVars, effectVars, budgetVars, humanVars,
          originVars, goalVars, groupState>>

TaskStates == {"ABSENT", "PENDING", "RUNNABLE", "RUNNING", "WAITING",
               "SUCCEEDED", "FAILED", "UNKNOWN_OUTCOME", "CANCELLED"}
Terminal == {"SUCCEEDED", "FAILED", "CANCELLED", "UNKNOWN_OUTCOME"}
AttemptStates == {"NONE", "RUNNING", "SUCCEEDED", "FAILED", "UNKNOWN_OUTCOME",
                  "DEFERRED", "WAITING_FOR_HUMAN"}
EffectStates == {"NONE", "PENDING", "SENT", "FAILED", "UNKNOWN_OUTCOME"}
GroupStates == {"ABSENT", "PLANNED", "RUNNING", "SUCCEEDED", "FAILED"}
RunStates == {"ABSENT", "ACTIVE", "WAITING_FOR_HUMAN", "SUCCEEDED", "FAILED", "PAUSED"}
GoalStates == {"ABSENT", "ACTIVE", "WAITING_FOR_HUMAN", "SUCCEEDED", "FAILED"}
CandidateStatuses == {"NEW", "WAITING_FOR_STABILITY", "ANALYZING", "READY", "FAILED", "WAITING_FOR_HUMAN"}
Claims == 1..MaxClaims

TypeOK ==
    /\ taskState \in [Task -> TaskStates]
    /\ dispatched \subseteq Task
    /\ leaseOwner \in [Task -> Worker \union {NoWorker}]
    /\ leaseToken \in [Task -> 0..MaxClaims]
    /\ leaseExpired \subseteq Task
    /\ attempt \in [Task -> [Claims -> AttemptStates]]
    /\ attemptOwner \in [Task -> [Claims -> Worker \union {NoWorker}]]
    /\ prepared \in [Task -> SUBSET Claims]
    /\ effect \in [Task -> EffectStates]
    /\ reused \subseteq Task
    /\ published \in [Task -> SUBSET Claims]
    /\ groupState \in [Group -> GroupStates]
    /\ runState \in [Run -> RunStates]
    /\ source \in [Run -> Run \union {NoRun}]
    /\ used \in [Run -> Nat]
    /\ requests \in [Run -> Nat]
    /\ escalated \subseteq Run
    /\ resuming \subseteq Run
    /\ revoked \subseteq Run
    /\ goalState \in [Goal -> GoalStates]
    /\ candidateStatus \in [Candidate -> CandidateStatuses]
    /\ archived \subseteq Candidate
    /\ request \in [Candidate -> Nat]
    /\ observed \in [Candidate -> Nat]
    /\ triggeredBy \in [Run -> Nat]
    /\ enqueued \subseteq Run

-----------------------------------------------------------------------------
(* The plan *)

Shard == UNION {ShardsOf[g] : g \in Group}
TasksOf(r) == {t \in Task : RunOf[t] = r}
PlanOf(r) == TasksOf(r) \ Shard
RunCandidate(r) == CandidateOf[GoalOf[r]]
CandidateRuns(c) == {r \in Run : RunCandidate(r) = c}
Joined(t, groups) == {g \in Group : JoinOf[g] = t /\ groups[g] # "ABSENT"}

(* Mutant: the rule of joins is applied to every task. *)
BlockedMut(t, states, groups) ==
    /\ \A g \in Joined(t, groups) : groups[g] # "FAILED"
    /\ \E d \in Requires[t] : states[d] # "ABSENT" /\ states[d] \notin Terminal

(***************************************************************************)
(* The predicate that promoteEligible, claim and claimById share: some     *)
(* dependency row holds the task back.  A join waits until its shards are  *)
(* terminal, and waits for nothing once its group has failed.              *)
(***************************************************************************)
Blocked(t, states, groups) ==
    /\ \A g \in Joined(t, groups) : groups[g] # "FAILED"
    /\ \E d \in Requires[t] :
          /\ states[d] # "ABSENT"
          /\ IF Joined(t, groups) # {} THEN states[d] \notin Terminal
                                       ELSE states[d] # "SUCCEEDED"

Promotable(r, states, groups) ==
    {t \in TasksOf(r) : states[t] = "PENDING" /\ ~Blocked(t, states, groups)}

Promoted(states, ready) ==
    [t \in Task |-> IF t \in ready THEN "RUNNABLE" ELSE states[t]]

AllSucceeded(r, states) ==
    \A t \in TasksOf(r) : states[t] \in {"ABSENT", "SUCCEEDED"}

(* The run succeeds with its last task. *)
Finished(r, states) == runState[r] = "ACTIVE" /\ AllSucceeded(r, states)

(* The claim a command names is the one the task's lease is held under. *)
Holds(t, n) ==
    /\ taskState[t] = "RUNNING"
    /\ leaseToken[t] = n
    /\ leaseOwner[t] = attemptOwner[t][n]

(* Mutant: the attempt is checked, the task's lease is not. *)
HoldsAttemptMut(t, n) == attempt[t][n] = "RUNNING"

(* ... and its attempt row is still open. *)
HoldsAttempt(t, n) == Holds(t, n) /\ attempt[t][n] = "RUNNING"

(* Mutant: the attempt row stays open. *)
SettleMut(t, n, result) ==
    /\ leaseOwner' = [leaseOwner EXCEPT ![t] = NoWorker]
    /\ leaseExpired' = leaseExpired \ {t}
    /\ UNCHANGED <<leaseToken, attempt, attemptOwner>>

(* The lease is given up and the attempt row of claim n closed. *)
Settle(t, n, result) ==
    /\ leaseOwner' = [leaseOwner EXCEPT ![t] = NoWorker]
    /\ leaseExpired' = leaseExpired \ {t}
    /\ attempt' = [attempt EXCEPT ![t][n] = result]
    /\ UNCHANGED <<leaseToken, attemptOwner>>

(* Mutant: the outbox row is left as it was prepared. *)
RecordEffectMut(t, result) == UNCHANGED effect

(* The operation's outbox row, if there is one, records the outcome. *)
RecordEffect(t, result) ==
    effect' = [effect EXCEPT ![t] = IF @ = "NONE" THEN "NONE" ELSE result]

-----------------------------------------------------------------------------
Init ==
    /\ taskState = [t \in Task |-> "ABSENT"]
    /\ dispatched = {}
    /\ leaseOwner = [t \in Task |-> NoWorker]
    /\ leaseToken = [t \in Task |-> 0]
    /\ leaseExpired = {}
    /\ attempt = [t \in Task |-> [n \in Claims |-> "NONE"]]
    /\ attemptOwner = [t \in Task |-> [n \in Claims |-> NoWorker]]
    /\ prepared = [t \in Task |-> {}]
    /\ effect = [t \in Task |-> "NONE"]
    /\ reused = {}
    /\ published = [t \in Task |-> {}]
    /\ groupState = [g \in Group |-> "ABSENT"]
    /\ runState = [r \in Run |-> "ABSENT"]
    /\ source = [r \in Run |-> NoRun]
    /\ used = [r \in Run |-> 0]
    /\ requests = [r \in Run |-> 0]
    /\ escalated = {}
    /\ resuming = {}
    /\ revoked = {}
    /\ goalState = [g \in Goal |-> "ABSENT"]
    /\ candidateStatus = [c \in Candidate |-> "NEW"]
    /\ archived = {}
    /\ request = [c \in Candidate |-> 1]
    /\ observed = [c \in Candidate |-> 0]
    /\ triggeredBy = [r \in Run |-> 0]
    /\ enqueued = {}

-----------------------------------------------------------------------------
(* Creating a run: enqueue of the discovery worker, which handles one      *)
(* candidate at a time and may stop between any two of its steps.          *)

AnswersTo(c, n) == {r \in CandidateRuns(c) : triggeredBy[r] = n}

(* enqueue reads the candidate, outside any transaction.  The first        *)
(* request is the candidate's discovery, the others are reprocessings.     *)
(* Once a discovery has its run, reading it again changes nothing.         *)
Observe(c) ==
    /\ \/ candidateStatus[c] = "NEW" /\ AnswersTo(c, request[c]) = {}
       \/ candidateStatus[c] = "WAITING_FOR_STABILITY"
    /\ observed[c] = 0
    /\ enqueued \intersect CandidateRuns(c) = {}
    /\ observed' = [observed EXCEPT ![c] = request[c]]
    /\ UNCHANGED <<taskState, dispatched, leaseVars, effectVars, budgetVars, humanVars, goalVars,
                   reused, source, triggeredBy, request, enqueued, groupState>>

(* The runs a new run of r's goal may recover from. *)
SettledRuns(r) ==
    {s \in Run : GoalOf[s] = GoalOf[r] /\ runState[s] \in {"FAILED", "SUCCEEDED"}}

Twin(t, s) == CHOOSE u \in TasksOf(s) : KeyOf[u] = KeyOf[t]

(* A result can be taken over when the task of the source run produced the *)
(* artifact itself: the artifact of a reused task is filed under an older  *)
(* run.                                                                    *)
Reusable(t, s) ==
    /\ t \in RecoverableTask
    /\ taskState[Twin(t, s)] = "SUCCEEDED"
    /\ Twin(t, s) \notin reused

(* Mutant: whatever can be taken over is, also behind the first gap. *)
ReusedPrefixMut(r, s) ==
    IF s = NoRun THEN {} ELSE {t \in PlanOf(r) : Reusable(t, s)}

(* The longest prefix of the plan whose results can be taken over. *)
ReusedPrefix(r, s) ==
    IF s = NoRun THEN {}
    ELSE {t \in PlanOf(r) : \A u \in Before[t] \union {t} : Reusable(u, s)}

(* In a recovery run only the first task after the prefix is released. *)
InitiallyRunnable(r, s) ==
    IF s = NoRun THEN {t \in PlanOf(r) : Requires[t] \ Shard = {}}
    ELSE {t \in PlanOf(r) \ ReusedPrefix(r, s) : Before[t] \subseteq ReusedPrefix(r, s)}

(* createGoal.  The most recently settled run of the goal is the source if *)
(* it failed; which one is the most recent is left open.                   *)
CreateGoal(r) ==
    LET c == RunCandidate(r) IN
    /\ runState[r] = "ABSENT"
    /\ observed[c] # 0
    /\ AnswersTo(c, observed[c]) = {}
    /\ \E last \in IF SettledRuns(r) = {} THEN {NoRun} ELSE SettledRuns(r) :
       LET src == IF last # NoRun /\ runState[last] = "FAILED" THEN last ELSE NoRun
           taken == ReusedPrefix(r, src)
           ready == InitiallyRunnable(r, src)
       IN  /\ taskState' = [t \in Task |->
                 IF t \notin PlanOf(r) THEN taskState[t]
                 ELSE IF t \in taken THEN "SUCCEEDED"
                 ELSE IF t \in ready THEN "RUNNABLE" ELSE "PENDING"]
           /\ dispatched' = dispatched \union ready
           /\ reused' = reused \union taken
           /\ source' = [source EXCEPT ![r] = src]
    /\ triggeredBy' = [triggeredBy EXCEPT ![r] = observed[c]]
    /\ observed' = [observed EXCEPT ![c] = 0]
    /\ enqueued' = enqueued \union {r}
    /\ runState' = [runState EXCEPT ![r] = "ACTIVE"]
    /\ goalState' = [goalState EXCEPT ![GoalOf[r]] = "ACTIVE"]
    /\ UNCHANGED <<leaseVars, effectVars, budgetVars, humanVars, groupState, candidateStatus,
                   request>>

(* enqueue marks the candidate after createGoal committed. *)
MarkAnalyzing(r) ==
    /\ r \in enqueued
    /\ enqueued' = enqueued \ {r}
    /\ candidateStatus' = [candidateStatus EXCEPT ![RunCandidate(r)] = "ANALYZING"]
    /\ UNCHANGED <<taskState, dispatched, leaseVars, effectVars, budgetVars, humanVars, runState,
                   goalState, reused, source, triggeredBy, request, observed, groupState>>

(* The reprocessing has its run already, from before a restart: createGoal *)
(* creates nothing, but the candidate is marked again.                     *)
RepeatEnqueue(c) ==
    /\ observed[c] # 0
    /\ AnswersTo(c, observed[c]) # {}
    /\ observed' = [observed EXCEPT ![c] = 0]
    /\ candidateStatus' = [candidateStatus EXCEPT ![c] = "ANALYZING"]
    /\ UNCHANGED <<taskState, dispatched, leaseVars, effectVars, budgetVars, humanVars, runState,
                   goalState, reused, source, triggeredBy, request, enqueued, groupState>>

(* The discovery worker stops and is started again. *)
RestartDiscovery ==
    /\ enqueued # {} \/ \E c \in Candidate : observed[c] # 0
    /\ enqueued' = {}
    /\ observed' = [c \in Candidate |-> 0]
    /\ UNCHANGED <<taskState, dispatched, leaseVars, effectVars, budgetVars, humanVars, goalVars,
                   reused, source, triggeredBy, request, groupState>>

-----------------------------------------------------------------------------
(* Claiming and holding a task *)

(* Mutant: the budget of task attempts is charged but not checked. *)
ClaimableMut(t) ==
    /\ taskState[t] = "RUNNABLE"
    /\ runState[RunOf[t]] = "ACTIVE"
    /\ ~Blocked(t, taskState, groupState)
    /\ leaseToken[t] < MaxClaims

Claimable(t) ==
    /\ taskState[t] = "RUNNABLE"
    /\ runState[RunOf[t]] = "ACTIVE"
    /\ ~Blocked(t, taskState, groupState)
    /\ used[RunOf[t]] < AttemptLimit
    /\ leaseToken[t] < MaxClaims

StartAttempt(t, w) ==
    LET n == leaseToken[t] + 1 IN
    /\ taskState' = [taskState EXCEPT ![t] = "RUNNING"]
    /\ dispatched' = dispatched \ {t}
    /\ leaseOwner' = [leaseOwner EXCEPT ![t] = w]
    /\ leaseToken' = [leaseToken EXCEPT ![t] = n]
    /\ leaseExpired' = leaseExpired \ {t}
    /\ attempt' = [attempt EXCEPT ![t][n] = "RUNNING"]
    /\ attemptOwner' = [attemptOwner EXCEPT ![t][n] = w]
    /\ used' = [used EXCEPT ![RunOf[t]] = @ + 1]
    /\ UNCHANGED <<effectVars, requests, humanVars, originVars, goalVars>>

(* claim: a polling worker takes any task it can. *)
Claim(t, w) ==
    /\ w \in PollingWorker
    /\ Claimable(t)
    /\ StartAttempt(t, w)
    /\ UNCHANGED groupState

RunningPeers(t) == {u \in Task : taskState[u] = "RUNNING" /\ ClassOf[u] = ClassOf[t]}

(* claimById: a worker takes the task of a delivery made for its current   *)
(* revision, within the limits on concurrent tasks of the routing class.   *)
ClaimById(t, w) ==
    /\ w \notin PollingWorker
    /\ t \in dispatched
    /\ Claimable(t)
    /\ Cardinality(RunningPeers(t) \intersect TasksOf(RunOf[t])) < MaxPerRun
    /\ Cardinality(RunningPeers(t)) < MaxActivePool
    /\ StartAttempt(t, w)
    /\ groupState' = [g \in Group |->
          IF t \in ShardsOf[g] /\ groupState[g] = "PLANNED" THEN "RUNNING" ELSE groupState[g]]

LeaseExpires(t) ==
    /\ taskState[t] = "RUNNING"
    /\ leaseExpired' = leaseExpired \union {t}
    /\ UNCHANGED <<taskState, dispatched, leaseOwner, leaseToken, attempt, attemptOwner,
                   effectVars, budgetVars, humanVars, originVars, goalVars, groupState>>

(* heartbeat renews a lease that is still held, expired or not. *)
Heartbeat(t, n) ==
    /\ Holds(t, n)
    /\ leaseExpired' = leaseExpired \ {t}
    /\ UNCHANGED <<taskState, dispatched, leaseOwner, leaseToken, attempt, attemptOwner,
                   effectVars, budgetVars, humanVars, originVars, goalVars, groupState>>

(* prepareExternalEffect, once per claim: the request is paid for and an   *)
(* effect that is not read-only gets its outbox row, once per task.        *)
PrepareEffect(t, n) ==
    /\ HoldsAttempt(t, n)
    /\ n \notin prepared[t]
    /\ RunOf[t] \notin revoked
    /\ requests[RunOf[t]] < RequestLimit
    /\ prepared' = [prepared EXCEPT ![t] = @ \union {n}]
    /\ requests' = [requests EXCEPT ![RunOf[t]] = @ + 1]
    /\ effect' = [effect EXCEPT ![t] =
          IF t \in EffectTask /\ @ = "NONE" THEN "PENDING" ELSE @]
    /\ UNCHANGED <<taskState, dispatched, leaseVars, published, used, humanVars,
                   originVars, goalVars, groupState>>

-----------------------------------------------------------------------------
(* What a tool does to the runtime while it executes *)

(* materializeFanout, called by a coordinator.  Whoever holds the lease,   *)
(* the coordinator need only be running; shards whose twin succeeded in    *)
(* the recovery source may be taken over.                                  *)
ReusableShards(g) ==
    LET s == source[RunOf[CoordinatorOf[g]]] IN
    IF s = NoRun THEN {}
    ELSE {t \in ShardsOf[g] : \E u \in TasksOf(s) : KeyOf[u] = KeyOf[t] /\ taskState[u] = "SUCCEEDED"}

MaterializeFanout(g) ==
    LET r == RunOf[CoordinatorOf[g]] IN
    /\ prepared[CoordinatorOf[g]] # {}
    /\ taskState[CoordinatorOf[g]] = "RUNNING"
    /\ runState[r] = "ACTIVE"
    /\ taskState[JoinOf[g]] \in {"PENDING", "RUNNABLE"}
    /\ groupState[g] = "ABSENT"
    /\ \E taken \in SUBSET ReusableShards(g) :
          taskState' = [t \in Task |->
              IF t \notin ShardsOf[g] THEN taskState[t]
              ELSE IF t \in taken THEN "SUCCEEDED" ELSE "PENDING"]
    /\ groupState' = [groupState EXCEPT ![g] = "PLANNED"]
    /\ UNCHANGED <<dispatched, leaseVars, effectVars, budgetVars, humanVars, originVars, goalVars>>

(* completeFanout, called by a join once it has read every shard. *)
CompleteFanout(g) ==
    /\ prepared[JoinOf[g]] # {}
    /\ groupState[g] \notin {"ABSENT", "SUCCEEDED"}
    /\ \A t \in ShardsOf[g] : taskState[t] = "SUCCEEDED"
    /\ groupState' = [groupState EXCEPT ![g] = "SUCCEEDED"]
    /\ UNCHANGED <<taskState, dispatched, leaseVars, effectVars, budgetVars, humanVars,
                   originVars, goalVars>>

(* The publication tool marks the report version and the candidate.  It    *)
(* runs once per claim and checks its grant before the Drive upload,       *)
(* nothing after it: losing the lease does not stop it, nor does a worker  *)
(* that gave up waiting and reported a failure.                            *)
PublishReport(t, n) ==
    /\ t \in PublicationTask
    /\ n \in prepared[t] \ published[t]
    /\ attempt[t][n] # "WAITING_FOR_HUMAN"
    /\ published' = [published EXCEPT ![t] = @ \union {n}]
    /\ candidateStatus' = [candidateStatus EXCEPT ![RunCandidate(RunOf[t])] = "READY"]
    /\ UNCHANGED <<taskState, dispatched, leaseVars, prepared, effect, budgetVars, humanVars,
                   originVars, runState, goalState, groupState>>

-----------------------------------------------------------------------------
(* Outcomes *)

(* Mutant: a join answers without having read its shards. *)
ToolFinishedMut(t, n) ==
    /\ \A g \in Group : CoordinatorOf[g] = t => groupState[g] # "ABSENT"
    /\ t \in PublicationTask => n \in published[t]

(* The tool answers SUCCEEDED only after its own writes to the runtime. *)
ToolFinished(t, n) ==
    /\ \A g \in Group : /\ CoordinatorOf[g] = t => groupState[g] # "ABSENT"
                        /\ JoinOf[g] = t => groupState[g] = "SUCCEEDED"
    /\ t \in PublicationTask => n \in published[t]

(* outcome SUCCEEDED: dependants are released, and the run and its goal    *)
(* succeed with their last task.                                           *)
Complete(t, n) ==
    LET r == RunOf[t]
        done == [taskState EXCEPT ![t] = "SUCCEEDED"]
        ready == Promotable(r, done, groupState)
        finished == Finished(r, Promoted(done, ready))
    IN  /\ HoldsAttempt(t, n)
        /\ n \in prepared[t]
        /\ ToolFinished(t, n)
        /\ taskState' = Promoted(done, ready)
        /\ dispatched' = dispatched \union ready
        /\ Settle(t, n, "SUCCEEDED")
        /\ RecordEffect(t, "SENT")
        /\ runState' = [runState EXCEPT ![r] = IF finished THEN "SUCCEEDED" ELSE @]
        /\ goalState' = [goalState EXCEPT ![GoalOf[r]] =
              IF finished /\ @ = "ACTIVE" THEN "SUCCEEDED" ELSE @]
        /\ UNCHANGED <<prepared, published, budgetVars, humanVars, originVars, groupState,
                       candidateStatus>>

FailureCount(t) == Cardinality({n \in Claims : attempt[t][n] = "FAILED"}) + 1

(* Mutant: the task is runnable again but nothing delivers it. *)
FailAndRetryMut(t, n) ==
    /\ HoldsAttempt(t, n)
    /\ FailureCount(t) < MaxFailures[t]
    /\ taskState' = [taskState EXCEPT ![t] = "RUNNABLE"]
    /\ Settle(t, n, "FAILED")
    /\ RecordEffect(t, "FAILED")
    /\ UNCHANGED <<dispatched, prepared, published, budgetVars, humanVars, originVars, goalVars,
                   groupState>>

(* outcome FAILED of a transient error, while taskFailurePolicy retries. *)
FailAndRetry(t, n) ==
    /\ HoldsAttempt(t, n)
    /\ FailureCount(t) < MaxFailures[t]
    /\ taskState' = [taskState EXCEPT ![t] = "RUNNABLE"]
    /\ dispatched' = dispatched \union {t}
    /\ Settle(t, n, "FAILED")
    /\ RecordEffect(t, "FAILED")
    /\ UNCHANGED <<prepared, published, budgetVars, humanVars, originVars, goalVars, groupState>>

(* Mutant: the group fails but its join is not released. *)
FailShardMut(t, n) ==
    /\ HoldsAttempt(t, n)
    /\ t \in Shard
    /\ taskState' = [taskState EXCEPT ![t] = "FAILED"]
    /\ groupState' = [g \in Group |-> IF t \in ShardsOf[g] THEN "FAILED" ELSE groupState[g]]
    /\ Settle(t, n, "FAILED")
    /\ RecordEffect(t, "FAILED")
    /\ UNCHANGED <<dispatched, prepared, published, budgetVars, humanVars, originVars, goalVars>>

(* outcome FAILED, permanent or out of retries, of a shard: its group      *)
(* fails, which releases the join.                                         *)
FailShard(t, n) ==
    LET failed == [taskState EXCEPT ![t] = "FAILED"]
        groups == [g \in Group |->
            IF t \in ShardsOf[g] /\ groupState[g] \in {"PLANNED", "RUNNING"}
            THEN "FAILED" ELSE groupState[g]]
        ready == Promotable(RunOf[t], failed, groups)
    IN  /\ HoldsAttempt(t, n)
        /\ t \in Shard
        /\ taskState' = Promoted(failed, ready)
        /\ dispatched' = dispatched \union ready
        /\ groupState' = groups
        /\ Settle(t, n, "FAILED")
        /\ RecordEffect(t, "FAILED")
        /\ UNCHANGED <<prepared, published, budgetVars, humanVars, originVars, goalVars>>

(* outcome FAILED, permanent or out of retries, of a plan task: the run    *)
(* fails; the goal too unless another run of it is active.                 *)
FailPlanTask(t, n) ==
    LET r == RunOf[t]
        failed == [runState EXCEPT ![r] = IF @ = "ACTIVE" THEN "FAILED" ELSE @]
        others == {s \in Run \ {r} : GoalOf[s] = GoalOf[r] /\ failed[s] = "ACTIVE"}
    IN  /\ HoldsAttempt(t, n)
        /\ t \notin Shard
        /\ taskState' = [taskState EXCEPT ![t] = "FAILED"]
        /\ Settle(t, n, "FAILED")
        /\ RecordEffect(t, "FAILED")
        /\ runState' = failed
        /\ goalState' = [goalState EXCEPT ![GoalOf[r]] =
              IF @ = "ACTIVE" /\ others = {} THEN "FAILED" ELSE @]
        /\ candidateStatus' = [candidateStatus EXCEPT ![RunCandidate(r)] = "FAILED"]
        /\ UNCHANGED <<dispatched, prepared, published, budgetVars, humanVars, originVars, groupState>>

(* outcome UNKNOWN_OUTCOME; only the notification tool answers so. *)
ReportUnknown(t, n) ==
    /\ HoldsAttempt(t, n)
    /\ t \in NotificationTask
    /\ n \in prepared[t]
    /\ taskState' = [taskState EXCEPT ![t] = "UNKNOWN_OUTCOME"]
    /\ Settle(t, n, "UNKNOWN_OUTCOME")
    /\ RecordEffect(t, "UNKNOWN_OUTCOME")
    /\ UNCHANGED <<dispatched, prepared, published, budgetVars, humanVars, originVars, goalVars,
                   groupState>>

(* defer: the task becomes runnable again and its attempt is refunded. *)
Defer(t, n) ==
    /\ HoldsAttempt(t, n)
    /\ t \in DeferrableTask
    /\ n \in prepared[t]
    /\ taskState' = [taskState EXCEPT ![t] = "RUNNABLE"]
    /\ dispatched' = dispatched \union {t}
    /\ Settle(t, n, "DEFERRED")
    /\ used' = [used EXCEPT ![RunOf[t]] = IF @ > 0 THEN @ - 1 ELSE 0]
    /\ UNCHANGED <<effectVars, requests, humanVars, originVars, goalVars, groupState>>

(* promoteEligible, as the consumer calls it after every outcome. *)
Promote(r) ==
    LET ready == Promotable(r, taskState, groupState) IN
    /\ ready # {}
    /\ taskState' = Promoted(taskState, ready)
    /\ dispatched' = dispatched \union ready
    /\ UNCHANGED <<leaseVars, effectVars, budgetVars, humanVars, originVars, goalVars, groupState>>

-----------------------------------------------------------------------------
(* Waiting for a human *)

(* waitForHuman: Drive must be reconnected.  While the run already has an  *)
(* open escalation for this obstacle the command changes nothing.          *)
WaitForHuman(t, n) ==
    LET r == RunOf[t] IN
    /\ Holds(t, n)
    /\ t \in DriveTask
    /\ n \in prepared[t]
    /\ r \notin escalated
    /\ taskState' = [taskState EXCEPT ![t] = "WAITING"]
    /\ Settle(t, n, "WAITING_FOR_HUMAN")
    /\ escalated' = escalated \union {r}
    /\ runState' = [runState EXCEPT ![r] = IF @ = "ACTIVE" THEN "WAITING_FOR_HUMAN" ELSE @]
    /\ goalState' = [goalState EXCEPT ![GoalOf[r]] =
          IF @ = "ACTIVE" THEN "WAITING_FOR_HUMAN" ELSE @]
    /\ candidateStatus' = [candidateStatus EXCEPT ![RunCandidate(r)] = "WAITING_FOR_HUMAN"]
    /\ UNCHANGED <<dispatched, effectVars, budgetVars, resuming, revoked, archived,
                   originVars, groupState>>

(* resumeGoogleDriveRuns first reads the waiting runs, outside a transaction ... *)
ReadEscalations ==
    LET waiting == {r \in escalated : runState[r] = "WAITING_FOR_HUMAN"} IN
    /\ ~(waiting \subseteq resuming)
    /\ resuming' = resuming \union waiting
    /\ UNCHANGED <<taskState, dispatched, leaseVars, effectVars, budgetVars, escalated,
                   revoked, archived, originVars, goalVars, groupState>>

(* ... then resumes each of them, if its escalation is still open. *)
ResumeRun(r) ==
    LET waiting == {t \in TasksOf(r) : taskState[t] = "WAITING"}
        uncertain == {t \in waiting : effect[t] = "UNKNOWN_OUTCOME"}
    IN  /\ r \in resuming
        /\ resuming' = resuming \ {r}
        /\ escalated' = escalated \ {r}
        /\ taskState' = [t \in Task |->
              IF t \in uncertain THEN "UNKNOWN_OUTCOME"
              ELSE IF t \in waiting THEN "RUNNABLE" ELSE taskState[t]]
        /\ dispatched' = dispatched \union (waiting \ uncertain)
        /\ runState' = [runState EXCEPT ![r] = IF @ = "WAITING_FOR_HUMAN" THEN "ACTIVE" ELSE @]
        /\ goalState' = [goalState EXCEPT ![GoalOf[r]] =
              IF @ = "WAITING_FOR_HUMAN" THEN "ACTIVE" ELSE @]
        /\ candidateStatus' = [candidateStatus EXCEPT ![RunCandidate(r)] = "ANALYZING"]
        /\ UNCHANGED <<leaseVars, effectVars, budgetVars, revoked, archived, originVars, groupState>>

(* Mutant: the escalation is closed, the run is not resumed. *)
ResolveEscalationMut(r) ==
    /\ r \in escalated
    /\ escalated' = escalated \ {r}
    /\ resuming' = resuming \ {r}
    /\ UNCHANGED <<taskState, dispatched, leaseVars, effectVars, budgetVars, revoked, archived,
                   originVars, goalVars, groupState>>

(* Mutant: the run is made active whatever became of it. *)
ReactivateMut(r) ==
    /\ r \in escalated
    /\ escalated' = escalated \ {r}
    /\ resuming' = resuming \ {r}
    /\ runState' = [runState EXCEPT ![r] = "ACTIVE"]
    /\ candidateStatus' = [candidateStatus EXCEPT ![RunCandidate(r)] = "ANALYZING"]
    /\ UNCHANGED <<taskState, dispatched, leaseVars, effectVars, budgetVars, revoked, archived,
                   originVars, goalState, groupState>>

(* resolveEscalation with the one action that is ever offered, which does  *)
(* not change the immutable inputs: a reconnect that read the escalation   *)
(* before will find it closed.                                             *)
ResolveEscalation(r) ==
    /\ r \in escalated
    /\ escalated' = escalated \ {r}
    /\ resuming' = resuming \ {r}
    /\ runState' = [runState EXCEPT ![r] = IF @ = "WAITING_FOR_HUMAN" THEN "ACTIVE" ELSE @]
    /\ candidateStatus' = [candidateStatus EXCEPT ![RunCandidate(r)] = "ANALYZING"]
    /\ UNCHANGED <<taskState, dispatched, leaseVars, effectVars, budgetVars, revoked, archived,
                   originVars, goalState, groupState>>

(* commitCandidate with the audit action reprocess.  A candidate is marked *)
(* FAILED together with the note that its retries are exhausted.           *)
Reprocess(c) ==
    /\ c \notin archived
    /\ candidateStatus[c] \in {"READY", "FAILED"}
    /\ request[c] < MaxRequests
    /\ request' = [request EXCEPT ![c] = @ + 1]
    /\ candidateStatus' = [candidateStatus EXCEPT ![c] = "WAITING_FOR_STABILITY"]
    /\ UNCHANGED <<taskState, dispatched, leaseVars, effectVars, budgetVars, humanVars, runState,
                   goalState, reused, source, triggeredBy, observed, enqueued, groupState>>

(* commitCandidate with the audit action archive, open to a candidate that *)
(* is not being processed.                                                 *)
Archive(c) ==
    LET runs == CandidateRuns(c)
        cancelled == {t \in Task : RunOf[t] \in runs /\
            taskState[t] \in {"PENDING", "RUNNABLE", "RUNNING", "WAITING", "UNKNOWN_OUTCOME"}}
    IN  /\ c \notin archived
        /\ candidateStatus[c] \notin {"WAITING_FOR_STABILITY", "ANALYZING"}
        /\ archived' = archived \union {c}
        /\ taskState' = [t \in Task |-> IF t \in cancelled THEN "CANCELLED" ELSE taskState[t]]
        /\ dispatched' = dispatched \ cancelled
        /\ leaseOwner' = [t \in Task |-> IF t \in cancelled THEN NoWorker ELSE leaseOwner[t]]
        /\ leaseExpired' = leaseExpired \ cancelled
        /\ revoked' = revoked \union {r \in runs : runState[r] # "ABSENT"}
        /\ runState' = [r \in Run |->
              IF r \in runs /\ runState[r] \in {"ACTIVE", "WAITING_FOR_HUMAN"}
              THEN "PAUSED" ELSE runState[r]]
        /\ UNCHANGED <<leaseToken, attempt, attemptOwner, effectVars, budgetVars, escalated,
                       resuming, originVars, goalState, candidateStatus, groupState>>

Restore(c) ==
    /\ c \in archived
    /\ archived' = archived \ {c}
    /\ UNCHANGED <<taskState, dispatched, leaseVars, effectVars, budgetVars, escalated,
                   resuming, revoked, originVars, goalVars, groupState>>

-----------------------------------------------------------------------------
(* Recovery *)

(* recoverStale is one transaction over every active run, in three parts.  *)
Live == {t \in Task : runState[RunOf[t]] = "ACTIVE"}

(* First, an uncertain notification counts as delivered once the report is *)
(* published, ...                                                          *)
Notified ==
    {t \in Live \intersect NotificationTask :
        /\ taskState[t] = "UNKNOWN_OUTCOME"
        /\ \E p \in PublicationTask \intersect TasksOf(RunOf[t]) : taskState[p] = "SUCCEEDED"}

Delivered == [t \in Task |-> IF t \in Notified THEN "SUCCEEDED" ELSE taskState[t]]

(* ... then expired leases are taken back, ... *)
Stale ==
    {t \in Live : \/ Delivered[t] = "RUNNING" /\ t \in leaseExpired
                  \/ Delivered[t] = "UNKNOWN_OUTCOME" /\ effect[t] = "NONE"}

Uncertain == {t \in Stale : effect[t] = "UNKNOWN_OUTCOME"}

Recovered ==
    [t \in Task |-> IF t \in Uncertain THEN "UNKNOWN_OUTCOME"
                    ELSE IF t \in Stale THEN "RUNNABLE" ELSE Delivered[t]]

(* ... and runs are promoted that have the join of a failed group pending. *)
LateJoins ==
    {t \in Live : /\ \E g \in Joined(t, groupState) : groupState[g] = "FAILED"
                  /\ Recovered[t] = "PENDING"}

Released == UNION {Promotable(RunOf[t], Recovered, groupState) : t \in LateJoins}

RecoverStale ==
    LET finished == {RunOf[t] : t \in {u \in Notified : Finished(RunOf[u], Delivered)}}
    IN  /\ Notified \union Stale \union Released # {}
        /\ taskState' = Promoted(Recovered, Released)
        /\ dispatched' = dispatched \union (Stale \ Uncertain) \union Released
        /\ leaseOwner' = [t \in Task |->
              IF t \in Notified \union Stale THEN NoWorker ELSE leaseOwner[t]]
        /\ leaseExpired' = leaseExpired \ (Notified \union Stale)
        /\ attempt' = [t \in Task |-> [n \in Claims |->
              IF t \in Stale /\ attempt[t][n] = "RUNNING"
              THEN IF t \in Uncertain THEN "UNKNOWN_OUTCOME" ELSE "FAILED"
              ELSE attempt[t][n]]]
        /\ runState' = [r \in Run |-> IF r \in finished THEN "SUCCEEDED" ELSE runState[r]]
        /\ goalState' = [g \in Goal |->
              IF goalState[g] = "ACTIVE" /\ \E r \in finished : GoalOf[r] = g
              THEN "SUCCEEDED" ELSE goalState[g]]
        /\ UNCHANGED <<leaseToken, attemptOwner, effectVars, budgetVars, humanVars, originVars,
                       groupState, candidateStatus>>

-----------------------------------------------------------------------------
WorkerCommand(t, n) ==
    \/ Heartbeat(t, n)
    \/ PrepareEffect(t, n)
    \/ PublishReport(t, n)
    \/ Complete(t, n)
    \/ FailAndRetry(t, n)
    \/ FailShard(t, n)
    \/ FailPlanTask(t, n)
    \/ ReportUnknown(t, n)
    \/ Defer(t, n)
    \/ WaitForHuman(t, n)

Next ==
    \/ \E c \in Candidate : Observe(c) \/ RepeatEnqueue(c)
    \/ \E r \in Run : CreateGoal(r) \/ MarkAnalyzing(r)
    \/ RestartDiscovery
    \/ \E r \in Run : Promote(r) \/ ResumeRun(r) \/ ResolveEscalation(r)
    \/ \E t \in Task, w \in Worker : Claim(t, w) \/ ClaimById(t, w)
    \/ \E t \in Task : LeaseExpires(t)
    \/ \E t \in Task, n \in Claims : WorkerCommand(t, n)
    \/ \E g \in Group : MaterializeFanout(g) \/ CompleteFanout(g)
    \/ ReadEscalations
    \/ \E c \in Candidate : Reprocess(c) \/ Archive(c) \/ Restore(c)
    \/ RecoverStale

Spec == Init /\ [][Next]_vars

(***************************************************************************)
(* Fairness.  A lease that nobody ends runs out, the publisher's periodic  *)
(* recovery meets an expired lease sooner or later even if late heartbeats *)
(* keep reviving it, and if tasks can be claimed again and again one of    *)
(* them is claimed, whichever: a claim uses up budget, so that the others  *)
(* get their turn.  Nothing is assumed of the worker that made a claim: it *)
(* may stop at any point.                                                  *)
(***************************************************************************)
ClaimSome(t) == \E w \in Worker : Claim(t, w) \/ ClaimById(t, w)

FairSpec ==
    /\ Spec
    /\ \A t \in Task : WF_vars(LeaseExpires(t))
    /\ SF_vars(\E t \in Task : ClaimSome(t))
    /\ SF_vars(RecoverStale)

-----------------------------------------------------------------------------
(* Properties *)

(* A task that was started had its dependencies met, and still has: every  *)
(* required task succeeded, or it is the join of a failed group, or of a   *)
(* coordinator that failed after it had created the group.  This is the    *)
(* promise of Blocked, which is evaluated at promotion and at claim while  *)
(* the states it reads keep changing.                                      *)
StartedAfterDependencies ==
    \A t \in Task : leaseToken[t] > 0 =>
        \/ \A d \in Requires[t] : taskState[d] \in {"ABSENT", "SUCCEEDED"}
        \/ \E g \in Joined(t, groupState) :
              groupState[g] = "FAILED" \/ taskState[CoordinatorOf[g]] = "FAILED"

(* A join never delivers a result from fewer shards than its group has,    *)
(* unless the result was taken over from the source run.                   *)
JoinCoversGroup ==
    \A g \in Group : taskState[JoinOf[g]] = "SUCCEEDED" /\ JoinOf[g] \notin reused =>
        \A t \in ShardsOf[g] : taskState[t] = "SUCCEEDED"

(* At most one attempt of a task is open, and it is the one of the current *)
(* lease: retries, recoveries and waits never leave a second open attempt  *)
(* behind.  Only archiving leaves the row open, of a task that is over.    *)
LeaseExclusive ==
    \A t \in Task :
        /\ \A n \in Claims : attempt[t][n] = "RUNNING" =>
              n = leaseToken[t] /\ taskState[t] \in {"RUNNING", "CANCELLED"}
        /\ taskState[t] = "RUNNING" =>
              /\ leaseToken[t] \in Claims
              /\ attempt[t][leaseToken[t]] = "RUNNING"
              /\ attemptOwner[t][leaseToken[t]] = leaseOwner[t]

(* What makes LeaseExclusive inductive: tasks have rows only once their    *)
(* run, or their group, has; and no attempt is numbered beyond the token.  *)
RowsExist ==
    /\ \A t \in Task : runState[RunOf[t]] = "ABSENT" => taskState[t] = "ABSENT"
    /\ \A g \in Group : groupState[g] = "ABSENT" =>
          \A t \in ShardsOf[g] : taskState[t] = "ABSENT"

FreshClaims ==
    \A t \in Task, n \in Claims : n > leaseToken[t] => attempt[t][n] = "NONE"

(* The attempts of a run that count against its budget. *)
SpentAttempts(r) ==
    {p \in TasksOf(r) \X Claims : attempt[p[1]][p[2]] \notin {"NONE", "DEFERRED"}}

(* The ledger of task attempts is exactly the attempts that were not       *)
(* deferred, over all claims, refunds and recoveries, and never exceeds    *)
(* the limit of the run.                                                   *)
BudgetLedger ==
    \A r \in Run : used[r] = Cardinality(SpentAttempts(r)) /\ used[r] <= AttemptLimit

(* No runnable task is without a dispatch row of its current revision,     *)
(* whichever command made it runnable: deliveries would never reach it.    *)
RunnableIsDispatched ==
    \A t \in Task : taskState[t] = "RUNNABLE" => t \in dispatched

(* No wake-up is lost: a task of an active run that nothing blocks is not  *)
(* left pending.  A recovery run is excepted, it releases its boundary     *)
(* task alone, and so is a run that was resumed although a plan task of it *)
(* had failed while it waited for a human.                                 *)
NoLostPromotion ==
    \A r \in Run :
        /\ runState[r] = "ACTIVE" /\ source[r] = NoRun
        /\ \A t \in PlanOf(r) : taskState[t] # "FAILED"
        => Promotable(r, taskState, groupState) = {}

(* A succeeded task with an external effect has the effect on record as    *)
(* sent, or as uncertain for a notification, whichever attempt did it.     *)
SuccessHasEffect ==
    \A t \in EffectTask : taskState[t] = "SUCCEEDED" =>
        \/ effect[t] = "SENT"
        \/ t \in NotificationTask /\ effect[t] = "UNKNOWN_OUTCOME"
        \/ leaseToken[t] = 0

(* A run that waits for a human can be resumed: its escalation is open and *)
(* one of its tasks waits for it, whatever the sibling tasks did since.    *)
WaitingRunIsResumable ==
    \A r \in Run : runState[r] = "WAITING_FOR_HUMAN" =>
        r \in escalated /\ \E t \in TasksOf(r) : taskState[t] = "WAITING"

(* No late, repeated or orphaned command reopens a finished attempt or a   *)
(* finished task (postgres-runtime-repository.ts:418).                     *)
SettledTasks ==
    [][\A t \in Task :
         /\ \A n \in Claims :
               attempt[t][n] \notin {"NONE", "RUNNING"} => attempt'[t][n] = attempt[t][n]
         /\ taskState[t] \in {"SUCCEEDED", "FAILED", "CANCELLED"} => taskState'[t] = taskState[t]]_vars

(* Nor does any command make a run go on that has ended or that archiving  *)
(* has paused (postgres-runtime-repository.ts:634).                        *)
SettledRunsStay ==
    [][\A r \in Run :
         runState[r] \in {"SUCCEEDED", "FAILED", "PAUSED"} => runState'[r] = runState[r]]_vars

(* Every run comes to a point where it is not active, has used up a budget *)
(* or waits for a person, also after its escalation was closed by hand     *)
(* (see ActiveRunWaitsForNobody).  Excepted is a run that was resumed      *)
(* although a plan task of it had failed while it waited, which fails      *)
(* active runs only (postgres-runtime-repository.ts:444): it stays active, *)
(* but gets as far as it can without that task (see FailedTaskEndsRun).    *)
RunEndsOrRunsDry ==
    \A r \in Run : []<>
       (\/ runState[r] # "ACTIVE"
        \/ used[r] >= AttemptLimit \/ requests[r] >= RequestLimit
        \/ \E t \in TasksOf(r) : taskState[t] = "WAITING"
        \/ /\ \E t \in PlanOf(r) : taskState[t] = "FAILED"
           /\ \A t \in TasksOf(r) : taskState[t] \notin {"RUNNABLE", "RUNNING"})

(* A result taken over from the source run is never computed again, and    *)
(* what is taken over is complete: a recovery run starts behind it.        *)
ReusedNeverRuns ==
    \A t \in reused : /\ taskState[t] = "SUCCEEDED" /\ leaseToken[t] = 0
                      /\ \A u \in Before[t] : u \in reused

-----------------------------------------------------------------------------
(* Promises of the requirements that the code does not keep.  Each has a   *)
(* .cfg of its own, which shows a counterexample and is not one of the     *)
(* runs.                                                                   *)

(* AGT-013: a human decision that keeps the inputs resumes the same run    *)
(* and its dependent task; no task of an active run waits for a human.     *)
ActiveRunWaitsForNobody ==
    \A t \in Task : taskState[t] = "WAITING" => runState[RunOf[t]] # "ACTIVE"

(* AGT-004: a lease that ran out frees its task for a recovery claim. *)
ExpiredLeaseIsFreed ==
    \A t \in Task : taskState[t] = "RUNNING" /\ t \in leaseExpired ~>
        taskState[t] # "RUNNING" \/ t \notin leaseExpired

(* WF-020: when the attempts are exhausted the candidate becomes FAILED;   *)
(* it does not look busy while the run of its request has failed.          *)
FailureIsShown ==
    \A c \in Candidate : candidateStatus[c] = "ANALYZING" =>
        \A r \in AnswersTo(c, request[c]) : runState[r] # "FAILED"

(* WF-020: a stage that has used up its attempts makes the candidate       *)
(* FAILED, for good: no run goes on with a plan task that has failed.      *)
FailedTaskEndsRun ==
    \A r \in Run : runState[r] = "ACTIVE" => \A t \in PlanOf(r) : taskState[t] # "FAILED"

(* WF-035: after a reprocessing was confirmed an earlier READY is not shown *)
(* again before the run of that request has published.                     *)
ReadyIsCurrent ==
    \A c \in Candidate : candidateStatus[c] = "READY" =>
        \E t \in PublicationTask :
            published[t] # {} /\ RunOf[t] \in AnswersTo(c, request[c])

=============================================================================
