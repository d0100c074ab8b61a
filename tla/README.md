# Verification of the candidate screening runtime

This directory holds TLA+ models of the service in `src/web` that analyses
candidates: a PostgreSQL-backed agent runtime hands the tasks of a plan to
workers over RabbitMQ, survives their crashes, waits for people when it must,
and publishes a report to Google Drive. TLC checks the models on small
instances; TLAPS proves what matters most for every instance.

- `TaskRuntime.tla` the runtime: runs, tasks, fan-outs, leases, budgets, escalations, recovery
- `DispatchOutbox.tla` the way of a runnable task to a worker: outbox rows, publishers, broker, deliveries
- `TaskScheduler.tla` what that way promises, without outbox and broker
- `WorkerLease.tla` an execution inside a worker: its clock, its heartbeats, the lease it believes in
- `DriveConnection.tla` the connection to Google Drive: refreshes, reconnections, withdrawn grants
- `Publication.tla` the publishing task: folders and a file made once on the Drive
- `Notifications.tla` deliveries to Telegram, sent at most once
- `CandidateIntake.tla` from a folder to a run: registration, stability, inputs, commands of a user
- `MatrixCompilation.tla` the matrix of a profile, which the runs of all its candidates share
- `CandidateAnalysis.tla` the stages of an analysis and what a recovery takes over from a failed run
- `VacancyProfile.tla` profiles of vacancies: their editing, and what a run takes of them
- `MCTaskRuntime.tla`, `MCDispatchOutbox.tla`, `MCVacancyProfile.tla` and the `.cfg` files: the instances for TLC
  (a module without an MC module has constants that a `.cfg` can give directly)
- `TaskRuntimeProofs.tla`, `DispatchOutboxProofs.tla`, `WorkerLeaseProofs.tla`,
  `VacancyProfileProofs.tla`, `MatrixCompilationProofs.tla`, `NotificationsProofs.tla`,
  `PublicationProofs.tla` (with `DriveConnection`), `CandidateProofs.tla`
  (`CandidateAnalysis` and `CandidateIntake`) the theorems

## The system

Paths are relative to `src/web/server` unless they start with `app/`.

| component | source | state | operations |
|---|---|---|---|
| runtime repository | `agent-runtime/postgres-runtime-repository.ts` | goals, runs, tasks, dependencies, attempts, fan-out groups, budgets, grants, checkpoints, effect outbox, dispatch outbox, escalations | createGoal, materializeFanout, completeFanout, claim, claimById, heartbeat, prepareExternalEffect, outcome, defer, waitForHuman, resumeGoogleDriveRuns, resolveEscalation, recoverStale, promote, and the dispatch outbox |
| consumer | `agent-runtime/consumer.ts` | the lease a worker believes in, its abort signals | claim, heartbeat, execute a tool, report |
| dispatch publisher, broker session | `agent-runtime/rabbitmq.ts`, `rabbitmq-worker.ts`, `rabbitmq-contracts.ts` | publication leases, unconfirmed messages, deliveries in flight | publish, confirm, redeliver, acknowledge, drain |
| in-memory runtime | `agent-runtime/runtime.ts`, `registry.ts` | the same as the repository, in maps | the same, for conformance tests |
| plan | `candidate-pipeline/goal.ts`, `recovery-contracts.ts` | constants | - |
| tools | `candidate-pipeline/tool-executor.ts`, `production-runtime.ts` | reports, artifacts, the candidate's status | fan out, join, publish, notify |
| discovery | `candidate-pipeline/production-discovery.ts`, `discovery.ts`, `discovery-worker.ts`, `core.ts` | observations of folders, reconciled triggers | scan, compare, enqueue |
| notifications | `candidate-pipeline/notifications.ts` | delivery records | send, reconcile |
| Drive connection | `google-drive-oauth/` | tokens, connection state | connect, refresh, disconnect |
| vacancy matrix | `candidate-pipeline/matrix-compilation.ts`, `matrix-postgres-repository.ts` | the compilation of a profile, the published matrix | claim, publish, fail, read |
| vacancy profiles | `app/api/vacancies/*/route.ts`, `product/postgres-repository.ts`, `candidate-pipeline/postgres-discovery.ts` | vacancies, versions of their profiles, the vacancy of a folder | save, archive, restore, delete, register |
| artifacts | `candidate-pipeline/artifact-store.ts`, `storage/blob-store.ts` | blobs, memory entries and their references, report versions | put, note, find the latest |
| product | `product/application.ts`, `product/postgres-repository.ts`, `app/product-model.ts` | candidates, with a revision each | archive, restore, delete, reprocess |
| capabilities, reports | `candidate-pipeline/matrix-driven.ts`, `transcript-claim-batching.ts`, `assessment-join.ts`, `reports.ts`, `llm/` | none | pure transformations around one provider call |
| authentication, storage, processors, UI | `auth/`, `storage/`, `document-processor/`, `app/` | sessions | - |

The discovery worker sees a folder unchanged three times and creates a run. The
repository makes tasks runnable and writes a row for each into the dispatch
outbox in the same transaction. The publisher sends the rows to RabbitMQ, a
worker claims the task of a delivery, renews its lease while the tool works and
reports the outcome, which makes dependent tasks runnable. A coordinator task
creates a group of shards and a join waits for them. A tool that finds Drive
disconnected makes the run wait for a human. The publisher process also calls
`recoverStale` periodically, which takes tasks back from workers that vanished.
Beside all this a user archives, restores and reprocesses candidates.

What is hard about it: every participant may crash between two commands, a
worker's lease may run out while it works and its commands arrive late; tasks of
one run finish, fail and escalate side by side; a human decision, a reconnect of
Drive and an archiving meet a run in any state; and the candidate's status,
which the user sees, is written by four different parties. `PROJECT.json` lists
the hazards at their lines.

What makes each part correct:

- runtime: one open attempt per lease; nothing that is settled is reopened; a
  task starts after what it depends on; what is runnable is dispatched; a join
  covers its group; the ledger equals the attempts; a run succeeds exactly with
  its last task; every run ends unless it waits for a human, has run dry or was
  resumed after a plan task of it had failed (findings 1 and 16);
- dispatch: every runnable task is delivered in the end, however publishers
  crash; two deliveries of one revision start one attempt;
- consumer: no outcome is reported by a worker that knows its lease is lost;
- discovery: one run per stable input, none for an input that still changes;
- notifications: a message is never sent twice knowingly;
- Drive connection: concurrent refreshes do not disconnect a good connection;
- product: no update of a record is lost;
- vacancy matrix: one matrix per profile, and no run waits for ever for it;
- artifacts: what a stage has read stays as it was read; a recovery mixes no
  two analyses; a run publishes its own report;
- vacancy profiles: nothing that was saved is overwritten, and a run has the
  prompt of the version it names.

## TaskRuntime

One action is one command, that is one database transaction: the repository
takes row locks and, before it looks at siblings, the advisory lock of the run
(`nextSequence`), so that two outcomes of one run are serialised. Commands of a
worker take the task `t` and the claim number `n` they were made under. `n` may
be any claim, not only the last one: this is how late, repeated and orphaned
commands enter the model. A worker that crashes is one that sends nothing more.

| variables | rows |
|---|---|
| `taskState`, `leaseOwner`, `leaseToken`, `leaseExpired` | `agent_tasks` |
| `attempt`, `attemptOwner` | `agent_attempts`, by claim number, which is both the attempt number and the fencing token |
| `dispatched` | whether `agent_dispatch_outbox` has a row for the task's current revision |
| `prepared`, `effect` | checkpoints `external-effect-prepared`, state of the row in `agent_outbox` |
| `groupState` | `agent_fanout_groups` |
| `runState`, `source`, `triggeredBy` | `agent_runs` |
| `used`, `requests` | `agent_budget_ledger` for task attempts and external requests |
| `escalated`, `resuming` | open escalations; those a reconnect has read but not yet applied |
| `revoked` | runs whose tool grants are revoked |
| `goalState`, `candidateStatus`, `archived` | `agent_goals`, `candidates.record_json` |
| `request`, `observed`, `enqueued` | the analysis the candidate is asked for; what `enqueue` of the discovery worker has read or has left to do |
| `published` | claims whose execution marked the report as published |

Abstractions. Time: a lease may expire at any moment, and a retry delay may take
any time. The plan is a constant. A group is materialised once; a descriptor is
not compared. Results of shards may or may not match those of a recovery source,
so any subset of the succeeded twins may be taken over. Which of a goal's settled
runs is the most recent is left open. The deadline of a tool is not modelled: a
tool may answer after its worker reported a failure. Error codes are reduced to
transient (`FailAndRetry`) and permanent or exhausted (`FailShard`,
`FailPlanTask`). A task with the state UNKNOWN_OUTCOME arises only from the
notification tool, the one tool that answers so. A goal is reached only through
the folder it was discovered in, so one candidate and one goal suffice for the
interactions modelled. Escalations are those of a missing Drive connection, the
only ones any code opens; the branch of `resolveEscalation` for actions that
change the inputs is left out because no such action is ever inserted. Tools
that have neither an effect on the runtime nor an external effect are just
prepared and settled.

External: the broker and Drive are visible only through the commands they lead to.

### Properties

Safety, as invariants: `StartedAfterDependencies`, `JoinCoversGroup`,
`LeaseExclusive`, `BudgetLedger`, `RunnableIsDispatched`, `NoLostPromotion`,
`SuccessHasEffect`, `WaitingRunIsResumable`, `ReusedNeverRuns`; the type
invariant, `TypeOK`, is proved, so that no run repeats it. What a step may never
do: `SettledTasks` (neither a task nor an attempt that is settled is opened
again), `SettledRunsStay`. Liveness: `RunEndsOrRunsDry`. Each is stated and
explained in the module.

Fairness (`FairSpec`). A lease nobody renews runs out (weak fairness of
`LeaseExpires`). The publisher calls `recoverStale` in a loop, but a late
heartbeat may revive an expired lease, so strong fairness says that the loop
meets an expired lease sooner or later (a heartbeat is sent by a live execution,
which is bounded by the tool's deadline). A claim may be impossible for a while,
when pools are full: strong fairness of claiming says that while there are again
and again tasks to claim, one of them is claimed; the broker redelivers, and
`reconcileDispatch` adds missing rows. Which one is left open: each claim uses up
budget, and so the others get their turn. Nothing is assumed of the worker once
it has claimed: it may vanish before every command.

`RunEndsOrRunsDry` is weaker than one would like, because the code lets three
kinds of runs stay active. One has used up its budget. One has a task that waits,
since its escalation was closed by hand (finding 1). And one was resumed although
a plan task of it had failed while it waited (finding 16); of that one the
property says no more than that all it can do without the failed task gets done.
`NoLostPromotion` excepts the last kind too.

## DispatchOutbox

`TaskRuntime` knows of the dispatch only whether a runnable task has an outbox
row. `DispatchOutbox` begins there: how the row becomes a message and the message
an execution. It has one action per database transaction or call to the broker;
between any two of them another process may act. An entry is a pair of task and
revision, the key of an outbox row and the content of a message.

| variables | code |
|---|---|
| `task`, `revision`, `executor`, `activeRuns` | `agent_tasks.state` (WAITING stands for all states that may become runnable), `.revision`, the holder of the lease, the runs in the state ACTIVE |
| `row`, `owner`, `overdue` | `agent_task_dispatch_outbox.state`, `.publish_owner`, rows whose `publish_lease_until` or republication time has passed |
| `stage`, `batch`, `current` | where `RabbitDispatchPublisher.runOnce` is, the entries it has claimed, the one the broker has accepted and it has not yet recorded |
| `queue` | copies of a message that wait in the broker |
| `phase`, `delivery`, `attached` | where `RabbitTaskWorker.processMessage` is, its message, and whether the broker still waits for its acknowledgement |

A publisher reconciles (`reconcileDispatch`), claims a batch, and for each entry
publishes and confirms; an error ends the round and leaves the rest of the batch
to its lease. A consumer is one place in the prefetch window of a worker with a
connection of its own, together with the execution it started. It claims, defers,
acknowledges or returns its message as `processMessage` does. When the connection
breaks (`Disconnect`), the broker delivers the message again although the
execution goes on; what the worker sends for the old delivery afterwards has no
effect.

Abstractions. Leases and republication times may run out at any moment, which
includes clocks that disagree; back-off and retry delays take any time, so
`available_at` is left out and with it the deferral RABBIT_TASK_NOT_YET_AVAILABLE.
Dependencies and budgets of a runnable task are those of `TaskRuntime`: they hold
here. Heartbeats, which raise the revision of a running task, are left out; no
row or message names a revision in which a task is running. One routing class is
modelled, since a class has its own queue and its own limits; what other classes
do shows as a locked run (`ClaimSkipped`) and as steps of tasks. Invalid envelopes
and dead letters are lost messages. The claim by polling, which the RabbitMQ
worker does not use, is part of `TaskRuntime` only. After a broken connection the
acknowledgement of the old delivery throws in the worker; that this may end the
process is covered by `BreakOff` of its other deliveries.

`MaxFaults` bounds crashes, broken connections and lost answers; `MaxGaps` the
steps that may drop the message of a runnable task: lost queues, interrupted runs
(whose messages are acknowledged as stale and come back by republication) and
skipped claims.

`TaskScheduler` is the abstract specification: tasks become runnable, are started
within the limits of their run and the pool, and end; each is started in the end
if there is room (`FairSpec`). `ImplementsScheduler` says that `DispatchOutbox`
implements it, with the variables of the same name as refinement mapping.

Properties: `TypeOK` (proved), `PublishedIsInFlight`, `OneExecutionPerRevision`,
`ImplementsScheduler`; `DropsOnlyStale` is violated (finding 6).

Fairness (`FairSpec`). Publishers loop, and a worker handles what it has received
(calls to the broker, the database and the runtime API end, if only with an
error when the connection is given up, and tools have deadlines): weak fairness of each. Clocks advance: weak fairness of
`TimePasses`, per task. The broker serves a queue in order, so that it does not
pass over the messages of a task for ever: strong fairness of delivery, per task,
because consumers are busy in between. Nothing is assumed of faults, of people,
or of tasks becoming runnable; without faults in the end (`MaxFaults` and
`MaxGaps` are finite) nothing could be promised.

## WorkerLease

`TaskRuntime` lets a command arrive under any claim. `WorkerLease` shows which
commands a worker really sends: `executeClaimedTask` of `consumer.ts`, await by
await, for several claims of one task, named by their fencing tokens.

| variables | code |
|---|---|
| `taskState`, `leaseToken`, `leaseLeft` | `agent_tasks.state`, `.lease_token`, the time until `.lease_expires_at` |
| `phase`, `aborted`, `confirmed` | where the execution is, the reason of its `AbortController`, the time until `confirmedUntil` |
| `interval`, `pending`, `answer` | the heartbeat interval, the age of the request in `pendingHeartbeat`, its answer |
| `beats`, `command` | heartbeats and the outcome that are on their way to the repository |

`Tick` lets one unit of time pass for everybody: the worker and the database are
assumed to agree on the length of a second, not on the time of day. A heartbeat
takes effect at most `HeartbeatDelay` after it was sent or never; the worker
counts its confirmed time from the request, the repository from the time in it.
An execution may stop anywhere (`Vanish`), be shut down (`Stop`), or find its
lease lost by the expiry timer, a refused heartbeat or `assertOwnership`.

Properties: `LiveExecutionHoldsLease` (who still works has the lease),
`NoSpuriousAbort`, `ZombieStops`. Fairness: time passes, and what a worker does
by itself happens. `LiveExecutionHoldsLease` needs `HeartbeatDelay <
HeartbeatEvery`: an old heartbeat that arrives after a newer one shortens the
lease in the repository, not in the worker.

## DriveConnection

| variables | code |
|---|---|
| `state`, `token`, `owner`, `id` | the row of `google_drive_oauth_connections` |
| `current` | readers whose row nobody has written since (the compared revision) |
| `held`, `provider`, `cached` | `DurableGoogleAccessTokenProvider` of a worker: the token it has read, where it is, its cache |
| `waiting` | whether the worker's run waits for a human |
| `phase`, `grant`, `account`, `target` | an authorisation from `start` to the end of the callback |
| `alive`, `issued` | external: what Google accepts |

One action per database statement or call to Google. Rotation keeps the old
refresh token good, as Google does, so a token is named by its grant; an error
that is not `invalid_grant` is `BreakOff`. Left out: encryption, the state and
PKCE of the protocol (an operation's state is consumed once), and the folder
listing.

Properties: `GoodGrantStays`, `DisconnectedStays` and the liveness `LostGrantIsNoticed`, under fairness of a worker's refresh (a scheduler
comes back to a task until its run waits) and requests that are not broken off
for ever.

## Publication

The tool `candidate.drive-publication/v1`: executions of one task, named by
fencing tokens, over `adapters.drive.reconcile` and `publishPdf` of
`production-runtime.ts` and `ensureFolder` and `putFile` of
`my-drive-adapter.ts`. Every call to Google or the database is an action, and an
execution may crash, lose its lease or lose an answer at each.

| variables | code |
|---|---|
| `taskState`, `lease`, `claims` | `agent_tasks`, as far as the task needs it |
| `step`, `item`, `parent`, `seen` | where an execution is, which of the two folders and the file it makes, where, and what it has found |
| `drive` | external: the objects Google has; `late` remembers that the request arrived without the lease |
| `registered` | `google_drive_registered_objects`, unique per operation identity |
| `document`, `version`, `candidate` | `candidate_report_documents.drive_file_id`, `candidate_report_versions.state`, the candidate's status |

Google's search is taken to be consistent: it finds what was created before it.
A version has one document, so that the comparison of the counts before a version
is published comes down to whether that document has its file.

Properties: `SameObjects`, `CopiesAreLate`, `PublishedHasFile`.

## Notifications

The tool `candidate.telegram/v1` with `registerTelegramEvent` and
`PostgresNotificationStore`: an execution registers a delivery for each
recipient and then dispatches whatever is due, its own or not.

| variables | code |
|---|---|
| `taskState`, `lease` | the task of each event |
| `step`, `event`, `recipient`, `todo`, `due`, `result` | where an execution is and what it has in memory |
| `state`, `attempts`, `later` | `candidate_notification_deliveries`; `later` holds those whose `next_attempt_at_utc` is not reached |
| `accepted` | external: messages Telegram has taken |

The statements before the first claim are one action, since nothing that another
execution does between them makes a difference that their order cannot make.

Properties: `AtMostOnce`, `SettledStays`, `TaskEnds`. Fairness: workers take up
tasks and go on, time passes, executions are not broken off for ever.

## CandidateIntake

Both ticks of the discovery worker for one folder, restarts of the worker
between any two steps, and the lifecycle commands of a user, each with its read
and its commit apart. Left out are the status writes of an escalation and its end
(`waitForHuman`, `resumeGoogleDriveRuns`, `resolveEscalation`): they raise the
revision, so that a command that has read the candidate before them is refused
like after any other write. So is the set of triggers the worker remembers as
reconciled, which saves it the repetition of an `enqueue` that changes nothing.

| variables | code |
|---|---|
| `folder` | external: what the folder holds |
| `tombstone`, `exists`, `status`, `archived`, `revision`, `inputs` | `candidate_drive_folder_tombstones`, `candidates`, `candidate_input_versions` |
| `started` | of the candidate's runs: trigger, content, state |
| `register`, `watched`, `last`, `count`, `observed`, `fresh`, `enqueue`, `row` | the discovery worker's memory: where it is, `StabilityTracker`, what it has read |
| `command`, `captured` | what a command has read; which commands the observation was made under |
| `listed`, `streak`, `current` (in `started`) | history variables of the properties |

Properties: `InputIsStable`, `OneRunPerRequest`, `CommandKeepsStatus` and the
liveness `RequestIsServed`, under fairness of both ticks and without endless
restarts. `ArchivedIsLeftAlone` is violated.

## MatrixCompilation

The tool `candidate.matrix-compile/v1`: `compileVacancyMatrix` over
`PostgresVacancyMatrixRepository`, call by call, for the runs of several
candidates of one profile, each with the retries of its compiling task.

| variables | code |
|---|---|
| `compilation`, `leased` | the row of `vacancy_matrix_compilations` (state, owner, fencing token) and whether its lease is not over |
| `matrix` | the row of `vacancy_matrices`, named by the claim it was compiled under |
| `taskState`, `cause`, `holder`, `failures`, `active` | the compiling task of each run, the error it failed with, the execution that holds its lease, its failed attempts, the runs no other task has failed |
| `step`, `token`, `got`, `warned`, `error` | where an execution is: its claim, the matrix it has, its warning, its error |
| `runRef` | the artifact that says which matrix a run uses |

An execution runs on after it has lost its task (`Lose`); its successor is
another slot of the run. The compiler and its critic answer, fail for a while or
fail for good. The canonical form of a matrix and the progress of a compilation
(which nobody records) are left out. `ClaimCompilation` is one step. In the code
the SELECT of the first claim has no row to lock, and of two runs that insert the
row at once (`matrix-postgres-repository.ts:20-23`) the second fails with the
database's error, where the model lets it wait; it has no claim, publishes
nothing, and its run ends in another way.

Properties: `MatrixIsClaimants`, `SharedMatrix`, and the liveness `EveryRunEnds`.
Fairness: workers claim what is due, an execution that holds its lease goes on
(the LLM's calls have deadlines), and the lease of a compilation ends. Nothing is
assumed of an execution without a lease. `OvertakenRunsWait` is violated.

## CandidateAnalysis

The tools between the frozen evidence and the published report, reduced to the
artifacts they read and write, over up to three runs of one goal, each a recovery
of the failed one before it; in the sequential workflow and in the parallel one.

| variables | code |
|---|---|
| `parallel`, `state`, `source` | `agent_runs`: workflow version, state, `recovery_source_run_id` |
| `output`, `planned` | the artifact a task has succeeded with, its own or a reused one; fan-out groups |
| `noted`, `refs` | `agent_memory_entries`, and the `agent_artifact_refs` they have |
| `content` | `artifact_blobs`: which execution wrote an artifact and what it had read |
| `versions` | `candidate_report_versions`, and whether the document is on the Drive |
| `execution`, `holder`, `losses` | what workers do, and who holds the lease of the run's task |

An artifact is named by run and stage, as the storage key of the code names it,
and no two answers of an LLM are equal. `content` therefore tells two executions
of one task apart, and `reads` shows what each was made from. `Lineage`,
`LatestArtifact` and `ArtifactsFor` are the queries of `production-runtime.ts`,
which differ: the first looks for the nearest run with a reference, the last for
the nearest run with an entry, which may have none, since a reference is unique
per artifact. Evidence stands for everything before it, a recommendation for the
chain that ends with it, a shard for all those of its group. `Store` is one step:
the blob and its reference are two transactions in the code
(`production-runtime.ts:524-535`, `605-622`), and a join without an LLM that is
stored again has equal bytes and succeeds there, where the model counts a
conflict. A new run is created when no other one of the goal is active; in the
code the run before it may still have its notification task to do, which reads
nothing that is modelled here.

Properties: `InputsStay`, `SnapshotIsCoherent`, `ResultIsFound`,
`PublishedIsOwn`. `OwnReportIsPublished` and `JoinsMatch` are violated. No
fairness: all are safety properties.

## VacancyProfile

| variables | code |
|---|---|
| `vacancy`, `versions` | `vacancies.record_json` (version, profile, revision of the field prompts, archived), `vacancy_profile_versions` |
| `page` | an open page of the editor: what it expects, and the record its request has read |
| `saved`, `prompted` | history variables: what the pages have saved |
| `folder` | external: the vacancy in whose folder the candidate's folder is |
| `home`, `bound`, `tombstone` | the candidate's `vacancyId`, `candidate_drive_folders.vacancy_folder_id`, the folder's tombstone |
| `register`, `enqueue` | what the discovery worker has read: the active vacancies, the tombstone; the vacancy and its version |
| `run`, `strayed` | `agent_goals.profile_version` and `agent_runs.analysis_prompt` of a run; history: runs whose tools have read another profile |

A request of a page is a read, a comparison with what the page shows, and a
write that is conditional on the record that was read; lifecycle commands lock
the record in one transaction. A profile is named by the page that wrote it. An
audit entry that cannot be written after a save (`profile/route.ts:38`,
`prompts/route.ts:49`) makes the page hear 503; the model counts it as saved,
which asks more of `SavedIsKept`.

Properties: `SavedIsKept`, `PromptIsPinned`. `RulesArePinned`,
`RunIsForItsVacancy` and `CandidateHasVacancy` are violated.

### Runs

| run | instance | question |
|---|---|---|
| `fanout` | one run of one of two shapes: coordinator, two dependent shards, of which the first may find Drive disconnected, and join; or a plan task and two that depend on it, of which one may find Drive disconnected while the other fails; one worker; five attempts and claims; fair | do dependencies, wake-ups, dispatch rows and leases survive retries, lost leases, late commands and escalations, can a waiting run be resumed, does what is settled stay settled, and does every active run end, stop for a human, run dry or get as far as a failed task lets it? |
| `recovery` | two runs of one goal, the second a reprocessing, with archiving; publication, which may wait for Drive, and notification with uncertain outcomes; a polling worker; three attempts, one claim per task | does a recovery run repeat or skip work, is success ever recorded without the effect, does the ledger agree with the attempts, and does what has ended stay ended? |
| `dispatch` | one task, two publishers, two consumers, five revisions, one fault, symmetric | with duplicates, expired publication leases, recoveries and a crash at any point: is a published task always under way, and is a revision executed once? |
| `outage` | two tasks competing for one place in their run, one publisher, one consumer, two faults, one loss, fair | does the dispatch implement the scheduler, also when its queue is lost or its run interrupted? |
| `heartbeat` | two claims, a lease of four ticks, a heartbeat every two, at most one tick under way; fair | does a working execution have its lease, is it told only the truth, and does it end? |
| `drive` | two workers, two authorisations, two accounts, two grants; fair | does a race of refreshes, a disconnection or a late refusal damage a good connection? |
| `publish` | three executions, five objects | are folders and files made once, and has what is published its file? |
| `notify` | two events, one recipient, two executions, two attempts; fair | does a message go out twice, and do the tasks end? |
| `intake` | two contents, one of them complete, one command at a time, two runs, four revisions; fair | is an input stable, does a request make one run, and is it served? |
| `matrix` | two runs, one lost execution, two failures per task; fair | is one matrix published and shared, whoever is overtaken, and does nobody wait for ever? |
| `analysis` | three runs, of which two may be parallel, one execution that goes on without its lease | do inputs stay, do rows, verification and recommendation belong together, is every result found, and does a run publish its own report? |
| `profile` | two pages on one of two vacancies, two versions, one revision of the field prompts, one run; symmetric | is anything overwritten that was saved, and has a run the prompt of its version? |

A disagreement that is known is kept as a property and a `.cfg` that shows its
counterexample; the list below names them. They are not repeated in the runs,
which ask whether the rest of the system is right.

Bounds. `MaxClaims` bounds the claims of one task; two make a late command
possible, and `fanout` has as many claims as the budget allows, so that
the bound never stops a run; `recovery` asks about the second run and does with
one claim per task. `MaxRequests` bounds reprocessings; one creates the
race between an old and a new run. The budget limits (`AttemptLimit`,
`RequestLimit`) are small enough to be hit in both runs. Pools
and runs are small because the interactions modelled are those of tasks that
share a dependency, a group or a run; three or four tasks have each of them.
In `fanout` the plan is `FanoutShape` for one run and `BranchShape` for the
other (`EitherShape`), and the one request creates one of them. A chain such as
the first has no plan task that could fail while another one waits; the second
has, and five attempts let everything else of the run be done afterwards: without
its last disjunct `RunEndsOrRunsDry` is violated there.
Deadlock is not checked for `TaskRuntime`: a system whose runs have ended, or wait
for a person that never comes, really stops. It is checked for `DispatchOutbox`,
whose publishers never stop looking for work.

In `dispatch`, `MaxRevision` leaves room for a claim, a recovery and a second
claim, which is what a late delivery and a second execution need; two publishers
are needed for a lease that is lost to another one, two consumers for a
redelivery beside a running execution. `MaxCopies` stops republication while that
many copies wait; duplicates arise below the bound. The pool there never defers a
single task, which is what the second task of `outage` is for. One fault at any
point is enough there. In `outage` a deferral whose answer is lost needs two: the
only consumer must have broken off the execution that fills the run.

In `heartbeat` a lease of four ticks is the smallest that lets a heartbeat be
lost and the next one save the lease; two claims give a holder and a zombie. In
`publish` the third execution meets what two others have left, and five objects
are one more copy than three items with one late request each can need before
the publication is refused. In `notify` two attempts (three in the code) let an
attempt be repeated and be the last. In `intake` the content that is not complete
is the one in between; a second run needs a second request, and `MaxRevision`
leaves room for a command on every status. In `matrix` two runs are a compiler
and one that waits; a lost execution gives a third claimant, and two failures a
retry. In `analysis` the third run recovers a run that has itself taken results
over, which is where lineages of more than one step begin; parallel workflows
reuse shards only, and two runs suffice for them. In `profile` two pages on one
vacancy conflict, the second vacancy is there for the folder to move to, and two
versions are the one a run names and the one after it; `profile` checks deadlock,
since pages are opened and closed for ever. The other systems may stop, at the
latest at their bounds, so deadlock is not checked there.

### Findings

1. `resolveEscalation` activates the run but leaves its task waiting, and no
   other command looks for it. Reconnecting Drive resumes both
   (`ActiveRunWaitsForNobody`, `resolve_leaves_waiting.cfg`).
2. `enqueue` of the discovery reads whether the candidate is archived and does
   not use it: a folder that changes after the archiving starts a run
   (`ArchivedIsLeftAlone`, `archived_candidate_runs.cfg`).
3. `recoverStale` frees expired leases of active runs only. If the worker dies
   after a sibling task has failed or escalated the run, its task stays RUNNING
   and keeps counting against the pool of its routing class
   (`ExpiredLeaseIsFreed`, `expired_lease_stuck.cfg`).
4. `enqueue` marks the candidate ANALYZING in a transaction after the one that
   creates the run. A run that fails in between is shown as being analysed, and
   the candidate can be neither archived nor reprocessed (`FailureIsShown`,
   `failure_overwritten.cfg`).
5. `publishPdf` sets READY unconditionally, also when the publication belongs to
   the run before the reprocessing a user has just asked for. The reprocessing,
   which `enqueue` finds by the status WAITING_FOR_STABILITY, is then lost too
   (`ReadyIsCurrent`, `stale_ready.cfg`).
6. `FOR UPDATE SKIP LOCKED` in `claimById` names no table, so it also skips a task
   whose run or goal row is locked, say by a claim or an outcome of a sibling in
   another routing class. No reason for a deferral applies, the answer is null,
   and the worker acknowledges the message as if it were stale. The task is
   started all the same, as `outage` shows, but only after the republication
   time, five minutes by default (`DropsOnlyStale`, `skipped_claim.cfg`).
7. A run escalated after the reconnection has looked for waiting runs keeps
   waiting although Drive is connected (`WaitEndsWithReconnect`, DriveConnection).
8. The reconciliation of a publication returns SUCCEEDED as soon as the document
   has its file; after a crash between recording the file and publishing the
   version nobody does the rest (`SucceededIsPublished`, `published_not_ready.cfg`).
   Two copies under one operation identity, of which none is registered, block
   the publication for good, and the second one fails the listing of the folder.
9. A notification task succeeds while another task's retry of its delivery is
   pending: claiming sets `next_attempt_at_utc` to now, so that another tool's
   reconciliation may fail a delivery that is being sent, and UNKNOWN or FAILED is
   an answer like SENT. `manualRetry` has no caller, and WAITING_CONFIGURATION is
   unreachable (`NothingLeftPending`, `notification_lost.cfg`).
10. A run whose compilation of the matrix was taken over fails with
   STALE_FENCING_TOKEN, which is not retried, instead of waiting for the matrix
   (`OvertakenRunsWait`, `stale_compiler.cfg`). The requirement
   (`openspec/changes/implement-matrix-driven-candidate-assessment/specs/candidate-workflow/spec.md:41-43`):
   a run whose profile's matrix is still being compiled waits for that matrix.
11. The number of the next report version is read before the rendering and used
   after it, in an INSERT that does nothing on a conflict. If an execution
   without a lease has taken it meanwhile, the reconciliation of a later recovery
   finds and publishes the older report (`OwnReportIsPublished`,
   `stale_report.cfg`).
12. A recovery in the parallel workflow reuses row shards of the failed run by
   their identity and fingerprint, neither of which names the evidence, and joins
   them with evidence of its own (`JoinsMatch`, `mixed_evidence.cfg`), although
   `openspec/changes/add-rabbitmq-parallel-candidate-pipeline/tasks.md:76` asks
   for one frozen evidence fingerprint.
13. A run pins the prompt of the profile version it names, but its tools read the
   profile through `vacancyContext`, as it is now (`RulesArePinned`,
   `stale_rules.cfg`). VAC-002 (`openspec/specs/vacancy-profile/spec.md:17-18`) and
   ASM-006 (`openspec/specs/assessment-and-evidence/spec.md:49-50`) say that later
   changes must not change the rules of a run that was started.
14. A folder that is moved below another vacancy keeps its candidate there, but
   `register` stores the new vacancy's folder, `enqueue` names that one's version,
   and `createGoal` looks this version up among those of the old vacancy
   (`RunIsForItsVacancy`, `moved_folder.cfg`; TST-017,
   `openspec/specs/quality-gates/spec.md:129`: moving a folder does not change the
   vacancy).
15. `register` reads the vacancies once and inserts candidates afterwards: one
   that is deleted in between gets a candidate that no deletion will reach
   (`CandidateHasVacancy`, `orphan_candidate.cfg`).
16. A plan task that fails for good while its run waits for a human does not fail
    the run, since `outcome` fails active runs only
    (`postgres-runtime-repository.ts:444`). Either way of closing the escalation
    makes the run active and the candidate ANALYZING again; what depends on the
    failed task stays pending, nobody fails the run, and no recovery can start
    from it (`FailedTaskEndsRun`, `failure_while_waiting.cfg`). WF-020
    (`openspec/specs/candidate-workflow/spec.md:136-138`): when a stage has used up
    its attempts the candidate becomes FAILED.

Seen in counterexamples while the models were built: a run whose task attempts
are used up stays ACTIVE (claims skip it, nothing escalates it); an escalation
raised in a run that has already failed leaves the run FAILED and the candidate
waiting; archiving is offered from the status READY, which the publication sets
before the notification task has ended, so that an active run gets paused; a
crash after the first run was created, followed by an incomplete listing, makes
a second run of the first input; a folder may be registered between the check of
its tombstone and the insert; an execution that crashes between storing an
artifact and reporting its outcome leaves a blob that the retry, whose answer
has other bytes, cannot write, and claims, inserted one by one and without a
conflict clause (`matrix-postgres-repository.ts:85`), fail in the same way; a
reference to an artifact is unique, so that a second run that notes the same
report gets a memory entry without one, and a recovery of that run inherits
nothing from it; the plans of fan-outs have no recovery schema, and a parallel
recovery takes over shards at most.

### Proofs

All invariants and all action properties that the runs check are theorems, for
every value of the constants that satisfies the assumptions named below; so are
the type invariants, and the safety part of the refinement. The invariants the
proofs need are definitions of the proof modules, each with the reason for it.

`TaskRuntimeProofs` proves for any plan, any number of runs, workers and claims
and any limits, from these assumptions: references between rows are functions
(`ReferenceAssumption`); a shard belongs to one group, and to the run of its
coordinator (`ShardAssumption`); a task depends on tasks of its own run, none of
them the notification, which `goal.ts:22-46` puts last, and what precedes a task
in the plan is of its run and contains what precedes that (`PlanAssumption`); a
join depends on its coordinator and its shards, a shard on its coordinator and
siblings at most, and nothing else on a shard, which is what
`materializeFanout` writes (`FanoutAssumption`); limits are numbers.

- `TypeCorrect`: `TypeOK` is inductive by itself, action by action.
- `LeasesAreExclusive`: at most one attempt of a task is open. The property is
  not inductive. A claim opens attempt `leaseToken + 1`, so that one must be
  unused (`FreshClaims`); and creating a run or materialising a group overwrites
  tasks, so those must not exist yet (`RowsExist`). `LeaseInv` is the
  conjunction. Three lemmas say what leaves it intact: a step that leaves leases
  and running tasks alone, the start of an attempt, the settling of the claim
  under which a task is held; every action is then one of the three, except
  archiving and `recoverStale`, which settle many tasks at once and are done
  directly.
- The other theorems do not go through the actions one by one each time. Lemmas
  say once for all of `Next` how a task (`TaskMove`), a run (`RunMove`), a group
  (`GroupMove`), an attempt (`AttemptMove`), a token, an effect, a row and the
  ledger may move, and under which condition; the invariants follow from the
  moves.
- `SettledTasksStay`, `EndedRunsStay`, `RunnableStaysDispatched` follow from the
  moves of tasks, attempts, runs and rows at once.
- `SuccessesHaveEffects`, from `EffectInv`: a task without a row was never
  claimed (`AbsentFresh`), an effect that was prepared is on record
  (`PreparedOnRecord`), and only a notification is ever uncertain, on record too
  if it has an effect (`UncertainOnRecord`).
- `ReusedStaysReused`, from `ReusedInv`: what a run takes over is decided when it
  is created and is closed under "before it in the plan"; no action claims a task
  that has succeeded.
- `WaitingStaysResumable`, from `WaitingInv`: a run leaves WAITING_FOR_HUMAN with
  its escalation, and nothing moves a waiting task but a resumption and an
  archiving.
- `JoinsCoverGroups`, from `JoinInv`: the state of a group agrees with its shards
  (`GroupsFollowShards`), so that a join that was released by the success of the
  group has all of them behind it. A join that a recovery took over is excepted:
  its shards are those of the run it comes from.
- `StartedInOrder`, from `OrderInv`: whoever claims finds the dependencies done,
  what is done stays done, and a task that is cancelled belongs to a run that is
  over (`CancelledIsOver`). Excepted is a join whose group or coordinator failed:
  a coordinator may fail after it has created the group, while its run waits for
  a human, and the join is released all the same.
- `NoWakeUpIsLost`, from `WakeInv`: every command that can unblock a task, by
  completing, failing or materialising something, or by making the run active
  again, promotes whatever `Blocked` no longer holds (`PromotionIsComplete`); a
  run that waits or has a failed plan task may have such tasks, and is excepted.
  A recovery run is, since it releases its boundary task alone.
- `LedgerIsExact`, from `LedgerInv`: every step changes the set of attempts that
  count and the ledger of their run in the same way (`LedgerMove`), by one at
  most; a refund takes out the attempt it defers. The sets have to be finite for
  their cardinality to mean anything.

`DispatchOutboxProofs` proves for any finite set of tasks, any runs, publishers
and consumers, any limits and any number of faults:

- `OutboxTypeCorrect`: `TypeOK`, strengthened by what the bound of the model
  needs (`RevisionsLeft`).
- `PublishedStaysInFlight` and `RevisionsRunOnce`, from one invariant,
  `DeliveryInv`. That a published entry has a message is not inductive: the
  message must be there from the moment the broker accepts it until a publisher
  that still holds the row records it (`SentIsInFlight`), whatever is delivered,
  deferred or claimed in between; a task that moves on must not meet a row of its
  next revision (`FreshRows`); what is acknowledged after an execution must be a
  past revision (`ExecutedIsPast`, which also makes executions unique); and while
  no gap has occurred every run is active (`RunsActive`), so that only stale
  messages are dropped. Lemmas say which steps keep the parts: a task that moves,
  a release of rows, a message acknowledged, returned or deferred.
- `StartsWithinLimits`: `Spec => Scheduler!Spec`, the safety part of
  `ImplementsScheduler`, by step simulation; that a task which is not held back
  has room needs the tasks to be finitely many.

`WorkerLeaseProofs` proves for any number of claims and any times:

- `TypeCorrect`: `TypeOK`.
- `AbortIsJustified`: an execution is aborted with LEASE_LOST only when its lease
  has run out or another claim has the task.
- `BelieversHold`: `LiveExecutionHoldsLease`, if `HeartbeatDelay < HeartbeatEvery`.
  The invariant, `LeaseInv`, bounds what the worker believes by what the
  repository will still grant after every heartbeat under way has arrived in
  whatever order: claims not yet made have nothing (`ExecutionInv`), at most one
  heartbeat is on its way and it is the pending one or too old to matter
  (`BeatInv`), an answer speaks of the pending request (`AnswerInv`), and the
  worker's confirmed time does not exceed the lease (`BeliefInv`).

`VacancyProfileProofs` proves for any vacancies, pages, runs and contents of a
profile:

- `TypeCorrect`: `TypeOK`, strengthened to `TypeInv`: a request that is about to
  write has read a record, a registration under way has found its folder's
  vacancy, and a candidate has one.
- `NothingSavedIsLost`: a version that was saved stays as it was until its
  vacancy is deleted. It needs no invariant besides the types: the lemma
  `OnlyGrow` says that every step either leaves the versions alone, appends one
  or takes a vacancy away.
- `PromptStaysPinned`: the version a run names exists, and never changes, as long
  as its vacancy does. `PromptInv` adds what makes it inductive: the version that
  an enqueue has read and not yet written down exists as well (`VersionsExist`),
  and a candidate that is gone has taken its runs along (`RunsHaveCandidate`).

`MatrixCompilationProofs` proves for any runs, any slots and any number of lost
workers:

- `TypeCorrect`: `TypeOK` is inductive by itself.
- `OnlyClaimantsPublish` and `MatrixIsShared`, from `MatrixInv`: a matrix was
  published by a run that claimed its compilation, and all readers have the one
  published. The strengthening says that a compiler's claim is no later than the
  last one granted (`ClaimsAreOld`), and that who goes on to store has the
  published matrix in hand (`StoresMatrix`).

`NotificationsProofs` proves for any events, recipients and executions and any
limit of attempts above zero:

- `TypeCorrect`: `TypeOK`, with what an execution may be about (`ExecutionInv`)
  and that a delivery which is sent has an attempt left (`AttemptsLeft`).
- `NeverSentTwice`: Telegram accepts a message at most once. `SendingInv` makes
  it inductive: what may still be sent has not been accepted and nobody has an
  unrecorded answer for it; of one that is being sent there is at most one such
  answer, and if it says that the message was refused, it was.
- `SettledForGood`: a settled delivery never changes, from `TypeInv` and the
  steps.

`PublicationProofs` proves for any number of executions and objects:

- `PublicationTypeCorrect`: `TypeOK` is inductive by itself.
- `ExecutionsAgree`, `RetriesMakeNoCopy` and `PublishedIsOnDrive`, from
  `PublicationInv`. Its first half (`ObjectInv`) says where objects are: they are
  numbered in the order of their creation, what is registered or about to be
  registered is on the Drive in the folder that is registered above it. The
  second half is about time: what is recorded is the registered file, nothing is
  published before that (`RegisteredIsRecorded`), and an execution that is about
  to create an object under the lease has looked and can have been overtaken by
  late requests only (`CreatesFirst`), which makes `CopiesAreLate` inductive.
- `ConnectionTypeCorrect`: `ConnectionTypeOK`. An operation that has
  exchanged its code knows the account, and only who has found a connection
  disconnects (`OperationsKnow`).
- `GoodGrantsStay` and `DisconnectionsStay`, from `ConnectionInv`: a worker whose
  row is still the stored one has read it connected and holds its token, and what
  Google has refused once it will not accept again, since grants are numbered
  (`GrantsIssued`). The assumption of the model, `ConnectionAssumption`, says only
  that its marks for "none" and for a disconnection are no workers, accounts or
  operations.

`CandidateProofs` proves, from the bounds of the models being numbers, for any
number of runs, of parallel workflows among them and of lost leases:

- `AnalysisTypeCorrect`, `InputsAreKept`, `SnapshotsAreCoherent`,
  `ResultsAreFound` and `PublishedReportsAreOwn`, all from `AnalysisInv`. The
  argument: what there is stays (`Grown`: runs, notes, references and contents
  are only added to, and so are results, apart from which rendering a run has
  succeeded with). A result of a run is therefore either its own, with its
  reference, or taken over from the run before it, and what was taken over is
  closed under inputs (`OutputsRight`); then the two different queries of the
  lineage find the same artifact (`LatestIs`, `ArtifactsAreOf`) and every stage
  reads results of its own run (`ReadRight`). Executions of a run are told apart by their claims
  (`ClaimsDiffer`), and a rendering that is there was written under another claim
  than that of an execution to come (`WritersDiffer`): this is what a version
  depends on, which names a rendering that nobody will write again (`Settled`).
  The published report is about the run's own recommendation, or a report about
  it is there whose number was taken (`Good`). `HasMax` proves that the latest
  run of a lineage exists, by the well-foundedness of finite sets.
- `InputsAreStable`, `CommandsKeepStatus`, `RequestsAreServedOnce`, for any
  contents of a folder, any number of commands and any revision, from
  `IntakeInv`: the tracker has compared no more listings than have been alike
  (`CountedAlike`); a command that can still be committed knows the status, or
  only missing materials were noted since (`CommandsKnowStatus`); a trigger
  starts one run and goes with a candidate that exists (`TriggersDiffer`); and
  there is one revision that whatever was read since the last command belongs to
  (`OfRequest`). `IntakeAssumption` says that complete contents are contents, that
  no content is the value for "none", and that the bounds are numbers.
- `IntakeTypeCorrect`: `IntakeTypeOK`.

Where a proof did not go through, the model or the property was wrong:

- A candidate that was deleted and registered anew has another public id, so that
  a command which had read the old one cannot meet it. The model had compared
  revisions only, and lost a status that way (`Delete`, `Commit`). That `Commit`
  looks up the public id and writes by the primary key in one step is an
  abstraction: what is deleted in between is not found by the write either.
- An artifact nobody has written and a plan, which is the same under every claim,
  could be the same value (`Absent`).
- `PublishedIsOwn` looked for the report whose number was taken only in what the
  publication itself had rendered, which is false from six runs on; it may be the
  one of the report task. What it excepts now is the case of finding 11 itself.
- `StartedAfterDependencies`, `JoinCoversGroup` and `NoLostPromotion` did not
  except a coordinator that fails while its run waits, a join that was taken over,
  and a run that is resumed with a failed plan task. The code permits all three;
  the small instances do not contain them.

What TLC alone says. Liveness under fairness is out of the prover's reach, with
it `ENABLED`: `RunEndsOrRunsDry`, the fair part of `ImplementsScheduler`,
`ZombieStops`, `LostGrantIsNoticed`, `TaskEnds`, `RequestIsServed` and
`EveryRunEnds`. So are the counterexamples of the list above. No proof uses
induction over data: sequences are only appended to or changed in one place.

## Plan

Done: the modules above, in the order in which a candidate meets them, the
runtime first.

Left, as far as it keeps state: the creation of a vacancy (a reserved operation,
its folder, the commit: `product/application.ts:93-126`), the budget of one LLM
call, sessions and their throttle.

### Not modelled

Most of the source is of a kind these models have nothing to say about, and the
share of the lines they stand for is small for this reason: `app/page.tsx` and
the other components of the UI (a sixth of the code) present records and send
requests, which the models have; `db/schema.ts` declares tables; `reports.ts`,
`matrix-driven.ts`, `assessment-join.ts`, `transcript-claim-batching.ts` and most
of `production-runtime.ts` transform documents within one call of a tool;
`llm/configuration.ts` and `agent-runtime/configuration.ts` read the environment;
processors of documents and media are stateless services. `agent-runtime/runtime.ts`
is a second runtime in memory that only tests use: it differs from the
repository that is modelled, and a model of it would show nothing of the
product. Authentication and the end-to-end controller are independent of all
this. Encryption, the HTTP layer and deadlocks inside PostgreSQL, which aborts
one of the transactions, are left out everywhere.
