------------------------- MODULE CandidateAnalysis -------------------------
(***************************************************************************)
(* What the stages of an analysis pass on to each other: which artifact a  *)
(* stage reads, what it stores, and what a run takes over from the failed  *)
(* run it recovers (candidate-pipeline/production-runtime.ts).             *)
(*                                                                         *)
(* An artifact is named by the run and the stage that stored it; two       *)
(* answers of the LLM are never the same.  The claims of a task are not    *)
(* modelled but for this: an execution may lose its lease and go on.       *)
(***************************************************************************)
EXTENDS Integers, Sequences, FiniteSets, FiniteSetsExt

CONSTANTS MaxRun,      \* runs of one goal
          MaxParallel, \* those among them, if the workflow is the parallel one
          MaxLoss      \* executions that lose their lease

ASSUME AnalysisAssumption ==
    MaxRun \in Nat \ {0} /\ MaxParallel \in 1..MaxRun /\ MaxLoss \in Nat

Run == 1..MaxRun

(* The tasks that work on the artifacts, in their order.  "evidence" and   *)
(* "recommendation" stand for a chain of tasks each, a shard for all those *)
(* of its group; the branch of the ABC directions is like that of rows.    *)
matrixTasks == <<"evidence", "rows", "verify", "recommendation", "report", "publication">>
parallelMatrixTasks ==
    <<"evidence", "rowsPlan", "rowShard", "rows", "criticalPlan", "criticalShard", "verify",
      "recommendation", "report", "publication">>

Stage == {parallelMatrixTasks[i] : i \in DOMAIN parallelMatrixTasks}
Shard == {"rowShard", "criticalShard"}
Plan == {"rowsPlan", "criticalPlan"}
Rendering == {"report", "publication"}
ShardOf(s) == IF s = "rowsPlan" THEN "rowShard" ELSE "criticalShard"

Artifact == Run \X Stage
None == <<0, "none">>
Absent == [by |-> -1, reads |-> <<>>]

VARIABLES
    parallel, \* the workflow is matrix-v4-rabbit-parallel
    state,    \* agent_runs.state
    source,   \* agent_runs.recovery_source_run_id, or 0
    output,   \* the artifact a task has succeeded with, its own or a reused one
    planned,  \* fan-out groups, by the run and the coordinator
    noted,    \* rows of agent_memory_entries, by run and stage
    refs,     \* rows of agent_artifact_refs, by the run of their memory entry
    content,  \* artifact_blobs: who wrote an artifact and what it had read
    versions, \* candidate_report_versions with their document
    execution,\* what workers are doing
    holder,   \* the execution that holds the lease of the run's task, or 0
    losses

runs == <<parallel, state, source>>
memory == <<noted, refs>>
vars == <<runs, output, planned, memory, content, versions, execution, holder, losses>>

Init ==
    /\ parallel \in BOOLEAN
    /\ state = [r \in Run |-> "NONE"] /\ source = [r \in Run |-> 0]
    /\ output = [r \in Run |-> [s \in Stage |-> None]]
    /\ planned = {} /\ noted = {}
    /\ refs = [r \in Run |-> [s \in Stage |-> {}]]
    /\ content = [a \in Artifact |-> Absent]
    /\ versions = <<>>
    /\ execution = {} /\ holder = [r \in Run |-> 0] /\ losses = 0

Tasks == IF parallel THEN parallelMatrixTasks ELSE matrixTasks
Succeeded(r, s) == output[r][s] # None
Created == Cardinality({r \in Run : state[r] # "NONE"})

(* run_lineage: a run and those it recovers, one after the other.          *)
Lineage(r) == {q \in 1..r : \A p \in q + 1..r : source[p] # 0}

(* Mutant: the oldest run of the lineage comes first. *)
LatestArtifactMut(r, s) ==
    LET found == {q \in Lineage(r) : refs[q][s] # {}}
    IN  IF found = {} THEN None ELSE CHOOSE a \in refs[Min(found)][s] : TRUE

(* latestDomainArtifactReference: the nearest run that has a reference.    *)
LatestArtifact(r, s) ==
    LET found == {q \in Lineage(r) : refs[q][s] # {}}
    IN  IF found = {} THEN None ELSE CHOOSE a \in refs[Max(found)][s] : TRUE

(* domainArtifactReferences: the references of the nearest run that has a  *)
(* memory entry, be it one without a reference.                            *)
ArtifactsFor(r, s) ==
    LET found == {q \in Lineage(r) : <<q, s>> \in noted}
    IN  IF found = {} THEN {} ELSE refs[Max(found)][s]

(***************************************************************************)
(* Runs and their tasks.                                                   *)
(***************************************************************************)

(* Mutant: a task is reused whether or not those before it are. *)
ReusedMut(r, q) ==
    IF parallel THEN {} ELSE {s \in Stage : Succeeded(q, s) /\ <<q, s>> \in noted}

(* The tasks that r takes over from q: the first ones that have succeeded  *)
(* with an artifact which q itself has noted.  The plans of fan-out groups *)
(* have no recovery schema, and one of them comes before all of these.     *)
Reused(r, q) ==
    IF parallel THEN {}
    ELSE {matrixTasks[i] : i \in
            {i \in DOMAIN matrixTasks : \A j \in 1..i :
                Succeeded(q, matrixTasks[j]) /\ refs[q][matrixTasks[j]] # {}}}

(* createGoal, for a new trigger of the goal: the last run is recovered if *)
(* it has failed.                                                          *)
CreateRun(r) ==
    LET q == IF r > 1 /\ state[r - 1] = "FAILED" THEN r - 1 ELSE 0
    IN  /\ r = Created + 1 /\ (parallel => r <= MaxParallel) /\ \A p \in Run : state[p] # "ACTIVE"
        /\ state' = [state EXCEPT ![r] = "ACTIVE"]
        /\ source' = [source EXCEPT ![r] = q]
        /\ output' = [output EXCEPT ![r] =
              [s \in Stage |-> IF q # 0 /\ s \in Reused(r, q) THEN output[q][s] ELSE None]]
        /\ UNCHANGED <<parallel, planned, memory, content, versions, execution, holder, losses>>

(* A worker claims the first task that has not succeeded.                  *)
Start(r) ==
    /\ state[r] = "ACTIVE" /\ holder[r] = 0
    /\ \E i \in DOMAIN Tasks :
          /\ ~Succeeded(r, Tasks[i]) /\ \A j \in 1..i - 1 : Succeeded(r, Tasks[j])
          /\ holder' = [holder EXCEPT ![r] = losses + 1]
          /\ execution' = execution \union
                {[run |-> r, stage |-> Tasks[i], by |-> losses + 1, phase |-> "work",
                  made |-> losses + 1, reads |-> <<>>, of |-> None, number |-> 0]}
    /\ UNCHANGED <<runs, output, planned, memory, content, versions, losses>>

(* The lease runs out.  The worker has died or runs on.                    *)
Lose(r) ==
    /\ holder[r] # 0 /\ losses < MaxLoss
    /\ losses' = losses + 1 /\ holder' = [holder EXCEPT ![r] = 0]
    /\ UNCHANGED <<runs, output, planned, memory, content, versions, execution>>

Holding(e) == holder[e.run] = e.by
Becomes(e, f) == execution' = (execution \ {e}) \union {f}
Goto(e, phase) == Becomes(e, [e EXCEPT !.phase = phase])

(* completeTask, with the effect of the notification that follows the      *)
(* publication: it ends the run or fails it.                               *)
Outcome(e) ==
    /\ e.phase \in {"done", "failed"}
    /\ execution' = execution \ {e}
    /\ IF ~Holding(e)
       THEN UNCHANGED <<state, output, holder>>
       ELSE /\ holder' = [holder EXCEPT ![e.run] = 0]
            /\ output' = IF e.phase = "done" THEN [output EXCEPT ![e.run][e.stage] = e.of] ELSE output
            /\ \E end \in {"SUCCEEDED", "FAILED"} :
                  state' = CASE e.phase = "failed" -> [state EXCEPT ![e.run] = "FAILED"]
                             [] e.phase = "done" /\ e.stage = "publication" ->
                                  [state EXCEPT ![e.run] = end]
                             [] OTHER -> state
    /\ UNCHANGED <<parallel, source, planned, memory, content, versions, losses>>

(***************************************************************************)
(* A tool at work.                                                         *)
(***************************************************************************)

(* The artifacts that a stage reads.                                       *)
Inputs(s) ==
    CASE s \in {"evidence", "rowsPlan"} -> {}
      [] s = "rowShard" -> {"evidence"}
      [] s = "rows" -> {"evidence"} \union IF parallel THEN {"rowShard"} ELSE {}
      [] s \in {"criticalPlan", "criticalShard"} -> {"rows"}
      [] s = "verify" -> {"rows"} \union IF parallel THEN {"criticalShard"} ELSE {}
      [] s = "recommendation" -> {"rows", "verify", "evidence"}
      [] s \in Rendering -> {"recommendation"}

(* A join reads the outputs of its shards, everybody else the latest.      *)
InputOf(r, s) == IF s \in Shard THEN output[r][s] ELSE LatestArtifact(r, s)

Reads(e) == [i \in Inputs(e.stage) |->
    [of |-> InputOf(e.run, i), by |-> content[InputOf(e.run, i)].by]]

(* The tool reads its inputs and asks the LLM.  A rendering takes the      *)
(* number of the next version.                                             *)
Read(e) ==
    /\ e.phase = "work" /\ e.stage \notin Plan
    /\ e.stage \in Rendering => Cardinality(ArtifactsFor(e.run, "report")) # 1
    /\ Becomes(e, [e EXCEPT !.phase = "store", !.reads = Reads(e), !.of = <<e.run, e.stage>>,
                            !.number = IF e.stage \in Rendering THEN Len(versions) + 1 ELSE 0])
    /\ UNCHANGED <<runs, output, planned, memory, content, versions, holder, losses>>

(* render: a report that is there is taken as it is.                       *)
FindReport(e) ==
    /\ e.phase = "work" /\ e.stage \in Rendering
    /\ \E a \in ArtifactsFor(e.run, "report") :
          /\ ArtifactsFor(e.run, "report") = {a}
          /\ Becomes(e, [e EXCEPT !.of = a,
                !.phase = IF e.stage = "report" THEN "record" ELSE "publish"])
    /\ UNCHANGED <<runs, output, planned, memory, content, versions, holder, losses>>

(* materializeFanout: the task has to be RUNNING, by whomever, and a shard *)
(* of the source run is reused if the group has the same fingerprint.      *)
(* That the group is new is a part of the stored descriptor.               *)
PlanShards(e) ==
    LET r == e.run
        shard == ShardOf(e.stage)
        old == IF source[r] = 0 THEN None ELSE output[source[r]][shard]
        new == <<r, e.stage>> \notin planned
    IN  /\ e.phase = "work" /\ e.stage \in Plan
        /\ IF holder[r] = 0 \/ Succeeded(r, e.stage)
           THEN Goto(e, "failed") /\ UNCHANGED <<output, planned>>
           ELSE /\ planned' = planned \union {<<r, e.stage>>}
                /\ \E same \in BOOLEAN :
                      output' = IF new /\ same THEN [output EXCEPT ![r][shard] = old] ELSE output
                /\ Becomes(e, [e EXCEPT !.phase = "store", !.reads = Reads(e), !.of = <<r, e.stage>>,
                                        !.made = IF new THEN @ ELSE 0])
        /\ UNCHANGED <<runs, memory, content, versions, holder, losses>>

(* The LLM or its answer fails for good, or the budget is used up.         *)
Break(e) ==
    /\ e.phase = "work" /\ Goto(e, "failed")
    /\ UNCHANGED <<runs, output, planned, memory, content, versions, holder, losses>>

(* Mutant: every entry gets its reference. *)
NoteMut(r, s, a) ==
    /\ noted' = noted \union {<<r, s>>}
    /\ refs' = [refs EXCEPT ![r][s] = @ \union {a}]

(* agent_artifact_refs is unique by artifact: the entry of a second run    *)
(* that notes it gets no reference.                                        *)
Note(r, s, a) ==
    /\ noted' = noted \union {<<r, s>>}
    /\ refs' = IF \E q \in Run : a \in refs[q][s] THEN refs ELSE [refs EXCEPT ![r][s] = @ \union {a}]

Written(e) == [by |-> e.made, reads |-> e.reads]

(* Mutant: the blob of a task is overwritten. *)
StoreMut(e) ==
    LET a == <<e.run, e.stage>>
    IN  /\ e.phase = "store"
        /\ content' = [content EXCEPT ![a] = Written(e)]
        /\ IF e.stage \in Rendering
           THEN Goto(e, "version") /\ UNCHANGED memory
           ELSE Goto(e, "done") /\ Note(e.run, e.stage, a)
        /\ UNCHANGED <<runs, output, planned, versions, holder, losses>>

(* storeJson and artifactReference: the blob of a task is written once,    *)
(* and again only with the same bytes; no lease is asked for.              *)
Store(e) ==
    LET a == <<e.run, e.stage>>
    IN  /\ e.phase = "store"
        /\ IF content[a] \notin {Absent, Written(e)}
           THEN Goto(e, "failed") /\ UNCHANGED <<content, memory>>
           ELSE /\ content' = [content EXCEPT ![a] = Written(e)]
                /\ IF e.stage \in Rendering
                   THEN Goto(e, "version") /\ UNCHANGED memory
                   ELSE Goto(e, "done") /\ Note(e.run, e.stage, a)
        /\ UNCHANGED <<runs, output, planned, versions, holder, losses>>

(* The version of the report and its document, under the number that was   *)
(* the next one when the rendering began.                                  *)
AddVersion(e) ==
    /\ e.phase = "version"
    /\ versions' = IF e.number <= Len(versions) THEN versions
                   ELSE Append(versions, [run |-> e.run, of |-> e.of, onDrive |-> FALSE])
    /\ Goto(e, IF e.stage = "report" THEN "record" ELSE "publish")
    /\ UNCHANGED <<runs, output, planned, memory, content, holder, losses>>

(* The report's artifactReference.                                         *)
RecordReport(e) ==
    /\ e.phase = "record"
    /\ Note(e.run, "report", e.of) /\ Goto(e, "done")
    /\ UNCHANGED <<runs, output, planned, content, versions, holder, losses>>

(* The number of the last version of the nearest run that has one.         *)
VersionOf(r) ==
    LET owners == {q \in Lineage(r) : \E n \in DOMAIN versions : versions[n].run = q}
    IN  IF owners = {} THEN 0 ELSE Max({n \in DOMAIN versions : versions[n].run = Max(owners)})

(* reconcile takes a file that is on the Drive.  Otherwise publishPdf, for *)
(* which the lease is asked, uploads the document of the version; it has   *)
(* to have the checksum of the report.  (Publication has the calls.)       *)
Publish(e) ==
    LET n == VersionOf(e.run)
    IN  /\ e.phase = "publish"
        /\ IF n # 0 /\ versions[n].onDrive
           THEN Becomes(e, [e EXCEPT !.phase = "done", !.of = versions[n].of]) /\ UNCHANGED versions
           ELSE IF n = 0 \/ ~Holding(e) \/ versions[n].of # e.of
           THEN Goto(e, "failed") /\ UNCHANGED versions
           ELSE versions' = [versions EXCEPT ![n].onDrive = TRUE] /\ Goto(e, "done")
        /\ UNCHANGED <<runs, output, planned, memory, content, holder, losses>>

Work(e) ==
    \/ Read(e) \/ FindReport(e) \/ PlanShards(e) \/ Break(e)
    \/ Store(e) \/ AddVersion(e) \/ RecordReport(e) \/ Publish(e)
    \/ Outcome(e)

Next ==
    \/ \E r \in Run : CreateRun(r) \/ Start(r) \/ Lose(r)
    \/ \E e \in execution : Work(e)

Spec == Init /\ [][Next]_vars

(***************************************************************************)
(* Properties.                                                             *)
(***************************************************************************)

(* Every variable holds a value of its kind                                *)
(* (drizzle-postgres/0000_dusty_blazing_skull.sql:1).                      *)
TypeOK ==
    /\ parallel \in BOOLEAN
    /\ state \in [Run -> {"NONE", "ACTIVE", "SUCCEEDED", "FAILED"}]
    /\ source \in [Run -> {0} \union Run]
    /\ output \in [Run -> [Stage -> Artifact \union {None}]]
    /\ planned \subseteq Run \X Plan /\ noted \subseteq Run \X Stage
    /\ \A r \in Run, s \in Stage : refs[r][s] \subseteq Artifact
    /\ \A a \in Artifact : content[a].by \in -1..MaxLoss + 1
    /\ \A n \in DOMAIN versions : versions[n].run \in Run /\ versions[n].of \in Artifact
    /\ \A e \in execution : e.run \in Run /\ e.stage \in Stage /\ e.by \in 1..MaxLoss + 1
    /\ holder \in [Run -> 0..MaxLoss + 1] /\ losses \in 0..MaxLoss

(* What an artifact was made from is still what was read: no execution,    *)
(* be it one that has lost its lease, changes the input of another one     *)
(* after it was read (storage/blob-store.ts:56).                           *)
InputsStay ==
    LET kept(reads) == \A i \in DOMAIN reads : content[reads[i].of].by = reads[i].by
    IN  /\ \A a \in Artifact : kept(content[a].reads)
        /\ \A e \in execution : kept(e.reads)

(* A recommendation is about one set of rows: those that were verified,    *)
(* made from the evidence that it shows, also when a part of them was      *)
(* taken over from another run (production-runtime.ts:1435).               *)
SnapshotIsCoherent ==
    \A r \in Run :
        LET reads == content[<<r, "recommendation">>].reads
        IN  content[<<r, "recommendation">>] # Absent =>
              /\ content[reads["verify"].of].reads["rows"] = reads["rows"]
              /\ content[reads["rows"].of].reads["evidence"] = reads["evidence"]

(* What a stage has succeeded with is what the stages after it find in the *)
(* lineage (production-runtime.ts:105).                                    *)
ResultIsFound ==
    \A r \in Run : \A s \in {"evidence", "rows", "verify", "recommendation"} :
        Succeeded(r, s) => LatestArtifact(r, s) = output[r][s]

(* The report that a run has published is about its own recommendation,    *)
(* though there may be reports of the runs it recovers - unless there is   *)
(* one about it whose version an execution without a lease has taken the   *)
(* number of (production-runtime.ts:1641, 680, 2005).                      *)
IsOwn(r, a) == content[a].reads["recommendation"].of = LatestArtifact(r, "recommendation")

NumberTaken(a) ==
    /\ content[a] # Absent
    /\ \A e \in execution : e.of = a => e.phase # "version"
    /\ \A n \in DOMAIN versions : versions[n].of # a

PublishedIsOwn ==
    \A r \in Run : Succeeded(r, "publication") =>
        \/ IsOwn(r, output[r]["publication"])
        \/ \E a \in Run \X Rendering : NumberTaken(a) /\ IsOwn(r, a)

(* A recovery does the stages after its boundary again, the report it      *)
(* publishes included (candidate-workflow/spec.md:55).                     *)
OwnReportIsPublished ==
    \A r \in Run : Succeeded(r, "publication") => IsOwn(r, output[r]["publication"])

(* The rows of a run are all made from the evidence that the run has       *)
(* frozen (add-rabbitmq-parallel-candidate-pipeline/tasks.md:76).          *)
JoinsMatch ==
    \A r \in Run :
        LET reads == content[<<r, "rows">>].reads
        IN  parallel /\ content[<<r, "rows">>] # Absent =>
              content[reads["rowShard"].of].reads["evidence"] = reads["evidence"]

=============================================================================
