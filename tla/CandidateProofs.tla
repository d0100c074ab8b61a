-------------------------- MODULE CandidateProofs --------------------------
(***************************************************************************)
(* Theorems about a candidate, for any number of runs, listings, commands  *)
(* and lost leases: CandidateAnalysis, what the stages of its analysis     *)
(* pass on to each other, and at the end CandidateIntake, how its folder   *)
(* gets to a run.  The two share no variable.                              *)
(***************************************************************************)
EXTENDS CandidateAnalysis, CandidateIntake, SequenceTheorems, FiniteSetTheorems, WellFoundedInduction, TLAPS

(* The kinds of the values.                                                *)
Phase == {"work", "store", "version", "record", "publish", "done", "failed"}
Fields == {"run", "stage", "by", "phase", "made", "reads", "of", "number"}
Version == [run : Run, of : Artifact, onDrive : {TRUE, FALSE}]
ExecutionTyped(e) ==
    /\ DOMAIN e = Fields
    /\ e.run \in Run /\ e.stage \in Stage /\ e.phase \in Phase
    /\ e.by \in Nat /\ e.made \in Nat /\ e.number \in Nat
    /\ e.of \in Artifact \union {None}
Typed ==
    /\ parallel \in BOOLEAN
    /\ state \in [Run -> {"NONE", "ACTIVE", "SUCCEEDED", "FAILED"}]
    /\ source \in [Run -> {0} \union Run]
    /\ output \in [Run -> [Stage -> Artifact \union {None}]]
    /\ planned \subseteq Run \X Plan /\ noted \subseteq Run \X Stage
    /\ refs \in [Run -> [Stage -> SUBSET Artifact]]
    /\ DOMAIN content = Artifact
    /\ versions \in Seq(Version)
    /\ \A e \in execution : ExecutionTyped(e)
    /\ holder \in [Run -> 0..MaxLoss + 1] /\ losses \in 0..MaxLoss

(* What a stage needs, and whether it has it.                              *)
Core == {"evidence", "rows", "verify", "recommendation"}
Needs(s) ==
    CASE s = "rowShard" -> {"evidence", "rowsPlan"}
      [] s = "criticalShard" -> {"rows", "criticalPlan"}
      [] s = "publication" -> {"recommendation", "report"}
      [] OTHER -> Inputs(s)
Ready(r, s) == \A p \in Needs(s) : Succeeded(r, p)

Present(a) == a \in Artifact /\ content[a] # Absent

(* The inputs of a stage of a run, as they are read and stay.              *)
HasInputs(r, s) == \A i \in Inputs(s) : Present(output[r][i])
RightReads(r, s) == [i \in Inputs(s) |-> [of |-> output[r][i], by |-> content[output[r][i]].by]]
ReadRight(r, s, reads) == HasInputs(r, s) /\ reads = RightReads(r, s)

Executed(r, s) == <<r, s>> \in noted \/ \E e \in execution : e.run = r /\ e.stage = s

(* A stage that a run has taken over from the one it recovers.             *)
TakenOver(r, s) ==
    /\ source[r] = r - 1 /\ r - 1 \in Run
    /\ refs[r - 1][s] = {<<r - 1, s>>} /\ refs[r][s] = {} /\ ~Executed(r, s)
    /\ Succeeded(r, s)
    /\ s \in Core => output[r - 1][s] = <<r - 1, s>> /\ output[r][s] = <<r - 1, s>>

Original(r, s) == output[r][s] = <<r, s>> /\ refs[r][s] = {<<r, s>>}

(* The writer of an artifact has had its turn with its version.            *)
Writing(e, a) == <<e.run, e.stage>> = a /\ e.phase \in {"work", "store", "version"}
Settled(a) ==
    /\ Present(a) /\ a \in Run \X Rendering
    /\ \A e \in execution : Writing(e, a) => e.made # content[a].by

About(r, a) ==
    Present(a) /\ Succeeded(r, "recommendation")
    /\ content[a].reads["recommendation"].of = output[r]["recommendation"]
Taken(r) ==
    \E a \in Run \X Rendering :
        About(r, a) /\ Settled(a) /\ \A n \in DOMAIN versions : versions[n].of # a
Good(r, a) == Present(a) /\ (About(r, a) \/ Taken(r)) /\ Succeeded(r, "recommendation")

(* Runs are created one after the other.                                   *)
Untouched(r) ==
    /\ source[r] = 0 /\ holder[r] = 0
    /\ \A s \in Stage : /\ output[r][s] = None /\ refs[r][s] = {} /\ <<r, s>> \notin noted
                        /\ content[<<r, s>>] = Absent
    /\ \A s \in Plan : <<r, s>> \notin planned
    /\ \A e \in execution : e.run # r
RunsInOrder ==
    /\ \E k \in 0..MaxRun : \A r \in Run : state[r] # "NONE" <=> r <= k
    /\ \A r \in Run : source[r] = 0 \/ (source[r] = r - 1 /\ r - 1 \in Run)
    /\ \A r \in Run : state[r] = "NONE" => Untouched(r)
    /\ parallel => \A r \in Run, s \in Core \union {"report"} : ~TakenOver(r, s)

(* A memory entry has its artifact, if any, from the run itself.           *)
NotesRight ==
    \A r \in Run, s \in Stage :
        /\ refs[r][s] \subseteq {<<r, s>>}
        /\ refs[r][s] # {} => <<r, s>> \in noted /\ Present(<<r, s>>) /\ s # "publication"
        /\ s = "report" /\ refs[r][s] # {} => Settled(<<r, s>>)

ContentsRight ==
    \A r \in Run, s \in Stage : content[<<r, s>>] # Absent =>
        /\ content[<<r, s>>].by \in 0..losses + 1
        /\ Ready(r, s) /\ ReadRight(r, s, content[<<r, s>>].reads)

OutputsRight ==
    \A r \in Run, s \in Stage : Succeeded(r, s) =>
        /\ Present(output[r][s])
        /\ s \in Core => Original(r, s) \/ TakenOver(r, s)
        /\ s = "report" => <<r, s>> \in noted \/ TakenOver(r, s)
        /\ s \in Plan => <<r, s>> \in planned
        /\ s = "rowShard" => <<r, "rowsPlan">> \in planned
        /\ s = "criticalShard" => <<r, "criticalPlan">> \in planned
        /\ s = "publication" => Good(r, output[r][s])
        /\ s \in Core \union {"report"} /\ TakenOver(r, s) => \A p \in Inputs(s) : TakenOver(r, p)

(* What an execution has at each phase.                                    *)
PhaseRight(e) ==
    LET r == e.run  s == e.stage  own == <<r, s>>
    IN  /\ e.phase = "work" => e.reads = <<>>
        /\ s \in Plan /\ e.phase \notin {"work", "failed"} => own \in planned
        /\ e.phase \in {"store", "version"} => e.of = own /\ ReadRight(r, s, e.reads)
        /\ e.phase = "version" => s \in Rendering /\ Present(own) /\ content[own].by = e.made
        /\ e.phase \in {"record", "publish"} => Settled(e.of)
        /\ e.phase = "record" => s = "report" /\ (e.of = own \/ \E q \in Run : e.of \in refs[q][s])
        /\ e.phase = "publish" =>
              /\ s = "publication" /\ About(r, e.of)
              /\ \/ e.of \in {<<r, "report">>, own}
                 \/ TakenOver(r, "report") /\ e.of = <<r - 1, "report">>
        /\ e.phase = "done" =>
              /\ Present(e.of)
              /\ s \notin Rendering => e.of = own
              /\ s \in Core => refs[r][s] = {own}
              /\ s = "report" => own \in noted
              /\ s = "publication" => Good(r, e.of)

ExecutionsRight ==
    \A e \in execution :
        /\ Ready(e.run, e.stage)
        /\ state[e.run] # "NONE"
        /\ e.stage \notin Rendering /\ Succeeded(e.run, e.stage) => output[e.run][e.stage] = <<e.run, e.stage>>
        /\ PhaseRight(e)
        /\ \A i \in DOMAIN e.reads : Present(e.reads[i].of) /\ content[e.reads[i].of].by = e.reads[i].by

(* Executions of a run are told apart by the claims they hold.             *)
ClaimsDiffer ==
    /\ \A e \in execution :
          /\ e.by \in 1..losses + 1 /\ (~Holding(e) => e.by <= losses)
          /\ e.made \in {0, e.by} /\ (e.stage \notin Plan => e.made = e.by)
    /\ \A e, f \in execution : e.run = f.run /\ e.by = f.by => e = f

(* A rendering that is there was written under another claim than that of  *)
(* an execution to come.                                                   *)
WritersDiffer ==
    \A r \in Run, s \in Rendering :
        content[<<r, s>>] # Absent /\ state[r] = "ACTIVE" /\ ~Succeeded(r, s) =>
            \/ content[<<r, s>>].by <= losses
            \/ \E e \in execution : Holding(e) /\ e.run = r /\ e.stage = s

VersionsRight ==
    \A n \in DOMAIN versions :
        Present(versions[n].of) /\ \E s \in Rendering : versions[n].of = <<versions[n].run, s>>

(* A bounded set of numbers that is not empty has its maximum.             *)
LEMMA HasMax ==
    ASSUME NEW k \in Nat, NEW T, T \subseteq 1..k, T # {}
    PROVE  Max(T) \in T /\ \A y \in T : y <= Max(T)
<1> DEFINE Above(x) == {y \in T : y >= x}
           Family == {Above(x) : x \in T}
<1>1. Family \subseteq FiniteSubsetsOf(1..k) /\ Family # {}
  <2>1. IsFiniteSet(1..k)
    BY FS_Interval
  <2> SUFFICES ASSUME NEW x \in T PROVE IsFiniteSet(Above(x)) /\ Above(x) \in SUBSET (1..k)
    BY DEF FiniteSubsetsOf
  <2> QED
    BY <2>1, FS_Subset
<1>2. PICK A \in Family : \A B \in Family : <<B, A>> \notin StrictSubsetOrdering(1..k)
  <2> HIDE DEF Family
  <2>1. IsWellFoundedOn(StrictSubsetOrdering(1..k), FiniteSubsetsOf(1..k))
    BY FS_StrictSubsetOrderingWellFounded
  <2> QED
    BY <1>1, <2>1, WFMin
<1>3. PICK x \in T : A = Above(x)
  OBVIOUS
<1>4. ASSUME NEW y \in T PROVE y <= x
  <2> SUFFICES ASSUME y > x PROVE FALSE
    OBVIOUS
  <2>1. /\ \A z \in Above(y) : z \in A
        /\ x \in A /\ x \notin Above(y)
    BY <1>3
  <2>2. Above(y) \subseteq 1..k /\ A \subseteq 1..k /\ Above(y) \in Family
    BY <1>3
  <2>3. <<Above(y), A>> \in StrictSubsetOrdering(1..k)
    <3> HIDE DEF Above
    <3> QED
      BY <2>1, <2>2 DEF StrictSubsetOrdering
  <2> QED
    BY <1>2, <2>2, <2>3
<1> QED
  BY <1>4 DEF Max

(* The invariant of the analyses.                                          *)
AnalysisInv ==
    /\ Typed /\ RunsInOrder /\ NotesRight /\ ContentsRight /\ OutputsRight
    /\ ExecutionsRight /\ ClaimsDiffer /\ WritersDiffer /\ VersionsRight

(* The stages by name.                                                     *)
LEMMA StageNames ==
    /\ Stage = {"evidence", "rowsPlan", "rowShard", "rows", "criticalPlan", "criticalShard",
                "verify", "recommendation", "report", "publication"}
    /\ Core \subseteq Stage /\ Shard \subseteq Stage /\ Plan \subseteq Stage /\ Rendering \subseteq Stage
<1>1. DOMAIN parallelMatrixTasks = 1..10
  BY DEF parallelMatrixTasks
<1>2. Stage = {parallelMatrixTasks[i] : i \in 1..10}
  BY <1>1 DEF Stage
<1>3. /\ parallelMatrixTasks[1] = "evidence" /\ parallelMatrixTasks[2] = "rowsPlan"
      /\ parallelMatrixTasks[3] = "rowShard" /\ parallelMatrixTasks[4] = "rows"
      /\ parallelMatrixTasks[5] = "criticalPlan" /\ parallelMatrixTasks[6] = "criticalShard"
      /\ parallelMatrixTasks[7] = "verify" /\ parallelMatrixTasks[8] = "recommendation"
      /\ parallelMatrixTasks[9] = "report" /\ parallelMatrixTasks[10] = "publication"
  BY DEF parallelMatrixTasks
<1>4. 1..10 = {1, 2, 3, 4, 5, 6, 7, 8, 9, 10}
  OBVIOUS
<1>5. Stage = {"evidence", "rowsPlan", "rowShard", "rows", "criticalPlan", "criticalShard",
                "verify", "recommendation", "report", "publication"}
  BY <1>2, <1>3, <1>4
<1> QED
  BY <1>5 DEF Core, Shard, Plan, Rendering

(* No stage reads a report or a plan.                                      *)
LEMMA InputsAreNeeded ==
    ASSUME NEW s \in Stage
    PROVE  /\ Inputs(s) \subseteq Needs(s) /\ Inputs(s) \subseteq Core \union Shard
           /\ Needs(s) \subseteq Stage
           /\ ~parallel => Inputs(s) \subseteq Core \/ s \in Shard
           /\ s \in Rendering => Inputs(s) = {"recommendation"}
BY StageNames DEF Inputs, Needs, Core, Shard, Rendering

(* What is an input is no rendering and no plan.                           *)
LEMMA Distinct ==
    /\ \A s \in Core \union Shard : s \notin Rendering /\ s \notin Plan
    /\ \A s \in Plan : s \notin Rendering /\ s \notin Core
    /\ None \notin Artifact
    /\ \A r \in Run, s \in Stage : <<r, s>> \in Artifact
BY StageNames DEF Core, Shard, Plan, Rendering, None, Artifact, Run

(* A task comes after those whose results it needs.                        *)
LEMMA TasksInOrder ==
    ASSUME NEW i \in DOMAIN Tasks, NEW p \in Needs(Tasks[i])
    PROVE  \E j \in 1..i - 1 : Tasks[j] = p
<1>1. CASE parallel
  <2>1. Tasks = parallelMatrixTasks /\ i \in {1, 2, 3, 4, 5, 6, 7, 8, 9, 10}
    BY <1>1 DEF Tasks, parallelMatrixTasks
  <2>2. /\ Tasks[1] = "evidence" /\ Tasks[2] = "rowsPlan" /\ Tasks[3] = "rowShard"
        /\ Tasks[4] = "rows" /\ Tasks[5] = "criticalPlan" /\ Tasks[6] = "criticalShard"
        /\ Tasks[7] = "verify" /\ Tasks[8] = "recommendation"
        /\ Tasks[9] = "report" /\ Tasks[10] = "publication"
    BY <2>1 DEF parallelMatrixTasks
  <2>3. CASE i \in {1, 2, 3, 4, 5}
    BY <1>1, <2>2, <2>3 DEF Needs, Inputs, Rendering
  <2>4. CASE i \in {6, 7, 8}
    BY <1>1, <2>2, <2>4 DEF Needs, Inputs, Rendering
  <2>5. CASE i \in {9, 10}
    BY <1>1, <2>2, <2>5 DEF Needs, Inputs, Rendering
  <2> QED
    BY <2>1, <2>3, <2>4, <2>5
<1>2. CASE ~parallel
  <2>1. Tasks = matrixTasks /\ i \in {1, 2, 3, 4, 5, 6}
    BY <1>2 DEF Tasks, matrixTasks
  <2>2. /\ Tasks[1] = "evidence" /\ Tasks[2] = "rows" /\ Tasks[3] = "verify"
        /\ Tasks[4] = "recommendation" /\ Tasks[5] = "report" /\ Tasks[6] = "publication"
    BY <2>1 DEF matrixTasks
  <2> QED
    BY <1>2, <2>1, <2>2 DEF Needs, Inputs, Rendering
<1> QED
  BY <1>1, <1>2

(* A task is a stage.                                                      *)
LEMMA TasksAreStages ==
    ASSUME NEW i \in DOMAIN Tasks PROVE Tasks[i] \in Stage
<1>1. CASE parallel
  BY <1>1 DEF Tasks, Stage
<1>2. CASE ~parallel
  <2>1. Tasks = matrixTasks /\ i \in {1, 2, 3, 4, 5, 6}
    BY <1>2 DEF Tasks, matrixTasks
  <2> QED
    BY <2>1, StageNames DEF matrixTasks
<1> QED
  BY <1>1, <1>2

(* A run is in its lineage, and the run it recovers.                       *)
LEMMA LineageIs ==
    ASSUME Typed, RunsInOrder, NEW r \in Run
    PROVE  /\ Lineage(r) \subseteq 1..r /\ r \in Lineage(r)
           /\ source[r] = r - 1 /\ r - 1 \in Run => r - 1 \in Lineage(r)
BY DEF Lineage, Run, Typed, RunsInOrder

(* What a run has succeeded with is the latest artifact of the stage.      *)
LEMMA LatestIs ==
    ASSUME Typed, RunsInOrder, OutputsRight, NEW r \in Run, NEW s \in Core, Succeeded(r, s)
    PROVE  LatestArtifact(r, s) = output[r][s]
<1> DEFINE found == {q \in Lineage(r) : refs[q][s] # {}}
<1>0. s \in Stage /\ r \in Nat /\ (r - 1 \in Run => r - 1 \in Nat)
  BY StageNames DEF Run
<1>1. found \subseteq 1..r
  BY LineageIs
<1>2. Original(r, s) \/ TakenOver(r, s)
  BY <1>0 DEF OutputsRight
<1>3. LatestArtifact(r, s) = IF found = {} THEN None ELSE CHOOSE a \in refs[Max(found)][s] : TRUE
  BY DEF LatestArtifact
<1>4. CASE Original(r, s)
  <2>1. r \in found
    BY <1>4, LineageIs DEF Original
  <2>2. Max(found) \in found /\ \A y \in found : y <= Max(found)
    <3> HIDE DEF found
    <3> QED
      BY <1>0, <1>1, <2>1, HasMax
  <2>3. Max(found) = r
    BY <1>0, <1>1, <2>1, <2>2
  <2> QED
    BY <1>3, <1>4, <2>1, <2>3 DEF Original
<1>5. CASE TakenOver(r, s)
  <2>1. r - 1 \in found /\ r \notin found
    BY <1>5, LineageIs DEF TakenOver
  <2>2. Max(found) \in found /\ \A y \in found : y <= Max(found)
    <3> HIDE DEF found
    <3> QED
      BY <1>0, <1>1, <2>1, HasMax
  <2>3. Max(found) = r - 1
    <3> DEFINE m == Max(found)
    <3>1. m \in 1..r /\ m # r /\ r - 1 <= m
      BY <1>1, <2>1, <2>2
    <3> HIDE DEF found, m
    <3>2. m = r - 1
      BY <1>0, <3>1
    <3> QED
      BY <3>2 DEF m
  <2> QED
    BY <1>3, <1>5, <2>1, <2>3 DEF TakenOver
<1> QED
  BY <1>2, <1>4, <1>5

(* What a stage reads is what the run has succeeded with.                  *)
LEMMA ReadsAreRight ==
    ASSUME Typed, RunsInOrder, OutputsRight, NEW e,
           e.run \in Run, e.stage \in Stage, Ready(e.run, e.stage)
    PROVE  ReadRight(e.run, e.stage, Reads(e))
<1> DEFINE r == e.run  s == e.stage
<1>1. \A i \in Inputs(s) : i \in Stage /\ Succeeded(r, i) /\ Present(output[r][i])
  BY InputsAreNeeded DEF Ready, OutputsRight
<1>2. ASSUME NEW i \in Inputs(s) PROVE InputOf(r, i) = output[r][i]
  <2>1. CASE i \in Shard
    BY <2>1 DEF InputOf
  <2>2. CASE i \notin Shard
    <3>1. i \in Core
      BY <2>2, InputsAreNeeded
    <3>2. LatestArtifact(r, i) = output[r][i]
      BY <1>1, <3>1, LatestIs
    <3> QED
      BY <2>2, <3>2 DEF InputOf
  <2> QED
    BY <2>1, <2>2
<1>3. Reads(e) = RightReads(r, s)
  BY <1>2 DEF Reads, RightReads
<1> QED
  BY <1>1, <1>3 DEF ReadRight, HasInputs

(* The references to artifacts are those of the nearest run with an entry. *)
LEMMA ArtifactsAreOf ==
    ASSUME Typed, NEW r \in Run, NEW s \in Stage, NEW a \in ArtifactsFor(r, s)
    PROVE  \E q \in Run \intersect Lineage(r) :
              /\ a \in refs[q][s] /\ <<q, s>> \in noted
              /\ \A p \in Lineage(r) : <<p, s>> \in noted => p <= q
<1> DEFINE found == {q \in Lineage(r) : <<q, s>> \in noted}
           q == Max(found)
<1>1. found \subseteq 1..r /\ found # {} /\ a \in refs[Max(found)][s] /\ r \in Nat
  BY DEF ArtifactsFor, Lineage, Run
<1>2. q \in found /\ \A p \in found : p <= q
  <2> HIDE DEF found
  <2> QED
    BY <1>1, HasMax
<1>3. q \in Run
  BY <1>2 DEF Typed
<1>4. /\ q \in Lineage(r) /\ <<q, s>> \in noted
      /\ \A p \in Lineage(r) : <<p, s>> \in noted => p <= q
  BY <1>2
<1>5. a \in refs[q][s]
  BY <1>1
<1> HIDE DEF q
<1> QED
  BY <1>3, <1>4, <1>5

(* The version of a run is one of the nearest run that has any.            *)
LEMMA VersionIsOf ==
    ASSUME Typed, NEW r \in Run, VersionOf(r) # 0
    PROVE  /\ VersionOf(r) \in DOMAIN versions
           /\ versions[VersionOf(r)] \in Version
           /\ versions[VersionOf(r)].run \in Lineage(r)
           /\ \A m \in DOMAIN versions :
                 versions[m].run \in Lineage(r) => versions[m].run <= versions[VersionOf(r)].run
<1> DEFINE owners == {q \in Lineage(r) : \E m \in DOMAIN versions : versions[m].run = q}
           own == {m \in DOMAIN versions : versions[m].run = Max(owners)}
           n == VersionOf(r)
<1>1. owners \subseteq 1..r /\ owners # {} /\ n = Max(own) /\ r \in Nat
  BY DEF VersionOf, Lineage, Run
<1>2. Max(owners) \in owners /\ \A p \in owners : p <= Max(owners)
  <2> HIDE DEF owners
  <2> QED
    BY <1>1, HasMax
<1>3. own \subseteq 1..Len(versions) /\ own # {} /\ Len(versions) \in Nat
  <2>1. \E m \in DOMAIN versions : versions[m].run = Max(owners)
    BY <1>2
  <2>2. DOMAIN versions = 1..Len(versions) /\ Len(versions) \in Nat
    BY DEF Typed
  <2>3. own \subseteq DOMAIN versions /\ own # {}
    <3> HIDE DEF owners
    <3> QED
      BY <2>1
  <2> QED
    BY <2>2, <2>3
<1>4. Max(own) \in own
  <2> HIDE DEF own
  <2> QED
    BY <1>3, HasMax
<1>5. n \in own
  BY <1>1, <1>4
<1>6. n \in DOMAIN versions /\ versions[n].run = Max(owners)
  BY <1>5
<1>7. versions[n] \in Version
  <2> HIDE DEF n
  <2> QED
    BY <1>6 DEF Typed
<1>8. \A m \in DOMAIN versions : versions[m].run \in Lineage(r) => versions[m].run \in owners
  OBVIOUS
<1> QED
  BY <1>2, <1>6, <1>7, <1>8

(* What is reused of a run is what it has noted, and what comes before.    *)
LEMMA ReusedIs ==
    ASSUME NEW r, NEW q, NEW s \in Reused(r, q)
    PROVE  /\ ~parallel /\ Succeeded(q, s) /\ refs[q][s] # {} /\ s \in Core \union Rendering
           /\ \A p \in Inputs(s) : p \in Reused(r, q)
<1>1. ~parallel
  BY DEF Reused
<1>2. DOMAIN matrixTasks = {1, 2, 3, 4, 5, 6}
  BY DEF matrixTasks
<1>3. PICK i \in DOMAIN matrixTasks :
        /\ s = matrixTasks[i]
        /\ \A j \in 1..i : Succeeded(q, matrixTasks[j]) /\ refs[q][matrixTasks[j]] # {}
  BY <1>1 DEF Reused
<1>4. i \in 1..i /\ i \in Int /\ Tasks = matrixTasks
  BY <1>1, <1>2 DEF Tasks
<1>5. Succeeded(q, s) /\ refs[q][s] # {} /\ s \in Stage
  BY <1>3, <1>4, TasksAreStages
<1>7. s \in Core \union Rendering
  BY <1>2, <1>3 DEF matrixTasks, Core, Rendering
<1>6. ASSUME NEW p \in Inputs(s) PROVE p \in Reused(r, q)
  <2>1. p \in Needs(s)
    BY <1>5, InputsAreNeeded
  <2>2. PICK j \in 1..i - 1 : matrixTasks[j] = p
    BY <1>3, <1>4, <2>1, TasksInOrder
  <2>3. j \in DOMAIN matrixTasks /\ \A k \in 1..j : k \in 1..i
    BY <1>2, <2>2
  <2> QED
    BY <1>1, <1>3, <2>2, <2>3 DEF Reused
<1> QED
  BY <1>1, <1>5, <1>6, <1>7

(***************************************************************************)
(* Every variable holds a value of its kind.                               *)
(***************************************************************************)

(* The invariant holds at first.                                           *)
LEMMA TypedInit ==
    Init => AnalysisInv
<1> SUFFICES ASSUME Init PROVE AnalysisInv
  OBVIOUS
<1> USE AnalysisAssumption DEF Init
<1>1. Typed
  <2>1. versions \in Seq(Version)
    OBVIOUS
  <2> QED
    BY <2>1, Distinct DEF Typed, Run
<1>2. \A r \in Run : Untouched(r)
  BY StageNames, Distinct DEF Untouched, Artifact
<1>3. RunsInOrder
  <2>1. \A r \in Run, s \in Stage : ~TakenOver(r, s)
    BY DEF TakenOver, Succeeded
  <2>2. \E k \in 0..MaxRun : \A r \in Run : state[r] # "NONE" <=> r <= k
    <3>1. 0 \in 0..MaxRun /\ \A r \in Run : ~(r <= 0)
      BY DEF Run
    <3> QED
      BY <3>1
  <2> QED
    BY <1>2, <2>1, <2>2, StageNames DEF RunsInOrder
<1>4. NotesRight /\ ContentsRight /\ OutputsRight
  BY Distinct DEF NotesRight, ContentsRight, OutputsRight, Succeeded
<1>5. ExecutionsRight /\ ClaimsDiffer
  BY DEF ExecutionsRight, ClaimsDiffer
<1>6. WritersDiffer /\ VersionsRight
  <2>1. \A r \in Run, s \in Rendering : content[<<r, s>>] = Absent
    BY StageNames, Distinct
  <2> QED
    BY <2>1 DEF WritersDiffer, VersionsRight
<1> QED
  BY <1>1, <1>3, <1>4, <1>5, <1>6 DEF AnalysisInv

(* What an execution becomes has its kind.                                 *)
LEMMA TypedBecomes ==
    ASSUME Typed, NEW e \in execution, NEW f, ExecutionTyped(f), Becomes(e, f)
    PROVE  \A g \in execution' : ExecutionTyped(g)
BY DEF Typed, Becomes

(* The same for a step that changes the phase only.                        *)
LEMMA TypedGoto ==
    ASSUME Typed, NEW e \in execution, NEW phase \in Phase, Goto(e, phase)
    PROVE  \A g \in execution' : ExecutionTyped(g)
<1>1. ExecutionTyped([e EXCEPT !.phase = phase])
  BY DEF Typed, ExecutionTyped, Fields
<1> QED
  BY <1>1, TypedBecomes DEF Goto

(* A note is made with a run, a stage and an artifact.                     *)
LEMMA TypedNote ==
    ASSUME Typed, NEW r \in Run, NEW s \in Stage, NEW a \in Artifact, Note(r, s, a)
    PROVE  /\ noted' \subseteq Run \X Stage
           /\ refs' \in [Run -> [Stage -> SUBSET Artifact]]
<1> USE DEF Typed, Note
<1>1. noted' \subseteq Run \X Stage
  OBVIOUS
<1>2. refs[r] \in [Stage -> SUBSET Artifact]
  OBVIOUS
<1>3. [refs[r] EXCEPT ![s] = @ \union {a}] \in [Stage -> SUBSET Artifact]
  BY <1>2
<1>4. [refs EXCEPT ![r][s] = @ \union {a}] \in [Run -> [Stage -> SUBSET Artifact]]
  BY <1>3
<1> QED
  BY <1>1, <1>4

(* Every action keeps the kinds.                                           *)
LEMMA TypedStep ==
    AnalysisInv /\ [Next]_vars => Typed'
<1> SUFFICES ASSUME AnalysisInv, [Next]_vars PROVE Typed'
  OBVIOUS
<1>0. Typed
  BY DEF AnalysisInv
<1> USE DEF runs, memory
<1>1. ASSUME NEW r \in Run, CreateRun(r) PROVE Typed'
  <2> DEFINE q == IF r > 1 /\ state[r - 1] = "FAILED" THEN r - 1 ELSE 0
  <2>1. q \in {0} \union Run
    BY AnalysisAssumption DEF Run
  <2>2. [s \in Stage |-> IF q # 0 /\ s \in Reused(r, q) THEN output[q][s] ELSE None]
           \in [Stage -> Artifact \union {None}]
    BY <1>0, <2>1 DEF Typed
  <2>3. output' = [output EXCEPT ![r] =
              [s \in Stage |-> IF q # 0 /\ s \in Reused(r, q) THEN output[q][s] ELSE None]]
    BY <1>1 DEF CreateRun
  <2>4. output' \in [Run -> [Stage -> Artifact \union {None}]]
    <3> HIDE DEF q
    <3> QED
      BY <1>0, <2>2, <2>3 DEF Typed
  <2>5. /\ state' = [state EXCEPT ![r] = "ACTIVE"] /\ source' = [source EXCEPT ![r] = q]
        /\ UNCHANGED <<parallel, planned, memory, content, versions, execution, holder, losses>>
    BY <1>1 DEF CreateRun
  <2> HIDE DEF q
  <2>6. /\ state' \in [Run -> {"NONE", "ACTIVE", "SUCCEEDED", "FAILED"}]
        /\ source' \in [Run -> {0} \union Run]
    BY <1>0, <2>1, <2>5 DEF Typed
  <2> QED
    BY <1>0, <2>4, <2>5, <2>6 DEF Typed, ExecutionTyped
<1>2. ASSUME NEW r \in Run, Start(r) PROVE Typed'
  <2>1. PICK i \in DOMAIN Tasks :
          /\ holder' = [holder EXCEPT ![r] = losses + 1]
          /\ execution' = execution \union
                {[run |-> r, stage |-> Tasks[i], by |-> losses + 1, phase |-> "work",
                  made |-> losses + 1, reads |-> <<>>, of |-> None, number |-> 0]}
    BY <1>2 DEF Start
  <2>2. Tasks[i] \in Stage
    BY TasksAreStages
  <2>3. ExecutionTyped([run |-> r, stage |-> Tasks[i], by |-> losses + 1, phase |-> "work",
                  made |-> losses + 1, reads |-> <<>>, of |-> None, number |-> 0])
    BY <1>0, <2>2, AnalysisAssumption DEF ExecutionTyped, Fields, Phase, Typed
  <2>4. holder' \in [Run -> 0..MaxLoss + 1]
    BY <1>0, <2>1, AnalysisAssumption DEF Typed
  <2>5. UNCHANGED <<runs, output, planned, memory, content, versions, losses>>
    BY <1>2 DEF Start
  <2>6. \A g \in execution' : ExecutionTyped(g)
    BY <1>0, <2>1, <2>3 DEF Typed
  <2> QED
    BY <1>0, <2>4, <2>5, <2>6 DEF Typed, ExecutionTyped
<1>3. ASSUME NEW r \in Run, Lose(r) PROVE Typed'
  <2>1. holder' \in [Run -> 0..MaxLoss + 1] /\ losses' \in 0..MaxLoss
    BY <1>0, <1>3, AnalysisAssumption DEF Typed, Lose
  <2> QED
    BY <1>0, <1>3, <2>1 DEF Typed, Lose, ExecutionTyped
<1>4. ASSUME NEW e \in execution, Work(e) PROVE Typed'
  <2>0. ExecutionTyped(e) /\ <<e.run, e.stage>> \in Artifact
    BY <1>0, Distinct DEF Typed, ExecutionTyped
  <2>1. CASE Read(e)
    <3> DEFINE f == [e EXCEPT !.phase = "store", !.reads = Reads(e), !.of = <<e.run, e.stage>>,
                            !.number = IF e.stage \in Rendering THEN Len(versions) + 1 ELSE 0]
    <3>1. Len(versions) \in Nat
      BY <1>0 DEF Typed
    <3>2. ExecutionTyped(f)
      BY <2>0, <3>1 DEF ExecutionTyped, Fields, Phase
    <3>3. \A g \in execution' : ExecutionTyped(g)
      <4>1. Becomes(e, f)
        BY <2>1 DEF Read
      <4> HIDE DEF f
      <4> QED
        BY <1>0, <3>2, <4>1, TypedBecomes
    <3> QED
      BY <1>0, <2>1, <3>3 DEF Typed, Read, ExecutionTyped
  <2>2. CASE FindReport(e)
    <3>1. PICK a \in ArtifactsFor(e.run, "report") :
            Becomes(e, [e EXCEPT !.of = a, !.phase = IF e.stage = "report" THEN "record" ELSE "publish"])
      BY <2>2 DEF FindReport
    <3>2. ArtifactsFor(e.run, "report") = {a}
      BY <2>2, <3>1 DEF FindReport
    <3>3. a \in Artifact
      <4>1. PICK q \in Run : a \in refs[q]["report"]
        BY <1>0, <2>0, StageNames, ArtifactsAreOf DEF ExecutionTyped
      <4> QED
        BY <1>0, <4>1, StageNames DEF Typed
    <3>4. ExecutionTyped([e EXCEPT !.of = a, !.phase = IF e.stage = "report" THEN "record" ELSE "publish"])
      BY <2>0, <3>3 DEF ExecutionTyped, Fields, Phase
    <3>5. \A g \in execution' : ExecutionTyped(g)
      BY <1>0, <3>1, <3>4, TypedBecomes
    <3> QED
      BY <1>0, <2>2, <3>5 DEF Typed, FindReport, ExecutionTyped
  <2>3. CASE PlanShards(e)
    <3> DEFINE r == e.run
               shard == ShardOf(e.stage)
               old == IF source[r] = 0 THEN None ELSE output[source[r]][shard]
               new == <<r, e.stage>> \notin planned
    <3>0. /\ r \in Run /\ shard \in Stage /\ e.stage \in Plan
          /\ source[r] \in {0} \union Run
      BY <1>0, <2>0, <2>3, StageNames DEF PlanShards, ExecutionTyped, ShardOf, Typed
    <3>1. CASE holder[r] = 0 \/ Succeeded(r, e.stage)
      <4>1. Goto(e, "failed") /\ UNCHANGED <<output, planned>>
        BY <2>3, <3>1 DEF PlanShards
      <4>2. \A g \in execution' : ExecutionTyped(g)
        BY <1>0, <4>1, TypedGoto DEF Phase
      <4> QED
        BY <1>0, <2>3, <4>1, <4>2 DEF Typed, PlanShards, ExecutionTyped
    <3>2. CASE ~(holder[r] = 0 \/ Succeeded(r, e.stage))
      <4> DEFINE f == [e EXCEPT !.phase = "store", !.reads = Reads(e), !.of = <<r, e.stage>>,
                                        !.made = IF new THEN @ ELSE 0]
      <4>1. /\ planned' = planned \union {<<r, e.stage>>}
            /\ \E same \in BOOLEAN :
                  output' = IF new /\ same THEN [output EXCEPT ![r][shard] = old] ELSE output
            /\ Becomes(e, f)
        BY <2>3, <3>2 DEF PlanShards
      <4>2. ExecutionTyped(f)
        BY <2>0 DEF ExecutionTyped, Fields, Phase
      <4>3. \A g \in execution' : ExecutionTyped(g)
        <5> HIDE DEF f
        <5> QED
          BY <1>0, <4>1, <4>2, TypedBecomes
      <4>4. old \in Artifact \union {None}
        BY <1>0, <3>0 DEF Typed
      <4>5. [output EXCEPT ![r][shard] = old] \in [Run -> [Stage -> Artifact \union {None}]]
        <5> HIDE DEF old, shard, r
        <5> QED
          BY <1>0, <3>0, <4>4 DEF Typed
      <4>6. output' \in [Run -> [Stage -> Artifact \union {None}]]
        BY <1>0, <4>1, <4>5 DEF Typed
      <4>7. planned' \subseteq Run \X Plan
        BY <1>0, <3>0, <4>1 DEF Typed
      <4> QED
        BY <1>0, <2>3, <4>3, <4>6, <4>7 DEF Typed, PlanShards, ExecutionTyped
    <3> QED
      BY <3>1, <3>2
  <2>4. CASE Break(e)
    <3>1. \A g \in execution' : ExecutionTyped(g)
      BY <1>0, <2>4, TypedGoto DEF Break, Phase
    <3> QED
      BY <1>0, <2>4, <3>1 DEF Typed, Break, ExecutionTyped
  <2>5. CASE Store(e)
    <3>1. \A g \in execution' : ExecutionTyped(g)
      BY <1>0, <2>5, TypedGoto DEF Store, Phase
    <3>2. /\ noted' \subseteq Run \X Stage
          /\ refs' \in [Run -> [Stage -> SUBSET Artifact]]
      <4>1. CASE UNCHANGED memory
        BY <1>0, <4>1 DEF Typed
      <4>2. CASE Note(e.run, e.stage, <<e.run, e.stage>>)
        BY <1>0, <2>0, <4>2, TypedNote DEF ExecutionTyped
      <4> QED
        BY <2>5, <4>1, <4>2 DEF Store
    <3>3. DOMAIN content' = Artifact
      BY <1>0, <2>5 DEF Store, Typed
    <3> QED
      BY <1>0, <2>5, <3>1, <3>2, <3>3 DEF Typed, Store, ExecutionTyped
  <2>6. CASE AddVersion(e)
    <3>1. \A g \in execution' : ExecutionTyped(g)
      BY <1>0, <2>6, TypedGoto DEF AddVersion, Phase
    <3>2. e.of \in Artifact
      BY <2>6, Distinct, <2>0 DEF AddVersion, AnalysisInv, ExecutionsRight, PhaseRight
    <3>3. [run |-> e.run, of |-> e.of, onDrive |-> FALSE] \in Version
      BY <2>0, <3>2 DEF Version, ExecutionTyped
    <3>4. versions' \in Seq(Version)
      BY <1>0, <2>6, <3>3 DEF AddVersion, Typed
    <3> QED
      BY <1>0, <2>6, <3>1, <3>4 DEF Typed, AddVersion, ExecutionTyped
  <2>7. CASE RecordReport(e)
    <3>1. \A g \in execution' : ExecutionTyped(g)
      BY <1>0, <2>7, TypedGoto DEF RecordReport, Phase
    <3>2. e.of \in Artifact
      BY <2>7, <2>0 DEF RecordReport, AnalysisInv, ExecutionsRight, PhaseRight, Settled, Present
    <3>3. /\ noted' \subseteq Run \X Stage
          /\ refs' \in [Run -> [Stage -> SUBSET Artifact]]
      BY <1>0, <2>0, <2>7, <3>2, TypedNote, StageNames DEF RecordReport, ExecutionTyped
    <3> QED
      BY <1>0, <2>7, <3>1, <3>3 DEF Typed, RecordReport, ExecutionTyped
  <2>8. CASE Publish(e)
    <3> DEFINE n == VersionOf(e.run)
    <3>1. CASE n # 0 /\ versions[n].onDrive
      <4>1. Becomes(e, [e EXCEPT !.phase = "done", !.of = versions[n].of]) /\ UNCHANGED versions
        BY <2>8, <3>1 DEF Publish
      <4>2. n \in DOMAIN versions /\ versions[n] \in Version
        BY <1>0, <2>0, <3>1, VersionIsOf DEF ExecutionTyped
      <4> HIDE DEF n
      <4>3. versions[n].of \in Artifact
        BY <4>2 DEF Version
      <4>4. ExecutionTyped([e EXCEPT !.phase = "done", !.of = versions[n].of])
        BY <2>0, <4>3 DEF ExecutionTyped, Fields, Phase
      <4>5. \A g \in execution' : ExecutionTyped(g)
        BY <1>0, <4>1, <4>4, TypedBecomes
      <4> QED
        BY <1>0, <2>8, <4>1, <4>5 DEF Typed, Publish, ExecutionTyped
    <3>2. CASE ~(n # 0 /\ versions[n].onDrive) /\ (n = 0 \/ ~Holding(e) \/ versions[n].of # e.of)
      <4>1. Goto(e, "failed") /\ UNCHANGED versions
        BY <2>8, <3>2 DEF Publish
      <4>2. \A g \in execution' : ExecutionTyped(g)
        BY <1>0, <4>1, TypedGoto DEF Phase
      <4> QED
        BY <1>0, <2>8, <4>1, <4>2 DEF Typed, Publish, ExecutionTyped
    <3>3. CASE ~(n # 0 /\ versions[n].onDrive) /\ ~(n = 0 \/ ~Holding(e) \/ versions[n].of # e.of)
      <4>1. versions' = [versions EXCEPT ![n].onDrive = TRUE] /\ Goto(e, "done")
        BY <2>8, <3>3 DEF Publish
      <4>2. n \in DOMAIN versions /\ versions[n] \in Version
        BY <1>0, <2>0, <3>3, VersionIsOf DEF ExecutionTyped
      <4>3. [versions[n] EXCEPT !.onDrive = TRUE] \in Version
        <5> HIDE DEF n
        <5> QED
          BY <4>2 DEF Version
      <4>4. versions' = [versions EXCEPT ![n] = [versions[n] EXCEPT !.onDrive = TRUE]]
        BY <4>1
      <4>5. versions' \in Seq(Version)
        <5> HIDE DEF n
        <5> QED
          BY <1>0, <4>2, <4>3, <4>4, ExceptSeq DEF Typed
      <4>6. \A g \in execution' : ExecutionTyped(g)
        BY <1>0, <4>1, TypedGoto DEF Phase
      <4> QED
        BY <1>0, <2>8, <4>5, <4>6 DEF Typed, Publish, ExecutionTyped
    <3> QED
      BY <3>1, <3>2, <3>3
  <2>9. CASE Outcome(e)
    <3>1. output' \in [Run -> [Stage -> Artifact \union {None}]]
      <4>1. [output EXCEPT ![e.run][e.stage] = e.of] \in [Run -> [Stage -> Artifact \union {None}]]
        BY <1>0, <2>0 DEF Typed, ExecutionTyped
      <4> QED
        BY <1>0, <2>9, <4>1 DEF Typed, Outcome
    <3>2. state' \in [Run -> {"NONE", "ACTIVE", "SUCCEEDED", "FAILED"}]
      <4>1. CASE ~Holding(e)
        BY <1>0, <2>9, <4>1 DEF Typed, Outcome
      <4>2. CASE Holding(e)
        <5>1. PICK end \in {"SUCCEEDED", "FAILED"} :
                state' = CASE e.phase = "failed" -> [state EXCEPT ![e.run] = "FAILED"]
                         [] e.phase = "done" /\ e.stage = "publication" -> [state EXCEPT ![e.run] = end]
                         [] OTHER -> state
          BY <2>9, <4>2 DEF Outcome
        <5>2. state' = state \/ \E x \in {"SUCCEEDED", "FAILED"} : state' = [state EXCEPT ![e.run] = x]
          BY <5>1
        <5> QED
          BY <1>0, <5>2 DEF Typed
      <4> QED
        BY <4>1, <4>2
    <3>3. holder' \in [Run -> 0..MaxLoss + 1]
      <4>1. 0 \in 0..MaxLoss + 1
        BY AnalysisAssumption
      <4> QED
        BY <1>0, <2>9, <4>1 DEF Typed, Outcome
    <3>4. \A g \in execution' : ExecutionTyped(g)
      BY <1>0, <2>9 DEF Typed, Outcome
    <3> QED
      BY <1>0, <2>9, <3>1, <3>2, <3>3, <3>4 DEF Typed, Outcome, ExecutionTyped
  <2> QED
    BY <1>4, <2>1, <2>2, <2>3, <2>4, <2>5, <2>6, <2>7, <2>8, <2>9 DEF Work
<1>5. CASE UNCHANGED vars
  BY <1>0, <1>5 DEF vars, Typed, ExecutionTyped
<1> QED
  BY <1>1, <1>2, <1>3, <1>4, <1>5 DEF Next

(***************************************************************************)
(* What there is stays.                                                    *)
(***************************************************************************)

Grown ==
    /\ parallel' = parallel /\ losses' >= losses
    /\ \A a \in Artifact : content[a] # Absent => content'[a] = content[a]
    /\ \A r \in Run : state[r] # "NONE" => state'[r] # "NONE" /\ source'[r] = source[r]
    /\ \A r \in Run, s \in Stage : output[r][s] # None =>
          /\ output'[r][s] # None
          /\ s \notin Rendering => output'[r][s] = output[r][s]
    /\ planned \subseteq planned' /\ noted \subseteq noted'
    /\ \A r \in Run, s \in Stage : refs[r][s] \subseteq refs'[r][s]

(* The run that is created is the first that is not there.                 *)
LEMMA NextRun ==
    ASSUME Typed, RunsInOrder, NEW r \in Run, CreateRun(r)
    PROVE  \A p \in Run : state[p] # "NONE" <=> p < r
<1>1. PICK k \in 0..MaxRun : \A p \in Run : state[p] # "NONE" <=> p <= k
  BY DEF RunsInOrder
<1>2. {p \in Run : state[p] # "NONE"} = 1..k
  BY <1>1, AnalysisAssumption DEF Run
<1>3. Created = k
  <2>1. k \in Nat /\ k \in Int
    BY AnalysisAssumption
  <2>2. Cardinality(1..k) = k
    BY <2>1, FS_Interval
  <2> QED
    BY <1>2, <2>2 DEF Created
<1>4. r = k + 1
  BY <1>3 DEF CreateRun
<1> QED
  BY <1>1, <1>4 DEF Run

(* A note adds its entry, and changes the references of no other.          *)
LEMMA NoteGrows ==
    ASSUME Typed, NEW r \in Run, NEW s \in Stage, NEW a, Note(r, s, a)
    PROVE  /\ noted' = noted \union {<<r, s>>}
           /\ \A p \in Run, t \in Stage : refs[p][t] \subseteq refs'[p][t]
           /\ \A p \in Run, t \in Stage : <<p, t>> # <<r, s>> => refs'[p][t] = refs[p][t]
           /\ refs'[r][s] \subseteq refs[r][s] \union {a}
           /\ (\A q \in Run \ {r} : a \notin refs[q][s]) => a \in refs'[r][s]
<1>1. CASE \E q \in Run : a \in refs[q][s]
  BY <1>1 DEF Note
<1>2. CASE ~ \E q \in Run : a \in refs[q][s]
  <2>1. refs' = [refs EXCEPT ![r][s] = @ \union {a}] /\ noted' = noted \union {<<r, s>>}
    BY <1>2 DEF Note
  <2>2. \A p \in Run, t \in Stage : refs'[p][t] =
           IF p = r /\ t = s THEN refs[r][s] \union {a} ELSE refs[p][t]
    BY <2>1 DEF Typed
  <2> QED
    BY <2>1, <2>2
<1> QED
  BY <1>1, <1>2

(* No action takes back what the stages build on.                          *)
LEMMA Grows ==
    AnalysisInv /\ [Next]_vars => Grown
<1> SUFFICES ASSUME AnalysisInv, [Next]_vars PROVE Grown
  OBVIOUS
<1>0. Typed /\ RunsInOrder /\ OutputsRight
  BY DEF AnalysisInv
<1> USE DEF runs, memory
<1>1. ASSUME NEW r \in Run, CreateRun(r) PROVE Grown
  <2>1. state[r] = "NONE" /\ Untouched(r)
    BY <1>0, <1>1, NextRun DEF RunsInOrder, Run
  <2>2. /\ \A p \in Run : p # r => state'[p] = state[p] /\ source'[p] = source[p]
        /\ \A p \in Run, s \in Stage : p # r => output'[p][s] = output[p][s]
        /\ UNCHANGED <<parallel, planned, memory, content, versions, execution, holder, losses>>
    BY <1>0, <1>1 DEF CreateRun, Typed
  <2>3. \A s \in Stage : output[r][s] = None
    BY <2>1 DEF Untouched
  <2> QED
    BY <1>0, <2>1, <2>2, <2>3 DEF Grown, Typed
<1>2. ASSUME NEW r \in Run, Start(r) PROVE Grown
  BY <1>0, <1>2 DEF Grown, Start, Typed
<1>3. ASSUME NEW r \in Run, Lose(r) PROVE Grown
  BY <1>0, <1>3 DEF Grown, Lose, Typed
<1>4. ASSUME NEW e \in execution, Work(e) PROVE Grown
  <2>0. ExecutionTyped(e) /\ <<e.run, e.stage>> \in Artifact /\ e.run \in Run /\ e.stage \in Stage
    BY <1>0, Distinct DEF Typed, ExecutionTyped
  <2>00. PhaseRight(e) /\ (e.stage \notin Rendering /\ Succeeded(e.run, e.stage)
            => output[e.run][e.stage] = <<e.run, e.stage>>)
    BY DEF AnalysisInv, ExecutionsRight
  <2>1. CASE Read(e)
    BY <1>0, <2>1 DEF Grown, Read, Typed
  <2>2. CASE FindReport(e)
    BY <1>0, <2>2 DEF Grown, FindReport, Typed
  <2>3. CASE PlanShards(e)
    <3> DEFINE r == e.run
               shard == ShardOf(e.stage)
               old == IF source[r] = 0 THEN None ELSE output[source[r]][shard]
    <3>1. /\ UNCHANGED <<runs, memory, content, versions, holder, losses>>
          /\ planned \subseteq planned'
          /\ \/ output' = output
             \/ <<r, e.stage>> \notin planned /\ output' = [output EXCEPT ![r][shard] = old]
      BY <2>3 DEF PlanShards
    <3>2. CASE output' = output
      BY <1>0, <3>1, <3>2 DEF Grown, Typed
    <3>3. CASE <<r, e.stage>> \notin planned /\ output' = [output EXCEPT ![r][shard] = old]
      <4>1. /\ shard \in Stage
            /\ e.stage = IF shard = "rowShard" THEN "rowsPlan" ELSE "criticalPlan"
            /\ shard \in Shard
        BY <2>3, StageNames DEF PlanShards, ShardOf, Plan, Shard
      <4>2. output[r][shard] = None
        BY <1>0, <2>0, <3>3, <4>1 DEF OutputsRight, Succeeded, Shard
      <4>3. \A p \in Run, s \in Stage : ~(p = r /\ s = shard) => output'[p][s] = output[p][s]
        BY <1>0, <2>0, <3>3, <4>1 DEF Typed
      <4> HIDE DEF r, shard, old
      <4> QED
        BY <1>0, <3>1, <4>2, <4>3 DEF Grown, Typed
    <3> QED
      BY <3>1, <3>2, <3>3
  <2>4. CASE Break(e)
    BY <1>0, <2>4 DEF Grown, Break, Typed
  <2>5. CASE Store(e)
    <3>1. \/ UNCHANGED memory
          \/ Note(e.run, e.stage, <<e.run, e.stage>>)
      BY <2>5 DEF Store
    <3>2. noted \subseteq noted' /\ \A r \in Run, s \in Stage : refs[r][s] \subseteq refs'[r][s]
      BY <1>0, <2>0, <3>1, NoteGrows
    <3>3. \A a \in Artifact : content[a] # Absent => content'[a] = content[a]
      BY <1>0, <2>0, <2>5 DEF Store, Typed
    <3> QED
      BY <1>0, <2>5, <3>2, <3>3 DEF Grown, Store, Typed
  <2>6. CASE AddVersion(e)
    BY <1>0, <2>6 DEF Grown, AddVersion, Typed
  <2>7. CASE RecordReport(e)
    <3>1. noted \subseteq noted' /\ \A r \in Run, s \in Stage : refs[r][s] \subseteq refs'[r][s]
      BY <1>0, <2>0, <2>7, NoteGrows, StageNames DEF RecordReport
    <3> QED
      BY <1>0, <2>7, <3>1 DEF Grown, RecordReport, Typed
  <2>8. CASE Publish(e)
    BY <1>0, <2>8 DEF Grown, Publish, Typed
  <2>9. CASE Outcome(e)
    <3>1. \A r \in Run : state[r] # "NONE" => state'[r] # "NONE"
      BY <1>0, <2>9 DEF Outcome, Typed
    <3>2. \/ output' = output
          \/ e.phase = "done" /\ output' = [output EXCEPT ![e.run][e.stage] = e.of]
      BY <2>9 DEF Outcome
    <3>3. \A r \in Run, s \in Stage : output[r][s] # None =>
              output'[r][s] # None /\ (s \notin Rendering => output'[r][s] = output[r][s])
      <4>1. CASE output' = output
        BY <4>1
      <4>2. CASE e.phase = "done" /\ output' = [output EXCEPT ![e.run][e.stage] = e.of]
        <5>1. \A p \in Run, s \in Stage : output'[p][s] =
                  IF p = e.run /\ s = e.stage THEN e.of ELSE output[p][s]
          BY <1>0, <2>0, <4>2 DEF Typed
        <5>2. e.of # None /\ (e.stage \notin Rendering => e.of = <<e.run, e.stage>>)
          BY <2>00, <4>2, Distinct DEF PhaseRight, Present
        <5> QED
          BY <2>00, <5>1, <5>2 DEF Succeeded
      <4> QED
        BY <3>2, <4>1, <4>2
    <3>4. UNCHANGED <<parallel, source, planned, memory, content, versions, losses>>
      BY <2>9 DEF Outcome
    <3> QED
      BY <1>0, <3>1, <3>3, <3>4 DEF Grown, Typed
  <2> QED
    BY <1>4, <2>1, <2>2, <2>3, <2>4, <2>5, <2>6, <2>7, <2>8, <2>9 DEF Work
<1>5. CASE UNCHANGED vars
  BY <1>0, <1>5 DEF vars, Grown, Typed
<1> QED
  BY <1>1, <1>2, <1>3, <1>4, <1>5 DEF Next

(* So what a run has, and what was read of it, stays right.                *)
LEMMA Stays ==
    ASSUME AnalysisInv, Typed', Grown
    PROVE  /\ \A a : Present(a) => Present(a)' /\ content'[a] = content[a]
           /\ \A r \in Run, s \in Stage : Succeeded(r, s) => Succeeded(r, s)'
           /\ \A r \in Run, s \in Stage : Ready(r, s) => Ready(r, s)'
           /\ \A r \in Run, s \in Stage : \A reads :
                 Ready(r, s) /\ ReadRight(r, s, reads) => ReadRight(r, s, reads)'
           /\ \A r \in Run : \A a : About(r, a) => About(r, a)'
<1>0. Typed
  BY DEF AnalysisInv
<1>1. ASSUME NEW a, Present(a) PROVE Present(a)' /\ content'[a] = content[a]
  BY <1>1 DEF Present, Grown
<1>2. \A r \in Run, s \in Stage : Succeeded(r, s) => Succeeded(r, s)'
  BY DEF Succeeded, Grown
<1>3. \A s \in Stage : Needs(s)' = Needs(s) /\ Inputs(s)' = Inputs(s)
  BY DEF Needs, Inputs, Grown
<1>4. \A r \in Run, s \in Stage : Ready(r, s) => Ready(r, s)'
  BY <1>2, <1>3, InputsAreNeeded DEF Ready
<1>5. ASSUME NEW r \in Run, NEW s \in Stage, NEW reads, Ready(r, s), ReadRight(r, s, reads)
      PROVE  ReadRight(r, s, reads)'
  <2>1. \A i \in Inputs(s) : output'[r][i] = output[r][i] /\ Present(output[r][i])
    BY <1>5, InputsAreNeeded, Distinct DEF Ready, Succeeded, Grown, ReadRight, HasInputs
  <2>2. HasInputs(r, s)'
    BY <1>1, <1>3, <2>1 DEF HasInputs
  <2>3. RightReads(r, s)' = RightReads(r, s)
    BY <1>1, <1>3, <2>1 DEF RightReads
  <2> QED
    BY <1>5, <2>2, <2>3 DEF ReadRight
<1>6. ASSUME NEW r \in Run, NEW a, About(r, a) PROVE About(r, a)'
  <2>1. output'[r]["recommendation"] = output[r]["recommendation"]
    BY <1>6, StageNames DEF About, Succeeded, Grown, Rendering
  <2> QED
    BY <1>1, <1>2, <1>6, <2>1, StageNames DEF About
<1> QED
  BY <1>1, <1>2, <1>4, <1>5, <1>6

(* What an execution becomes: a new one, or the next of one that was there. *)
Begins(r, f) ==
    /\ f.run = r /\ f.phase = "work" /\ f.by = losses + 1 /\ f.made = losses + 1 /\ f.reads = <<>>
    /\ f.stage \in Stage /\ Ready(r, f.stage) /\ ~Succeeded(r, f.stage)
    /\ state[r] = "ACTIVE" /\ holder[r] = 0 /\ holder' = [holder EXCEPT ![r] = losses + 1]
    /\ execution' = execution \union {f}
Follows(e, f) ==
    /\ f.run = e.run /\ f.stage = e.stage /\ f.by = e.by
    /\ f.made = e.made \/ (e.stage \in Plan /\ f.made = 0)
    /\ f.phase # "work" /\ f.phase # e.phase
    /\ f.phase \in {"store", "version"} => e.phase \in {"work", "store"}
    /\ execution' = (execution \ {e}) \union {f}

(* An execution begins with the first task that is not done.               *)
LEMMA StartBegins ==
    ASSUME Typed, NEW r \in Run, Start(r)
    PROVE  \E f : Begins(r, f)
<1>1. PICK i \in DOMAIN Tasks :
          /\ ~Succeeded(r, Tasks[i]) /\ \A j \in 1..i - 1 : Succeeded(r, Tasks[j])
          /\ holder' = [holder EXCEPT ![r] = losses + 1]
          /\ execution' = execution \union
                {[run |-> r, stage |-> Tasks[i], by |-> losses + 1, phase |-> "work",
                  made |-> losses + 1, reads |-> <<>>, of |-> None, number |-> 0]}
  BY DEF Start
<1>2. Ready(r, Tasks[i]) /\ Tasks[i] \in Stage
  BY <1>1, TasksInOrder, TasksAreStages DEF Ready
<1>3. state[r] = "ACTIVE" /\ holder[r] = 0
  BY DEF Start
<1> DEFINE f == [run |-> r, stage |-> Tasks[i], by |-> losses + 1, phase |-> "work",
                  made |-> losses + 1, reads |-> <<>>, of |-> None, number |-> 0]
<1>4. Begins(r, f)
  BY <1>1, <1>2, <1>3 DEF Begins
<1> QED
  BY <1>4

(* A change of the phase is a step of the execution.                       *)
LEMMA GotoFollows ==
    ASSUME Typed, NEW e \in execution, NEW phase, Goto(e, phase), phase # e.phase, phase # "work",
           phase \in {"store", "version"} => e.phase \in {"work", "store"}
    PROVE  \E f : Follows(e, f) /\ f = [e EXCEPT !.phase = phase] /\ f.phase = phase /\ f.of = e.of
                  /\ f.made = e.made /\ f.reads = e.reads
<1> DEFINE f == [e EXCEPT !.phase = phase]
<1>1. DOMAIN e = Fields
  BY DEF Typed, ExecutionTyped
<1>2. /\ f.run = e.run /\ f.stage = e.stage /\ f.by = e.by /\ f.made = e.made /\ f.phase = phase
      /\ f.of = e.of /\ f.reads = e.reads
  BY <1>1 DEF Fields
<1>3. execution' = (execution \ {e}) \union {f}
  BY DEF Goto, Becomes
<1> HIDE DEF f
<1>4. Follows(e, f)
  BY <1>2, <1>3 DEF Follows
<1> QED
  BY <1>2, <1>4 DEF f

(* An execution that works becomes another one.                            *)
LEMMA WorkFollows ==
    ASSUME AnalysisInv, NEW e \in execution, Work(e), ~Outcome(e)
    PROVE  \E f : Follows(e, f)
<1>0. DOMAIN e = Fields /\ Typed
  BY DEF AnalysisInv, Typed, ExecutionTyped
<1>1. CASE Read(e)
  <2> DEFINE f == [e EXCEPT !.phase = "store", !.reads = Reads(e), !.of = <<e.run, e.stage>>,
                          !.number = IF e.stage \in Rendering THEN Len(versions) + 1 ELSE 0]
  <2>1. /\ f.run = e.run /\ f.stage = e.stage /\ f.by = e.by /\ f.made = e.made
        /\ f.phase = "store"
    BY <1>0 DEF Fields
  <2>2. e.phase = "work" /\ execution' = (execution \ {e}) \union {f}
    BY <1>1 DEF Read, Becomes
  <2> HIDE DEF f
  <2>3. Follows(e, f)
    BY <2>1, <2>2 DEF Follows
  <2> QED
    BY <2>3
<1>2. CASE FindReport(e)
  <2>1. PICK a : Becomes(e, [e EXCEPT !.of = a, !.phase = IF e.stage = "report" THEN "record" ELSE "publish"])
    BY <1>2 DEF FindReport
  <2> DEFINE f == [e EXCEPT !.of = a, !.phase = IF e.stage = "report" THEN "record" ELSE "publish"]
  <2>2. /\ f.run = e.run /\ f.stage = e.stage /\ f.by = e.by /\ f.made = e.made
        /\ f.phase \in {"record", "publish"}
    BY <1>0 DEF Fields
  <2>3. e.phase = "work" /\ execution' = (execution \ {e}) \union {f}
    BY <1>2, <2>1 DEF FindReport, Becomes
  <2> HIDE DEF f
  <2>4. Follows(e, f)
    BY <2>2, <2>3 DEF Follows
  <2> QED
    BY <2>4
<1>3. CASE PlanShards(e)
  <2>1. CASE Goto(e, "failed")
    BY <1>0, <1>3, <2>1, GotoFollows DEF PlanShards
  <2>2. CASE ~Goto(e, "failed")
    <3> DEFINE f == [e EXCEPT !.phase = "store", !.reads = Reads(e), !.of = <<e.run, e.stage>>,
                              !.made = IF <<e.run, e.stage>> \notin planned THEN @ ELSE 0]
    <3>1. e.phase = "work" /\ e.stage \in Plan /\ execution' = (execution \ {e}) \union {f}
      BY <1>3, <2>2 DEF PlanShards, Becomes
    <3>2. /\ f.run = e.run /\ f.stage = e.stage /\ f.by = e.by /\ f.made \in {e.made, 0}
          /\ f.phase = "store"
      BY <1>0 DEF Fields
    <3> HIDE DEF f
    <3>3. Follows(e, f)
      BY <3>1, <3>2 DEF Follows
    <3> QED
      BY <3>3
  <2> QED
    BY <2>1, <2>2
<1>4. CASE Break(e)
  BY <1>0, <1>4, GotoFollows DEF Break
<1>5. CASE Store(e)
  <2>1. e.phase = "store" /\ (Goto(e, "failed") \/ Goto(e, "version") \/ Goto(e, "done"))
    BY <1>5 DEF Store
  <2> QED
    BY <1>0, <2>1, GotoFollows
<1>6. CASE AddVersion(e)
  <2>1. e.phase = "version" /\ (Goto(e, "record") \/ Goto(e, "publish"))
    BY <1>6 DEF AddVersion
  <2> QED
    BY <1>0, <2>1, GotoFollows
<1>7. CASE RecordReport(e)
  <2>1. e.phase = "record" /\ Goto(e, "done")
    BY <1>7 DEF RecordReport
  <2> QED
    BY <1>0, <2>1, GotoFollows
<1>8. CASE Publish(e)
  <2> DEFINE n == VersionOf(e.run)
  <2>0. e.phase = "publish"
    BY <1>8 DEF Publish
  <2>1. CASE Goto(e, "failed") \/ Goto(e, "done")
    BY <1>0, <2>0, <2>1, GotoFollows
  <2>2. CASE Becomes(e, [e EXCEPT !.phase = "done", !.of = versions[n].of])
    <3> DEFINE a == versions[n].of
               f == [e EXCEPT !.phase = "done", !.of = a]
    <3>1. execution' = (execution \ {e}) \union {f}
      BY <2>2 DEF Becomes
    <3> HIDE DEF a
    <3>2. /\ f.run = e.run /\ f.stage = e.stage /\ f.by = e.by /\ f.made = e.made /\ f.phase = "done"
      BY <1>0 DEF Fields
    <3> HIDE DEF f
    <3>3. Follows(e, f)
      BY <2>0, <3>1, <3>2 DEF Follows
    <3> QED
      BY <3>3
  <2> QED
    BY <1>8, <2>1, <2>2 DEF Publish
<1> QED
  BY <1>1, <1>2, <1>3, <1>4, <1>5, <1>6, <1>7, <1>8 DEF Work

(* One execution at a time begins or goes on.                              *)
LEMMA ExecutionsMove ==
    ASSUME AnalysisInv, Next
    PROVE  \/ execution' = execution
           \/ \E r \in Run : Start(r) /\ \E f : Begins(r, f)
           \/ \E e \in execution : Work(e) /\ ~Outcome(e) /\ \E f : Follows(e, f)
           \/ \E e \in execution : Outcome(e) /\ execution' = execution \ {e}
<1>0. Typed
  BY DEF AnalysisInv
<1>1. ASSUME NEW r \in Run, CreateRun(r) \/ Lose(r) PROVE execution' = execution
  BY <1>1 DEF CreateRun, Lose
<1>2. ASSUME NEW r \in Run, Start(r) PROVE \E f : Begins(r, f)
  BY <1>0, <1>2, StartBegins
<1>3. ASSUME NEW e \in execution, Work(e), ~Outcome(e) PROVE \E f : Follows(e, f)
  BY <1>3, WorkFollows
<1>4. ASSUME NEW e \in execution, Outcome(e) PROVE execution' = execution \ {e}
  BY <1>4 DEF Outcome
<1> QED
  BY <1>1, <1>2, <1>3, <1>4 DEF Next

(* A version or a reference that an execution has not to wait for stays so. *)
LEMMA SettledStays ==
    ASSUME AnalysisInv, Next, Typed', Grown, NEW a, Settled(a)
    PROVE  Settled(a)'
<1>0. Typed /\ ClaimsDiffer /\ WritersDiffer
  BY DEF AnalysisInv
<1>1. PICK r \in Run, s \in Rendering : a = <<r, s>>
  BY DEF Settled
<1>2. Present(a) /\ Present(a)' /\ content'[a] = content[a] /\ s \in Stage /\ s \notin Plan
  BY Stays, <1>1, StageNames DEF Settled, Plan, Rendering
<1>3. \A e \in execution : Writing(e, a) => e.made # content[a].by
  BY DEF Settled
<1>4. ASSUME NEW f \in execution', Writing(f, a) PROVE f.made # content[a].by
  <2>1. CASE f \in execution
    BY <1>3, <1>4, <2>1
  <2>2. ASSUME NEW q \in Run, Begins(q, f) PROVE f.made # content[a].by
    <3>1. q = r /\ f.stage = s /\ f.made = losses + 1 /\ holder[r] = 0
      BY <1>1, <1>4, <2>2 DEF Writing, Begins
    <3>2. \A e \in execution : ~(Holding(e) /\ e.run = r)
      BY <1>0, <3>1 DEF Holding, ClaimsDiffer, Typed
    <3>3. content[<<r, s>>].by <= losses
      BY <1>0, <1>1, <1>2, <2>2, <3>1, <3>2 DEF WritersDiffer, Begins, Present
    <3>4. content[<<r, s>>].by \in Int /\ losses \in Int
      BY <1>0, <1>1, <1>2 DEF AnalysisInv, ContentsRight, Present, Typed
    <3> QED
      BY <1>1, <3>1, <3>3, <3>4
  <2>3. ASSUME NEW e \in execution, Follows(e, f) PROVE f.made # content[a].by
    <3>1. Writing(e, a) /\ f.made = e.made
      BY <1>1, <1>2, <1>4, <2>3 DEF Writing, Follows
    <3> QED
      BY <1>3, <3>1
  <2>4. \/ f \in execution \/ (\E q \in Run : Begins(q, f)) \/ (\E e \in execution : Follows(e, f))
    <3>1. CASE execution' = execution
      BY <3>1
    <3>2. ASSUME NEW q \in Run, NEW g, Begins(q, g) PROVE f \in execution \/ Begins(q, f)
      BY <3>2 DEF Begins
    <3>3. ASSUME NEW e \in execution, NEW g, Follows(e, g) PROVE f \in execution \/ Follows(e, f)
      BY <3>3 DEF Follows
    <3>4. ASSUME NEW e \in execution, execution' = execution \ {e} PROVE f \in execution
      BY <3>4
    <3> QED
      BY ExecutionsMove, <3>1, <3>2, <3>3, <3>4
  <2> QED
    BY <2>1, <2>2, <2>3, <2>4
<1> QED
  BY <1>1, <1>2, <1>4 DEF Settled

(* Who notes what.                                                         *)
Noting(e, a) ==
    LET own == <<e.run, e.stage>>
    IN  /\ Note(e.run, e.stage, a) /\ e.stage # "publication"
        /\ \/ a = own /\ Present(own)' /\ (e.stage = "report" => Settled(own))
           \/ \E q \in Run : a \in refs[q][e.stage]

(* Only who notes changes the memory.                                      *)
LEMMA MemoryMoves ==
    ASSUME AnalysisInv, Next, Typed', Grown
    PROVE  UNCHANGED memory \/ \E e \in execution, a \in Artifact : Noting(e, a)
<1>0. Typed
  BY DEF AnalysisInv
<1>1. ASSUME NEW r \in Run, CreateRun(r) \/ Start(r) \/ Lose(r) PROVE UNCHANGED memory
  BY <1>1 DEF CreateRun, Start, Lose
<1>2. ASSUME NEW e \in execution, Work(e)
      PROVE  UNCHANGED memory \/ \E a \in Artifact : Noting(e, a)
  <2>0. ExecutionTyped(e) /\ <<e.run, e.stage>> \in Artifact /\ PhaseRight(e)
    BY <1>0, Distinct DEF Typed, ExecutionTyped, AnalysisInv, ExecutionsRight
  <2>1. CASE Read(e) \/ FindReport(e) \/ PlanShards(e) \/ Break(e) \/ AddVersion(e) \/ Publish(e) \/ Outcome(e)
    BY <2>1 DEF Read, FindReport, PlanShards, Break, AddVersion, Publish, Outcome
  <2>2. CASE Store(e)
    <3> DEFINE own == <<e.run, e.stage>>
    <3>1. CASE UNCHANGED memory
      BY <3>1
    <3>2. CASE ~UNCHANGED memory
      <4>1. content' = [content EXCEPT ![own] = Written(e)] /\ Note(e.run, e.stage, own)
            /\ e.stage \notin Rendering
        BY <2>2, <3>2 DEF Store
      <4>2. content'[own] = Written(e) /\ Written(e) # Absent
        <5>1. Written(e).by # Absent.by
          BY <2>0 DEF Written, Absent, ExecutionTyped
        <5> QED
          BY <1>0, <2>0, <4>1, <5>1 DEF Typed
      <4>3. Noting(e, own)
        BY <2>0, <4>1, <4>2 DEF Noting, Present, Rendering
      <4> QED
        BY <2>0, <4>3
    <3> QED
      BY <3>1, <3>2
  <2>3. CASE RecordReport(e)
    <3>1. /\ e.stage = "report" /\ Settled(e.of) /\ Note(e.run, e.stage, e.of)
          /\ e.of = <<e.run, e.stage>> \/ \E q \in Run : e.of \in refs[q][e.stage]
      BY <2>0, <2>3 DEF RecordReport, PhaseRight
    <3>2. Present(e.of) /\ Present(e.of)'
      BY <3>1, Stays DEF Settled
    <3>3. e.of \in Artifact
      BY <3>2 DEF Present
    <3>4. Noting(e, e.of)
      BY <3>1, <3>2 DEF Noting
    <3> QED
      BY <3>3, <3>4
  <2> QED
    BY <1>2, <2>1, <2>2, <2>3 DEF Work
<1> QED
  BY <1>1, <1>2 DEF Next

(* What noting does.                                                       *)
LEMMA NotingIs ==
    ASSUME AnalysisInv, NEW e \in execution, NEW a \in Artifact, Noting(e, a)
    PROVE  /\ e.run \in Run /\ e.stage \in Stage
           /\ noted' = noted \union {<<e.run, e.stage>>}
           /\ \A p \in Run, t \in Stage : <<p, t>> # <<e.run, e.stage>> => refs'[p][t] = refs[p][t]
           /\ refs'[e.run][e.stage] \in {refs[e.run][e.stage], {<<e.run, e.stage>>}}
           /\ a = <<e.run, e.stage>> => refs'[e.run][e.stage] = {<<e.run, e.stage>>}
           /\ a # <<e.run, e.stage>> => refs' = refs
<1>0. Typed /\ NotesRight /\ e.run \in Run /\ e.stage \in Stage
  BY DEF AnalysisInv, Typed, ExecutionTyped
<1> DEFINE own == <<e.run, e.stage>>
<1>1. /\ noted' = noted \union {own}
      /\ \A p \in Run, t \in Stage : <<p, t>> # own => refs'[p][t] = refs[p][t]
      /\ refs[e.run][e.stage] \subseteq refs'[e.run][e.stage]
      /\ refs'[e.run][e.stage] \subseteq refs[e.run][e.stage] \union {a}
      /\ (\A q \in Run \ {e.run} : a \notin refs[q][e.stage]) => a \in refs'[e.run][e.stage]
  BY <1>0, NoteGrows DEF Noting
<1>2. \A q \in Run : refs[q][e.stage] \subseteq {<<q, e.stage>>}
  BY <1>0 DEF NotesRight
<1>3. CASE a = own
  <2>1. \A q \in Run \ {e.run} : a \notin refs[q][e.stage]
    BY <1>2, <1>3
  <2>2. refs'[e.run][e.stage] = {own}
    BY <1>0, <1>1, <1>2, <1>3, <2>1
  <2> QED
    BY <1>0, <1>1, <1>3, <2>2
<1>4. CASE a # own
  <2>1. \E q \in Run : a \in refs[q][e.stage]
    BY <1>4 DEF Noting
  <2>2. refs' = refs
    BY <2>1 DEF Noting, Note
  <2> QED
    BY <1>0, <1>1, <1>4, <2>2
<1> QED
  BY <1>3, <1>4

(* Notes stay right.                                                       *)
LEMMA NotesStep ==
    ASSUME AnalysisInv, Next, Typed', Grown
    PROVE  NotesRight'
<1>0. Typed /\ NotesRight
  BY DEF AnalysisInv
<1> SUFFICES ASSUME NEW r \in Run, NEW s \in Stage
             PROVE  /\ refs'[r][s] \subseteq {<<r, s>>}
                    /\ refs'[r][s] # {} =>
                          <<r, s>> \in noted' /\ Present(<<r, s>>)' /\ s # "publication"
                    /\ s = "report" /\ refs'[r][s] # {} => Settled(<<r, s>>)'
  BY DEF NotesRight
<1>1. CASE refs'[r][s] = refs[r][s]
  BY <1>0, <1>1, Stays, SettledStays DEF NotesRight, Grown
<1>2. CASE refs'[r][s] # refs[r][s]
  <2>1. ~UNCHANGED memory
    BY <1>2 DEF memory
  <2>2. PICK e \in execution, a \in Artifact : Noting(e, a)
    BY <2>1, MemoryMoves
  <2>3. /\ <<r, s>> = <<e.run, e.stage>> /\ a = <<r, s>>
        /\ refs'[r][s] = {<<r, s>>} /\ <<r, s>> \in noted'
    BY <1>2, <2>2, NotingIs
  <2>4. Present(<<r, s>>)' /\ s # "publication" /\ (s = "report" => Settled(<<r, s>>))
    <3>1. CASE a = <<e.run, e.stage>> /\ Present(<<e.run, e.stage>>)' /\ (e.stage = "report" => Settled(<<e.run, e.stage>>))
      BY <2>2, <2>3, <3>1 DEF Noting
    <3>2. CASE \E q \in Run : a \in refs[q][e.stage]
      <4>0. e.stage = s
        BY <2>3
      <4>2. PICK q \in Run : a \in refs[q][s]
        BY <3>2, <4>0
      <4>3. a = <<q, s>>
        BY <1>0, <4>2 DEF NotesRight
      <4>1. a \in refs[r][s]
        BY <2>3, <4>2, <4>3
      <4> QED
        BY <1>0, <1>2, <2>3, <4>1 DEF NotesRight
    <3> QED
      BY <2>2, <3>1, <3>2 DEF Noting
  <2> QED
    BY <2>3, <2>4, SettledStays
<1> QED
  BY <1>1, <1>2

(* Who changes what a run has succeeded with.                              *)
Reusing(e, s) ==
    /\ PlanShards(e) /\ s = ShardOf(e.stage) /\ s \in Shard /\ e.stage \in Plan
    /\ <<e.run, e.stage>> \notin planned /\ <<e.run, e.stage>> \in planned'
    /\ source[e.run] # 0 /\ output' = [output EXCEPT ![e.run][s] = output[source[e.run]][s]]
Finishing(e) ==
    /\ Outcome(e) /\ Holding(e) /\ e.phase = "done"
    /\ output' = [output EXCEPT ![e.run][e.stage] = e.of]

(* A result comes from creating, from reusing a shard, or from finishing.  *)
LEMMA OutputsMove ==
    ASSUME AnalysisInv, Next, NEW r \in Run, NEW s \in Stage, output'[r][s] # output[r][s]
    PROVE  \/ CreateRun(r)
           \/ \E e \in execution : Reusing(e, s) /\ e.run = r
           \/ \E e \in execution : Finishing(e) /\ e.run = r /\ e.stage = s /\ output'[r][s] = e.of
<1>0. Typed /\ OutputsRight
  BY DEF AnalysisInv
<1>1. ASSUME NEW p \in Run, CreateRun(p) PROVE p = r
  BY <1>0, <1>1 DEF CreateRun, Typed
<1>2. ASSUME NEW p \in Run, Start(p) \/ Lose(p) PROVE FALSE
  BY <1>2 DEF Start, Lose
<1>3. ASSUME NEW e \in execution, Work(e)
      PROVE  \/ Reusing(e, s) /\ e.run = r
             \/ Finishing(e) /\ e.run = r /\ e.stage = s /\ output'[r][s] = e.of
  <2>0. e.run \in Run /\ e.stage \in Stage
    BY <1>0 DEF Typed, ExecutionTyped
  <2>1. CASE Read(e) \/ FindReport(e) \/ Break(e) \/ Store(e) \/ AddVersion(e) \/ RecordReport(e) \/ Publish(e)
    BY <2>1 DEF Read, FindReport, Break, Store, AddVersion, RecordReport, Publish
  <2>2. CASE PlanShards(e)
    <3> DEFINE shard == ShardOf(e.stage)
               old == IF source[e.run] = 0 THEN None ELSE output[source[e.run]][shard]
    <3>1. /\ <<e.run, e.stage>> \notin planned /\ <<e.run, e.stage>> \in planned'
          /\ output' = [output EXCEPT ![e.run][shard] = old]
          /\ e.stage \in Plan
      BY <2>2 DEF PlanShards
    <3>2. shard \in Shard /\ shard \in Stage
      BY <3>1, StageNames DEF ShardOf, Shard
    <3>3. \A p \in Run, t \in Stage : output'[p][t] = IF p = e.run /\ t = shard THEN old ELSE output[p][t]
      <4> HIDE DEF shard, old
      <4> QED
        BY <1>0, <2>0, <3>1, <3>2 DEF Typed
    <3>4. r = e.run /\ s = shard /\ output'[r][s] = old
      BY <3>3
    <3>5. output[r][s] = None
      BY <1>0, <3>1, <3>2, <3>4 DEF OutputsRight, Succeeded, Shard, ShardOf, Plan
    <3>6. source[e.run] # 0
      BY <3>4, <3>5
    <3> QED
      BY <2>2, <3>1, <3>2, <3>4, <3>6 DEF Reusing
  <2>3. CASE Outcome(e)
    <3>1. Holding(e) /\ e.phase = "done" /\ output' = [output EXCEPT ![e.run][e.stage] = e.of]
      BY <2>3 DEF Outcome
    <3>2. \A p \in Run, t \in Stage : output'[p][t] =
             IF p = e.run /\ t = e.stage THEN e.of ELSE output[p][t]
      BY <1>0, <2>0, <3>1 DEF Typed
    <3> QED
      BY <2>3, <3>1, <3>2 DEF Finishing
  <2> QED
    BY <1>3, <2>1, <2>2, <2>3 DEF Work
<1> QED
  BY <1>1, <1>2, <1>3 DEF Next

(* What is taken over stays so, and nothing else becomes so but by         *)
(* creating a run.                                                         *)
LEMMA TakenOverStays ==
    ASSUME AnalysisInv, Next, Typed', Grown, NotesRight', NEW r \in Run, NEW s \in Core \union {"report"}
    PROVE  /\ TakenOver(r, s) => TakenOver(r, s)'
           /\ TakenOver(r, s)' => TakenOver(r, s) \/ CreateRun(r)
<1>0. Typed /\ OutputsRight /\ ExecutionsRight /\ NotesRight /\ RunsInOrder
  BY DEF AnalysisInv
<1>1. s \in Stage /\ s \notin Shard /\ s \notin Plan /\ s # "publication"
  BY StageNames DEF Core, Shard, Plan
<1>2. ASSUME TakenOver(r, s) PROVE TakenOver(r, s)'
  <2>1. state[r] # "NONE" /\ source'[r] = source[r] /\ Succeeded(r, s)'
    <3>1. state[r] # "NONE"
      BY <1>0, <1>1, <1>2 DEF TakenOver, Succeeded, RunsInOrder, Untouched
    <3> QED
      BY <1>1, <1>2, <3>1, Stays DEF TakenOver, Grown
  <2>2. refs'[r - 1][s] = {<<r - 1, s>>}
    BY <1>1, <1>2 DEF TakenOver, NotesRight, Grown
  <2>3. refs'[r][s] = {} /\ <<r, s>> \notin noted'
    <3>1. ASSUME NEW e \in execution, NEW a \in Artifact, Noting(e, a)
          PROVE  refs'[r][s] = refs[r][s] /\ <<r, s>> \notin noted'
      <4>1. <<r, s>> # <<e.run, e.stage>>
        BY <1>2 DEF TakenOver, Executed
      <4> QED
        BY <1>1, <1>2, <3>1, <4>1, NotingIs DEF TakenOver, Executed
    <3>2. CASE UNCHANGED memory
      BY <1>2, <3>2 DEF TakenOver, Executed, memory
    <3> QED
      BY <1>2, <3>1, <3>2, MemoryMoves DEF TakenOver
  <2>4. ASSUME NEW f \in execution', f.run = r, f.stage = s PROVE FALSE
    <3>0. \A e \in execution : ~(e.run = r /\ e.stage = s)
      BY <1>2 DEF TakenOver, Executed
    <3>1. ASSUME NEW q \in Run, NEW g, Begins(q, g) PROVE FALSE
      BY <1>2, <2>4, <3>0, <3>1 DEF Begins, TakenOver
    <3>2. ASSUME NEW e \in execution, NEW g, Follows(e, g) PROVE FALSE
      BY <2>4, <3>0, <3>2 DEF Follows
    <3> QED
      BY <2>4, <3>0, <3>1, <3>2, ExecutionsMove
  <2>5. ~Executed(r, s)'
    BY <2>3, <2>4 DEF Executed
  <2>6. s \in Core => output'[r - 1][s] = output[r - 1][s] /\ output'[r][s] = output[r][s]
    BY <1>1, <1>2, Distinct DEF TakenOver, Succeeded, Grown
  <2> QED
    BY <1>2, <2>1, <2>2, <2>3, <2>5, <2>6 DEF TakenOver
<1>3. ASSUME TakenOver(r, s)', ~CreateRun(r) PROVE TakenOver(r, s)
  <2>1. refs'[r][s] = {} /\ <<r, s>> \notin noted' /\ output'[r][s] # None
    BY <1>3 DEF TakenOver, Executed, Succeeded
  <2>2. refs[r][s] = {} /\ <<r, s>> \notin noted
    BY <1>1, <2>1 DEF Grown
  <2>3. CASE Succeeded(r, s)
    BY <1>0, <1>1, <2>2, <2>3 DEF OutputsRight, Original, Core
  <2>4. CASE ~Succeeded(r, s)
    <3>1. output'[r][s] # output[r][s]
      BY <2>1, <2>4 DEF Succeeded
    <3>6. \A e \in execution : ~Reusing(e, s)
      BY <1>1 DEF Reusing
    <3>2. PICK e \in execution : Finishing(e) /\ e.run = r /\ e.stage = s
      BY <1>1, <1>3, <3>1, <3>6, OutputsMove
    <3>3. PhaseRight(e)
      BY <1>0 DEF ExecutionsRight
    <3>4. s \in Core => refs[r][s] = {<<r, s>>}
      BY <3>2, <3>3 DEF PhaseRight, Finishing
    <3>5. s = "report" => <<r, s>> \in noted
      BY <3>2, <3>3 DEF PhaseRight, Finishing
    <3> QED
      BY <2>2, <3>4, <3>5
  <2> QED
    BY <2>3, <2>4
<1> QED
  BY <1>2, <1>3

(* Who adds versions.                                                      *)
LEMMA VersionsMove ==
    ASSUME AnalysisInv, Next, Typed', NEW n \in DOMAIN versions'
    PROVE  \/ n \in DOMAIN versions /\ versions'[n].run = versions[n].run /\ versions'[n].of = versions[n].of
           \/ \E e \in execution : /\ AddVersion(e) /\ versions'[n].run = e.run
                                   /\ versions'[n].of = e.of
<1>0. Typed
  BY DEF AnalysisInv
<1>1. CASE UNCHANGED versions
  BY <1>1
<1>2. ASSUME NEW e \in execution, AddVersion(e), ~UNCHANGED versions
      PROVE  \/ n \in DOMAIN versions /\ versions'[n] = versions[n]
             \/ versions'[n].run = e.run /\ versions'[n].of = e.of
  <2>1. versions' = Append(versions, [run |-> e.run, of |-> e.of, onDrive |-> FALSE])
    BY <1>2 DEF AddVersion
  <2>2. versions \in Seq(Version)
    BY <1>0 DEF Typed
  <2>3. CASE n = Len(versions) + 1
    BY <2>1, <2>2, <2>3
  <2>4. CASE n # Len(versions) + 1
    BY <2>1, <2>2, <2>4
  <2> QED
    BY <2>3, <2>4
<1>3. ASSUME NEW e \in execution, Publish(e), ~UNCHANGED versions
      PROVE  n \in DOMAIN versions /\ versions'[n].run = versions[n].run /\ versions'[n].of = versions[n].of
  <2> DEFINE k == VersionOf(e.run)
  <2>1. versions' = [versions EXCEPT ![k].onDrive = TRUE]
    BY <1>3 DEF Publish
  <2> HIDE DEF k
  <2>2. n \in DOMAIN versions /\ versions[n] \in Version
    BY <1>0, <2>1 DEF Typed
  <2>3. versions'[n] = IF n = k THEN [versions[n] EXCEPT !.onDrive = TRUE] ELSE versions[n]
    BY <2>1, <2>2
  <2> QED
    BY <2>2, <2>3 DEF Version
<1>4. \/ UNCHANGED versions
      \/ \E e \in execution : AddVersion(e) \/ Publish(e)
  BY DEF Next, Work, CreateRun, Start, Lose, Read, FindReport, PlanShards, Break, Store,
         RecordReport, Outcome
<1> QED
  BY <1>1, <1>2, <1>3, <1>4

(* What is good to publish stays so.                                       *)
LEMMA GoodStays ==
    ASSUME AnalysisInv, Next, Typed', Grown, NEW r \in Run
    PROVE  /\ Taken(r) => Taken(r)'
           /\ \A a : Good(r, a) => Good(r, a)'
<1>1. ASSUME Taken(r) PROVE Taken(r)'
  <2>1. PICK a \in Run \X Rendering : About(r, a) /\ Settled(a) /\ \A n \in DOMAIN versions : versions[n].of # a
    BY <1>1 DEF Taken
  <2>2. About(r, a)' /\ Settled(a)'
    BY <2>1, Stays, SettledStays
  <2>3. ASSUME NEW n \in DOMAIN versions', versions'[n].of = a PROVE FALSE
    <3>1. PICK e \in execution : AddVersion(e) /\ versions'[n].of = e.of
      BY <2>1, <2>3, VersionsMove
    <3>2. PhaseRight(e)
      BY DEF AnalysisInv, ExecutionsRight
    <3>3. e.of = <<e.run, e.stage>> /\ content[e.of].by = e.made /\ e.phase = "version"
      BY <3>1, <3>2 DEF PhaseRight, AddVersion
    <3>4. Writing(e, a)
      BY <2>3, <3>1, <3>3 DEF Writing
    <3> QED
      BY <2>1, <2>3, <3>1, <3>3, <3>4 DEF Settled
  <2> QED
    BY <2>2, <2>3 DEF Taken
<1>2. ASSUME NEW a, Good(r, a) PROVE Good(r, a)'
  BY <1>1, <1>2, Stays, StageNames DEF Good
<1> QED
  BY <1>1, <1>2

(***************************************************************************)
(* The runs and their notes.                                               *)
(***************************************************************************)

(* Only creating makes a run, gives it a source and makes it active.       *)
LEMMA StatesMove ==
    ASSUME AnalysisInv, Next, NEW r \in Run
    PROVE  /\ state[r] = "NONE" /\ state'[r] # "NONE" => CreateRun(r)
           /\ source'[r] # source[r] => CreateRun(r)
           /\ holder'[r] # holder[r] => state[r] # "NONE"
           /\ state[r] # "ACTIVE" /\ state'[r] = "ACTIVE" => CreateRun(r)
<1>0. Typed /\ ExecutionsRight /\ RunsInOrder
  BY DEF AnalysisInv
<1>1. ASSUME NEW p \in Run, CreateRun(p), p # r
      PROVE  state'[r] = state[r] /\ source'[r] = source[r] /\ holder' = holder
  BY <1>0, <1>1 DEF CreateRun, Typed
<1>2. ASSUME NEW p \in Run, CreateRun(p) PROVE holder' = holder
  BY <1>2 DEF CreateRun
<1>3. ASSUME NEW p \in Run, Start(p)
      PROVE  state' = state /\ source' = source /\ (holder'[r] # holder[r] => state[r] # "NONE")
  BY <1>0, <1>3 DEF Start, Typed, runs
<1>4. ASSUME NEW p \in Run, Lose(p)
      PROVE  state' = state /\ source' = source /\ (holder'[r] # holder[r] => state[r] # "NONE")
  BY <1>0, <1>4 DEF Lose, Typed, RunsInOrder, Untouched, runs
<1>5. ASSUME NEW e \in execution, Outcome(e)
      PROVE  /\ source' = source /\ (holder'[r] # holder[r] => state[r] # "NONE")
             /\ state'[r] # state[r] => state[r] # "NONE" /\ state'[r] \in {"SUCCEEDED", "FAILED"}
  <2>0. e.run \in Run /\ state[e.run] # "NONE" /\ source' = source
    BY <1>0, <1>5 DEF Outcome, ExecutionsRight, Typed, ExecutionTyped
  <2>1. holder'[r] # holder[r] => r = e.run
    BY <1>0, <1>5 DEF Outcome, Typed
  <2>2. state' = state \/ \E x \in {"SUCCEEDED", "FAILED"} : state' = [state EXCEPT ![e.run] = x]
    <3>1. CASE ~Holding(e)
      BY <1>5, <3>1 DEF Outcome
    <3>2. CASE Holding(e)
      <4>1. PICK end \in {"SUCCEEDED", "FAILED"} :
              state' = CASE e.phase = "failed" -> [state EXCEPT ![e.run] = "FAILED"]
                       [] e.phase = "done" /\ e.stage = "publication" -> [state EXCEPT ![e.run] = end]
                       [] OTHER -> state
        BY <1>5, <3>2 DEF Outcome
      <4> QED
        BY <4>1
    <3> QED
      BY <3>1, <3>2
  <2> QED
    BY <1>0, <2>0, <2>1, <2>2 DEF Typed
<1>6. ASSUME NEW e \in execution, Work(e), ~Outcome(e)
      PROVE  state' = state /\ source' = source /\ holder' = holder
  BY <1>6 DEF Work, Read, FindReport, PlanShards, Break, Store, AddVersion, RecordReport, Publish, runs
<1> QED
  BY <1>1, <1>2, <1>3, <1>4, <1>5, <1>6 DEF Next

(* Only who stores an artifact changes it.                                 *)
LEMMA ContentsMove ==
    ASSUME AnalysisInv, Next, NEW r \in Run, NEW s \in Stage, content'[<<r, s>>] # content[<<r, s>>]
    PROVE  \E e \in execution : /\ Store(e) /\ e.run = r /\ e.stage = s
                                /\ content'[<<r, s>>] = Written(e)
<1>0. Typed /\ <<r, s>> \in Artifact
  BY Distinct DEF AnalysisInv
<1>1. ASSUME NEW e \in execution, Store(e)
      PROVE  e.run = r /\ e.stage = s /\ content'[<<r, s>>] = Written(e)
  <2>1. content' = [content EXCEPT ![<<e.run, e.stage>>] = Written(e)]
    BY <1>1 DEF Store
  <2> QED
    BY <1>0, <2>1 DEF Typed
<1>2. \E e \in execution : Store(e)
  BY DEF Next, Work, CreateRun, Start, Lose, Read, FindReport, PlanShards, Break, AddVersion,
         RecordReport, Publish, Outcome
<1> QED
  BY <1>1, <1>2

(* Only who plans adds a group.                                            *)
LEMMA PlansMove ==
    ASSUME AnalysisInv, Next, NEW p \in planned' \ planned
    PROVE  \E e \in execution : PlanShards(e) /\ p = <<e.run, e.stage>>
<1>1. \A e \in execution : PlanShards(e) => p = <<e.run, e.stage>>
  BY DEF PlanShards
<1>2. \E e \in execution : PlanShards(e)
  BY DEF Next, Work, CreateRun, Start, Lose, Read, FindReport, Store, Break, AddVersion,
         RecordReport, Publish, Outcome
<1> QED
  BY <1>1, <1>2

(* A run that is not there is left alone.                                  *)
LEMMA UntouchedStays ==
    ASSUME AnalysisInv, Next, Typed', Grown, NEW r \in Run, state'[r] = "NONE"
    PROVE  Untouched(r)'
<1>0. Typed /\ RunsInOrder /\ ExecutionsRight
  BY DEF AnalysisInv
<1>1. state[r] = "NONE" /\ Untouched(r)
  BY <1>0 DEF Grown, RunsInOrder
<1>2. ~CreateRun(r)
  BY <1>0 DEF CreateRun, Typed
<1>3. \A e \in execution : e.run # r
  BY <1>1 DEF Untouched
<1>4. source'[r] = 0 /\ holder'[r] = 0
  BY <1>1, <1>2, StatesMove DEF Untouched
<1>5. ASSUME NEW s \in Stage
      PROVE  /\ output'[r][s] = None /\ refs'[r][s] = {} /\ <<r, s>> \notin noted'
             /\ content'[<<r, s>>] = Absent
  <2>0. output[r][s] = None
    BY <1>1 DEF Untouched
  <2>1. output'[r][s] = None
    BY <1>2, <1>3, <2>0, OutputsMove
  <2>2. content'[<<r, s>>] = Absent
    BY <1>1, <1>3, ContentsMove DEF Untouched
  <2>3. CASE UNCHANGED memory
    BY <1>1, <2>1, <2>2, <2>3 DEF Untouched, memory
  <2>4. ASSUME NEW e \in execution, NEW a \in Artifact, Noting(e, a)
        PROVE  refs'[r][s] = {} /\ <<r, s>> \notin noted'
    <3>1. <<r, s>> # <<e.run, e.stage>>
      BY <1>3
    <3>2. refs[r][s] = {} /\ <<r, s>> \notin noted
      BY <1>1 DEF Untouched
    <3> QED
      BY <2>4, <3>1, <3>2, NotingIs
  <2> QED
    BY <2>1, <2>2, <2>3, <2>4, MemoryMoves
<1>6. \A s \in Plan : <<r, s>> \notin planned'
  BY <1>1, <1>3, PlansMove DEF Untouched
<1>7. \A f \in execution' : f.run # r
  <2>1. ASSUME NEW q \in Run, NEW g, Begins(q, g) PROVE \A f \in execution' : f.run # r
    BY <1>1, <1>3, <2>1 DEF Begins
  <2>2. ASSUME NEW e \in execution, NEW g, Follows(e, g) PROVE \A f \in execution' : f.run # r
    BY <1>3, <2>2 DEF Follows
  <2> QED
    BY <1>3, <2>1, <2>2, ExecutionsMove
<1> QED
  BY <1>4, <1>5, <1>6, <1>7 DEF Untouched

(* What a run is created with it takes over.                               *)
LEMMA CreatedTakesOver ==
    ASSUME AnalysisInv, Next, Typed', Grown, NotesRight', NEW r \in Run, CreateRun(r)
    PROVE  /\ state[r] = "NONE" /\ Untouched(r)
           /\ source'[r] = 0 \/ (source'[r] = r - 1 /\ r - 1 \in Run)
           /\ \A s \in Stage : output'[r][s] # None =>
                 /\ ~parallel /\ r - 1 \in Run /\ s \in Reused(r, r - 1)
                 /\ output'[r][s] = output[r - 1][s] /\ Succeeded(r - 1, s) /\ refs[r - 1][s] # {}
                 /\ TakenOver(r, s)'
                 /\ s \in Core \union Rendering /\ \A p \in Inputs(s) : output'[r][p] # None
<1>0. Typed /\ RunsInOrder /\ OutputsRight /\ NotesRight
  BY DEF AnalysisInv
<1>1. state[r] = "NONE" /\ Untouched(r) /\ r \in Int
  BY <1>0, NextRun DEF RunsInOrder, Run
<1> DEFINE q == IF r > 1 /\ state[r - 1] = "FAILED" THEN r - 1 ELSE 0
<1>2. /\ source'[r] = q
      /\ \A s \in Stage : output'[r][s] = IF q # 0 /\ s \in Reused(r, q) THEN output[q][s] ELSE None
      /\ UNCHANGED <<parallel, memory, execution>>
      /\ \A p \in Run : p # r => output'[p] = output[p]
  BY <1>0 DEF CreateRun, Typed
<1>3. q = 0 \/ (q = r - 1 /\ r - 1 \in Run)
  BY <1>1, AnalysisAssumption DEF Run
<1>4. ASSUME NEW s \in Stage, output'[r][s] # None
      PROVE  /\ ~parallel /\ r - 1 \in Run /\ s \in Reused(r, r - 1)
             /\ output'[r][s] = output[r - 1][s] /\ Succeeded(r - 1, s) /\ refs[r - 1][s] # {}
             /\ TakenOver(r, s)'
             /\ s \in Core \union Rendering /\ \A p \in Inputs(s) : output'[r][p] # None
  <2>1. q = r - 1 /\ r - 1 \in Run /\ s \in Reused(r, r - 1) /\ output'[r][s] = output[r - 1][s]
    BY <1>2, <1>3, <1>4
  <2>9. s \in Core \union Rendering /\ \A p \in Inputs(s) : output'[r][p] # None
    <3>1. ASSUME NEW p \in Inputs(s) PROVE output'[r][p] # None
      <4>1. p \in Reused(r, q) /\ Succeeded(q, p) /\ p \in Stage /\ q # 0
        BY <2>1, ReusedIs, InputsAreNeeded, StageNames, <1>1, AnalysisAssumption DEF Run
      <4> HIDE DEF q
      <4> QED
        BY <1>2, <4>1 DEF Succeeded
    <3> QED
      BY <2>1, <3>1, ReusedIs
  <2> HIDE DEF q
  <2>2. ~parallel /\ Succeeded(r - 1, s) /\ refs[r - 1][s] # {}
    BY <2>1, ReusedIs
  <2>3. refs[r - 1][s] = {<<r - 1, s>>}
    <3>1. PICK p \in Run : p = r - 1
      BY <2>1
    <3>2. refs[p][s] \subseteq {<<p, s>>}
      BY <1>0 DEF NotesRight
    <3> QED
      BY <2>2, <3>1, <3>2
  <2>4. s \in Core => output[r - 1][s] = <<r - 1, s>>
    BY <1>0, <2>1, <2>2 DEF OutputsRight, Original, TakenOver
  <2>5. refs'[r][s] = {} /\ ~Executed(r, s)' /\ refs'[r - 1][s] = {<<r - 1, s>>}
    BY <1>1, <1>2, <2>3 DEF Untouched, Executed, memory
  <2>6. source'[r] = r - 1 /\ Succeeded(r, s)'
    BY <1>2, <1>4, <2>1 DEF Succeeded
  <2>7. output'[r - 1][s] = output[r - 1][s]
    BY <1>1, <1>2, <2>1
  <2>8. TakenOver(r, s)'
    BY <2>1, <2>4, <2>5, <2>6, <2>7 DEF TakenOver
  <2> QED
    BY <2>1, <2>2, <2>8, <2>9
<1> QED
  BY <1>1, <1>2, <1>3, <1>4

(* Runs stay in order.                                                     *)
LEMMA RunsStep ==
    ASSUME AnalysisInv, Next, Typed', Grown, NotesRight'
    PROVE  RunsInOrder'
<1>0. Typed /\ RunsInOrder
  BY DEF AnalysisInv
<1>1. \E k \in 0..MaxRun : \A r \in Run : state'[r] # "NONE" <=> r <= k
  <2>1. CASE \E p \in Run : CreateRun(p)
    <3>1. PICK p \in Run : CreateRun(p)
      BY <2>1
    <3>2. \A r \in Run : state[r] # "NONE" <=> r < p
      BY <1>0, <3>1, NextRun
    <3>3. \A r \in Run : state'[r] = IF r = p THEN "ACTIVE" ELSE state[r]
      BY <1>0, <3>1 DEF CreateRun, Typed
    <3>4. p \in 0..MaxRun /\ \A r \in Run : state'[r] # "NONE" <=> r <= p
      BY <3>2, <3>3, AnalysisAssumption DEF Run
    <3> QED
      BY <3>4
  <2>2. CASE ~ \E p \in Run : CreateRun(p)
    <3>1. \A r \in Run : state'[r] # "NONE" <=> state[r] # "NONE"
      BY <2>2, StatesMove DEF Grown
    <3> QED
      BY <1>0, <3>1 DEF RunsInOrder
  <2> QED
    BY <2>1, <2>2
<1>2. \A r \in Run : source'[r] = 0 \/ (source'[r] = r - 1 /\ r - 1 \in Run)
  BY <1>0, StatesMove, CreatedTakesOver DEF RunsInOrder
<1>3. \A r \in Run : state'[r] = "NONE" => Untouched(r)'
  BY UntouchedStays
<1>4. ASSUME parallel', NEW r \in Run, NEW s \in Core \union {"report"}, TakenOver(r, s)' PROVE FALSE
  <2>1. parallel /\ s \in Stage
    BY <1>4, StageNames DEF Grown
  <2>2. ~TakenOver(r, s)
    BY <1>0, <2>1 DEF RunsInOrder
  <2>3. CreateRun(r)
    BY <1>4, <2>2, TakenOverStays
  <2> QED
    BY <1>4, <2>1, <2>3, CreatedTakesOver DEF TakenOver, Succeeded
<1> QED
  BY <1>1, <1>2, <1>3, <1>4 DEF RunsInOrder

(***************************************************************************)
(* What is stored and what tasks have succeeded with.                      *)
(***************************************************************************)

(* What a run has made and noted itself stays so.                          *)
LEMMA OriginalStays ==
    ASSUME AnalysisInv, NotesRight', Grown, NEW r \in Run, NEW s \in Stage
    PROVE  /\ refs[r][s] = {<<r, s>>} => refs'[r][s] = {<<r, s>>}
           /\ s \in Core /\ Original(r, s) => Original(r, s)'
<1>1. refs[r][s] = {<<r, s>>} => refs'[r][s] = {<<r, s>>}
  BY DEF NotesRight, Grown
<1> QED
  <2>1. <<r, s>> # None /\ (s \in Core => s \notin Rendering)
    BY Distinct
  <2> QED
    BY <1>1, <2>1 DEF Original, Grown

(* Results stay right.                                                     *)
LEMMA OutputsStep ==
    ASSUME AnalysisInv, Next, Typed', Grown, NotesRight'
    PROVE  OutputsRight'
<1>0. Typed /\ RunsInOrder /\ OutputsRight /\ NotesRight /\ ExecutionsRight
  BY DEF AnalysisInv
<1> SUFFICES ASSUME NEW r \in Run, NEW s \in Stage, output'[r][s] # None
             PROVE  /\ Present(output[r][s])'
                    /\ s \in Core => Original(r, s)' \/ TakenOver(r, s)'
                    /\ s = "report" => <<r, s>> \in noted' \/ TakenOver(r, s)'
                    /\ s \in Plan => <<r, s>> \in planned'
                    /\ s = "rowShard" => <<r, "rowsPlan">> \in planned'
                    /\ s = "criticalShard" => <<r, "criticalPlan">> \in planned'
                    /\ s = "publication" => Good(r, output[r][s])'
                    /\ s \in Core \union {"report"} /\ TakenOver(r, s)'
                          => \A p \in Inputs(s)' : TakenOver(r, p)'
  BY DEF OutputsRight, Succeeded
<1>00. Inputs(s)' = Inputs(s)
  BY DEF Inputs, Grown
<1>1. CASE output'[r][s] = output[r][s]
  <2>1. Succeeded(r, s) /\ Present(output[r][s])
    BY <1>0, <1>1 DEF OutputsRight, Succeeded
  <2>2. s \in Core => Original(r, s)' \/ TakenOver(r, s)'
    BY <1>0, <2>1, OriginalStays, TakenOverStays DEF OutputsRight
  <2>3. s = "report" => <<r, s>> \in noted' \/ TakenOver(r, s)'
    BY <1>0, <2>1, TakenOverStays DEF OutputsRight, Grown
  <2>4. /\ s \in Plan => <<r, s>> \in planned'
        /\ s = "rowShard" => <<r, "rowsPlan">> \in planned'
        /\ s = "criticalShard" => <<r, "criticalPlan">> \in planned'
    BY <1>0, <2>1 DEF OutputsRight, Grown
  <2>5. s = "publication" => Good(r, output[r][s])'
    BY <1>0, <1>1, <2>1, GoodStays DEF OutputsRight
  <2>6. ASSUME s \in Core \union {"report"}, TakenOver(r, s)', NEW p \in Inputs(s) PROVE TakenOver(r, p)'
    <3>1. ~CreateRun(r)
      BY <1>1, <2>1, CreatedTakesOver DEF Succeeded, Untouched
    <3>2. TakenOver(r, s)
      BY <2>6, <3>1, TakenOverStays
    <3>3. TakenOver(r, p)
      BY <1>0, <2>1, <2>6, <3>2 DEF OutputsRight
    <3>4. p \in Core
      BY <1>0, <2>6, <3>2, InputsAreNeeded DEF RunsInOrder, Core, Shard
    <3> QED
      BY <3>3, <3>4, TakenOverStays
  <2> QED
    BY <1>00, <1>1, <2>1, <2>2, <2>3, <2>4, <2>5, <2>6, Stays
<1>2. CASE CreateRun(r)
  <2>1. /\ ~parallel /\ r - 1 \in Run /\ output'[r][s] = output[r - 1][s]
        /\ Succeeded(r - 1, s) /\ refs[r - 1][s] # {} /\ TakenOver(r, s)'
        /\ s \in Core \union Rendering /\ \A p \in Inputs(s) : output'[r][p] # None
    BY <1>2, CreatedTakesOver
  <2>2. Present(output[r][s])'
    <3>1. Present(output[r - 1][s])
      BY <1>0, <2>1 DEF OutputsRight
    <3> QED
      BY <2>1, <3>1, Stays DEF Present
  <2>3. s # "publication"
    <3>1. PICK p \in Run : p = r - 1
      BY <2>1
    <3>2. refs[p][s] # {}
      BY <2>1, <3>1
    <3> QED
      BY <1>0, <3>2 DEF NotesRight
  <2>4. \A p \in Inputs(s) : TakenOver(r, p)'
    <3>1. \A p \in Inputs(s) : p \in Stage
      BY InputsAreNeeded
    <3> QED
      BY <1>2, <2>1, <3>1, CreatedTakesOver
  <2> QED
    BY <1>00, <2>1, <2>2, <2>3, <2>4 DEF Core, Rendering, Plan
<1>3. ASSUME NEW e \in execution, Reusing(e, s), e.run = r
      PROVE  /\ Present(output[r][s])' /\ s \in Shard
             /\ s = "rowShard" => <<r, "rowsPlan">> \in planned'
             /\ s = "criticalShard" => <<r, "criticalPlan">> \in planned'
  <2>1. source[r] \in Run /\ output'[r][s] = output[source[r]][s]
    <3>1. source[r] \in Run
      BY <1>0, <1>3 DEF Typed, Reusing
    <3> QED
      BY <1>0, <1>3, <3>1 DEF Typed, Reusing
  <2>2. Present(output[source[r]][s])
    BY <1>0, <2>1 DEF OutputsRight, Succeeded
  <2>3. Present(output[r][s])'
    BY <2>1, <2>2, Stays DEF Present
  <2> QED
    BY <1>3, <2>3 DEF Reusing, Plan, ShardOf, Shard
<1>4. ASSUME NEW e \in execution, Finishing(e), e.run = r, e.stage = s, output'[r][s] = e.of
      PROVE  /\ Present(output[r][s])'
             /\ s \in Core => Original(r, s)'
             /\ s = "report" => <<r, s>> \in noted'
             /\ s \in Plan => <<r, s>> \in planned'
             /\ s = "rowShard" => <<r, "rowsPlan">> \in planned'
             /\ s = "criticalShard" => <<r, "criticalPlan">> \in planned'
             /\ s = "publication" => Good(r, output[r][s])'
             /\ s \in Core \union {"report"} => ~TakenOver(r, s)'
  <2>1. PhaseRight(e) /\ Ready(r, s) /\ e.phase = "done"
    BY <1>0, <1>4 DEF ExecutionsRight, Finishing
  <2>2. Present(output[r][s])'
    BY <1>4, <2>1, Stays DEF PhaseRight, Present
  <2>3. s \in Core => refs'[r][s] = {<<r, s>>} /\ output'[r][s] = <<r, s>>
    BY <1>4, <2>1, OriginalStays, Distinct DEF PhaseRight
  <2>4. s = "report" => <<r, s>> \in noted'
    BY <1>4, <2>1 DEF PhaseRight, Grown
  <2>5. s \in Plan => <<r, s>> \in planned'
    BY <1>4, <2>1 DEF PhaseRight, Grown
  <2>6. /\ s = "rowShard" => <<r, "rowsPlan">> \in planned'
        /\ s = "criticalShard" => <<r, "criticalPlan">> \in planned'
    BY <1>0, <2>1, StageNames DEF Ready, Needs, OutputsRight, Grown, Plan
  <2>7. s = "publication" => Good(r, output[r][s])'
    <3>1. ASSUME s = "publication" PROVE Good(r, e.of)
      BY <1>4, <2>1, <3>1 DEF PhaseRight
    <3>2. ASSUME s = "publication" PROVE Good(r, e.of)'
      BY <3>1, <3>2, GoodStays
    <3> QED
      BY <1>4, <3>2 DEF Good, About
  <2> QED
    BY <2>2, <2>3, <2>4, <2>5, <2>6, <2>7 DEF Original, TakenOver, Executed
<1>5. CASE output'[r][s] # output[r][s]
  <2>1. \/ CreateRun(r)
        \/ \E e \in execution : Reusing(e, s) /\ e.run = r
        \/ \E e \in execution : Finishing(e) /\ e.run = r /\ e.stage = s /\ output'[r][s] = e.of
    BY <1>5, OutputsMove
  <2> QED
    BY <1>2, <1>3, <1>4, <2>1, Distinct, StageNames DEF Core, Shard
<1> QED
  BY <1>1, <1>5

(* Contents stay right.                                                    *)
LEMMA ContentsStep ==
    ASSUME AnalysisInv, Next, Typed', Grown
    PROVE  ContentsRight'
<1>0. Typed /\ ContentsRight /\ ExecutionsRight /\ ClaimsDiffer
  BY DEF AnalysisInv
<1> SUFFICES ASSUME NEW r \in Run, NEW s \in Stage, content'[<<r, s>>] # Absent
             PROVE  /\ content'[<<r, s>>].by \in 0..losses' + 1
                    /\ Ready(r, s)' /\ ReadRight(r, s, content[<<r, s>>].reads)'
  BY DEF ContentsRight
<1>00. losses \in Int /\ losses' \in Int /\ losses <= losses'
  BY <1>0 DEF Typed, Grown
<1>1. CASE content'[<<r, s>>] = content[<<r, s>>]
  <2>1. content[<<r, s>>].by \in 0..losses + 1
        /\ Ready(r, s) /\ ReadRight(r, s, content[<<r, s>>].reads)
    BY <1>0, <1>1 DEF ContentsRight
  <2>2. Ready(r, s)' /\ ReadRight(r, s, content[<<r, s>>].reads)'
    <3>1. \A reads : ReadRight(r, s, reads) => ReadRight(r, s, reads)'
      BY <2>1, Stays
    <3>2. Ready(r, s)'
      BY <2>1, Stays
    <3> QED
      BY <1>1, <2>1, <3>1, <3>2 DEF ReadRight
  <2> QED
    BY <1>00, <1>1, <2>1, <2>2
<1>2. CASE content'[<<r, s>>] # content[<<r, s>>]
  <2>1. PICK e \in execution : Store(e) /\ e.run = r /\ e.stage = s /\ content'[<<r, s>>] = Written(e)
    BY <1>2, ContentsMove
  <2>2. PhaseRight(e) /\ Ready(r, s) /\ e.phase = "store"
    BY <1>0, <2>1 DEF ExecutionsRight, Store
  <2>3. ReadRight(r, s, e.reads)
    BY <2>1, <2>2 DEF PhaseRight
  <2>4. ReadRight(r, s, e.reads)' /\ Ready(r, s)'
    BY <2>2, <2>3, Stays
  <2>5. content'[<<r, s>>].reads = e.reads /\ content'[<<r, s>>].by = e.made
    BY <2>1 DEF Written
  <2>6. e.made \in 0..losses + 1
    BY <1>0, <1>00 DEF ClaimsDiffer
  <2> QED
    BY <1>00, <2>4, <2>5, <2>6 DEF ReadRight
<1> QED
  BY <1>1, <1>2

(***************************************************************************)
(* What executions have.                                                   *)
(***************************************************************************)

(* An execution has what its phase needs, and what it has read is there.   *)
Fine(e) ==
    /\ PhaseRight(e)
    /\ \A i \in DOMAIN e.reads : Present(e.reads[i].of) /\ content[e.reads[i].of].by = e.reads[i].by

(* Somebody else's step leaves it what it has.                             *)
LEMMA FineStays ==
    ASSUME AnalysisInv, Next, Typed', Grown, NotesRight', NEW e \in execution
    PROVE  Fine(e)'
<1> DEFINE r == e.run  s == e.stage  own == <<e.run, e.stage>>
<1>0. r \in Run /\ s \in Stage /\ Fine(e) /\ Ready(r, s) /\ PhaseRight(e)
  BY DEF AnalysisInv, Typed, ExecutionTyped, ExecutionsRight, Fine
<1>1. e.phase = "work" => e.reads = <<>>
  BY <1>0 DEF PhaseRight
<1>2. s \in Plan /\ e.phase \notin {"work", "failed"} => own \in planned'
  BY <1>0 DEF PhaseRight, Grown
<1>3. e.phase \in {"store", "version"} => e.of = own /\ ReadRight(r, s, e.reads)'
  <2> HIDE DEF r, s, own
  <2>1. \A reads : ReadRight(r, s, reads) => ReadRight(r, s, reads)'
    BY <1>0, Stays
  <2> QED
    BY <1>0, <2>1 DEF PhaseRight, r, s, own
<1>4. e.phase = "version" => s \in Rendering /\ Present(own)' /\ content'[own].by = e.made
  BY <1>0, Stays DEF PhaseRight
<1>5. e.phase \in {"record", "publish"} => Settled(e.of)'
  BY <1>0, SettledStays DEF PhaseRight
<1>6. e.phase = "record" => s = "report" /\ (e.of = own \/ \E q \in Run : e.of \in refs'[q][s])
  BY <1>0 DEF PhaseRight, Grown
<1>7. e.phase = "publish" => s = "publication" /\ About(r, e.of)'
  BY <1>0, Stays DEF PhaseRight
<1>8. e.phase = "publish" =>
        e.of \in {<<r, "report">>, own} \/ (TakenOver(r, "report")' /\ e.of = <<r - 1, "report">>)
  BY <1>0, TakenOverStays DEF PhaseRight
<1>9. e.phase = "done" =>
        /\ Present(e.of)'
        /\ s \notin Rendering => e.of = own
        /\ s \in Core => refs'[r][s] = {own}
        /\ s = "report" => own \in noted'
        /\ s = "publication" => Good(r, e.of)'
  <2>1. refs[r][s] = {own} => refs'[r][s] = {own}
    BY <1>0, OriginalStays
  <2>2. Present(e.of) => Present(e.of)'
    BY Stays
  <2>3. Good(r, e.of) => Good(r, e.of)'
    BY <1>0, GoodStays
  <2>4. own \in noted => own \in noted'
    BY DEF Grown
  <2> HIDE DEF r, s, own
  <2> QED
    BY <1>0, <2>1, <2>2, <2>3, <2>4 DEF PhaseRight, r, s, own
<1>10. PhaseRight(e)'
  BY <1>1, <1>2, <1>3, <1>4, <1>5, <1>6, <1>7, <1>8, <1>9 DEF PhaseRight
<1>11. \A i \in DOMAIN e.reads : Present(e.reads[i].of)' /\ content'[e.reads[i].of].by = e.reads[i].by
  BY <1>0, Stays DEF Fine
<1> QED
  BY <1>10, <1>11 DEF Fine

(* An execution that has failed needs nothing.                             *)
LEMMA FailedIsFine ==
    ASSUME AnalysisInv, Next, Typed', Grown, NotesRight', NEW e \in execution, Goto(e, "failed")
    PROVE  \A f \in execution' \ execution : Fine(f)'
<1>0. DOMAIN e = Fields
  BY DEF AnalysisInv, Typed, ExecutionTyped
<1> DEFINE f == [e EXCEPT !.phase = "failed"]
<1>1. f.phase = "failed" /\ f.reads = e.reads
  BY <1>0 DEF Fields
<1>2. execution' = (execution \ {e}) \union {f}
  BY DEF Goto, Becomes
<1> HIDE DEF f
<1>3. Fine(e)'
  BY FineStays
<1>4. PhaseRight(f)'
  BY <1>1 DEF PhaseRight
<1>5. Fine(f)'
  BY <1>1, <1>3, <1>4 DEF Fine
<1> QED
  BY <1>2, <1>5

(* What was read rightly is there.                                         *)
LEMMA ReadStays ==
    ASSUME NEW r, NEW s, NEW reads, ReadRight(r, s, reads)
    PROVE  \A i \in DOMAIN reads : Present(reads[i].of) /\ content[reads[i].of].by = reads[i].by
BY DEF ReadRight, HasInputs, RightReads

(* Read gives the execution the inputs of its stage.                       *)
LEMMA ReadFine ==
    ASSUME AnalysisInv, Next, Typed', Grown, NotesRight', NEW e \in execution, Read(e)
    PROVE  \A g \in execution' \ execution : Fine(g)'
<1> PICK reads : reads = Reads(e)
  OBVIOUS
<1> PICK number : number = IF e.stage \in Rendering THEN Len(versions) + 1 ELSE 0
  OBVIOUS
<1> DEFINE r == e.run  s == e.stage  own == <<e.run, e.stage>>
           f == [e EXCEPT !.phase = "store", !.reads = reads, !.of = <<e.run, e.stage>>,
                          !.number = number]
<1>0. /\ r \in Run /\ s \in Stage /\ Ready(r, s) /\ DOMAIN e = Fields
      /\ s \notin Plan /\ Typed /\ RunsInOrder /\ OutputsRight
  BY DEF AnalysisInv, Typed, ExecutionTyped, ExecutionsRight, Read
<1>1. /\ f.run = r /\ f.stage = s /\ f.phase = "store" /\ f.reads = reads /\ f.of = own
  BY <1>0 DEF Fields
<1>2. execution' = (execution \ {e}) \union {f}
  BY DEF Read, Becomes
<1>3. ReadRight(r, s, reads)
  BY <1>0, ReadsAreRight
<1>4. ReadRight(r, s, reads)'
  BY <1>0, <1>3, Stays
<1>5. \A i \in DOMAIN reads : Present(reads[i].of)' /\ content'[reads[i].of].by = reads[i].by
  BY <1>3, ReadStays, Stays
<1> HIDE DEF f
<1>6. PhaseRight(f)'
  BY <1>0, <1>1, <1>4 DEF PhaseRight
<1>7. Fine(f)'
  BY <1>1, <1>5, <1>6 DEF Fine
<1> QED
  BY <1>2, <1>7

(* The report that is found is of this run, or of the run it recovers.     *)
LEMMA FindReportFine ==
    ASSUME AnalysisInv, Next, Typed', Grown, NotesRight', NEW e \in execution, FindReport(e)
    PROVE  \A g \in execution' \ execution : Fine(g)'
<1> DEFINE r == e.run  s == e.stage  own == <<e.run, e.stage>>
<1>0. /\ r \in Run /\ s \in Stage /\ Ready(r, s) /\ DOMAIN e = Fields /\ e.phase = "work"
      /\ s \in Rendering /\ Typed /\ RunsInOrder /\ OutputsRight /\ NotesRight /\ ContentsRight
      /\ e.reads = <<>>
  BY DEF AnalysisInv, Typed, ExecutionTyped, ExecutionsRight, FindReport, PhaseRight
<1>1. PICK a \in ArtifactsFor(r, "report") :
          /\ Becomes(e, [e EXCEPT !.of = a, !.phase = IF e.stage = "report" THEN "record" ELSE "publish"])
  BY DEF FindReport
<1> DEFINE f == [e EXCEPT !.of = a, !.phase = IF e.stage = "report" THEN "record" ELSE "publish"]
<1>2. /\ f.run = r /\ f.stage = s /\ f.phase = (IF s = "report" THEN "record" ELSE "publish")
      /\ f.reads = e.reads /\ f.of = a
  BY <1>0 DEF Fields
<1>3. execution' = (execution \ {e}) \union {f}
  BY <1>1 DEF Becomes
<1>4. PICK q \in Run \intersect Lineage(r) :
              /\ a \in refs[q]["report"] /\ <<q, "report">> \in noted
              /\ \A p \in Lineage(r) : <<p, "report">> \in noted => p <= q
  BY <1>0, <1>1, ArtifactsAreOf, StageNames
<1>5. a = <<q, "report">> /\ Settled(a) /\ Present(a)
  <2>1. "report" \in Stage /\ q \in Run
    BY StageNames
  <2>2. /\ refs[q]["report"] \subseteq {<<q, "report">>}
        /\ refs[q]["report"] # {} => Settled(<<q, "report">>)
    BY <1>0, <2>1 DEF NotesRight
  <2>3. a = <<q, "report">> /\ Settled(a)
    BY <1>4, <2>2
  <2> QED
    BY <2>3 DEF Settled
<1>6. Settled(a)' /\ a \in refs'[q]["report"]
  BY <1>4, <1>5, SettledStays, StageNames DEF Grown
<1>7. CASE s = "report"
  <2> HIDE DEF f
  <2>1. PhaseRight(f)'
    BY <1>2, <1>6, <1>7 DEF PhaseRight, Plan
  <2>2. Fine(f)'
    <3>1. Fine(e)'
      BY FineStays
    <3> QED
      BY <1>2, <2>1, <3>1 DEF Fine
  <2> QED
    BY <1>3, <2>2
<1>8. CASE s = "publication"
  <2>1. Succeeded(r, "report") /\ Succeeded(r, "recommendation")
    BY <1>0, <1>8, StageNames DEF Ready, Needs
  <2>2. content[a].reads["recommendation"].of = output[q]["recommendation"]
    <3>1. ReadRight(q, "report", content[<<q, "report">>].reads)
      BY <1>0, <1>5, StageNames DEF ContentsRight, Present
    <3>2. Inputs("report") = {"recommendation"}
      BY StageNames, InputsAreNeeded DEF Rendering
    <3> QED
      BY <1>5, <3>1, <3>2 DEF ReadRight, RightReads
  <2>3. ASSUME <<r, "report">> \in noted PROVE About(r, a) /\ a = <<r, "report">>
    <3>1. q = r
      BY <1>0, <1>4, <2>3, LineageIs DEF Run
    <3> QED
      BY <1>5, <2>1, <2>2, <3>1 DEF About
  <2>4. ASSUME TakenOver(r, "report") PROVE About(r, a) /\ a = <<r - 1, "report">>
    <3>1. r - 1 \in Run /\ source[r] = r - 1 /\ refs[r - 1]["report"] # {} /\ <<r, "report">> \notin noted
      BY <2>4 DEF TakenOver, Executed
    <3>2. <<r - 1, "report">> \in noted
      <4>1. PICK p \in Run : p = r - 1
        BY <3>1
      <4> QED
        BY <1>0, <3>1, <4>1, StageNames DEF NotesRight
    <3>3. r - 1 <= q /\ q # r /\ q \in 1..r
      BY <1>0, <1>4, <3>1, <3>2, LineageIs
    <3>4. q = r - 1
      BY <1>0, <3>3 DEF Run
    <3>5. TakenOver(r, "recommendation")
      <4>1. Inputs("report") = {"recommendation"}
        BY StageNames, InputsAreNeeded DEF Rendering
      <4> QED
        BY <1>0, <2>1, <2>4, <4>1, StageNames DEF OutputsRight
    <3>6. output[r]["recommendation"] = output[q]["recommendation"]
      BY <3>4, <3>5 DEF TakenOver, Core
    <3> QED
      BY <1>5, <2>1, <2>2, <2>4, <3>4, <3>6 DEF About
  <2>5. About(r, a) /\ (a = <<r, "report">> \/ (TakenOver(r, "report") /\ a = <<r - 1, "report">>))
    BY <1>0, <2>1, <2>3, <2>4, StageNames DEF OutputsRight
  <2>6. About(r, a)' /\ (a = <<r, "report">> \/ (TakenOver(r, "report")' /\ a = <<r - 1, "report">>))
    BY <1>0, <2>5, Stays, TakenOverStays
  <2> HIDE DEF f
  <2>7. PhaseRight(f)'
    BY <1>2, <1>6, <1>8, <2>6 DEF PhaseRight, Plan
  <2>8. Fine(f)'
    <3>1. Fine(e)'
      BY FineStays
    <3> QED
      BY <1>2, <2>7, <3>1 DEF Fine
  <2> QED
    BY <1>3, <2>8
<1> QED
  BY <1>0, <1>7, <1>8 DEF Rendering

(* A plan is among the groups before it is stored.                         *)
LEMMA PlanShardsFine ==
    ASSUME AnalysisInv, Next, Typed', Grown, NotesRight', NEW e \in execution, PlanShards(e)
    PROVE  \A g \in execution' \ execution : Fine(g)'
<1>1. CASE Goto(e, "failed")
  BY <1>1, FailedIsFine
<1>2. CASE ~Goto(e, "failed")
  <2> PICK reads : reads = Reads(e)
    OBVIOUS
  <2> PICK made : made = IF <<e.run, e.stage>> \notin planned THEN e.made ELSE 0
    OBVIOUS
  <2> DEFINE r == e.run  s == e.stage  own == <<e.run, e.stage>>
             f == [e EXCEPT !.phase = "store", !.reads = reads, !.of = <<e.run, e.stage>>, !.made = made]
  <2>0. /\ r \in Run /\ s \in Stage /\ Ready(r, s) /\ DOMAIN e = Fields
        /\ Typed /\ RunsInOrder /\ OutputsRight
    BY DEF AnalysisInv, Typed, ExecutionTyped, ExecutionsRight
  <2>1. /\ f.run = r /\ f.stage = s /\ f.phase = "store" /\ f.reads = reads /\ f.of = own
    BY <2>0 DEF Fields
  <2>2. execution' = (execution \ {e}) \union {f} /\ own \in planned'
    BY <1>2 DEF PlanShards, Becomes
  <2>3. ReadRight(r, s, reads)
    BY <2>0, ReadsAreRight
  <2>4. ReadRight(r, s, reads)'
    BY <2>0, <2>3, Stays
  <2>5. \A i \in DOMAIN reads : Present(reads[i].of)' /\ content'[reads[i].of].by = reads[i].by
    BY <2>3, ReadStays, Stays
  <2> HIDE DEF f
  <2>6. PhaseRight(f)'
    BY <2>0, <2>1, <2>2, <2>4 DEF PhaseRight
  <2>7. Fine(f)'
    BY <2>1, <2>5, <2>6 DEF Fine
  <2> QED
    BY <2>2, <2>7
<1> QED
  BY <1>1, <1>2

(* What is stored is there, and noted unless it is a rendering.            *)
LEMMA StoreFine ==
    ASSUME AnalysisInv, Next, Typed', Grown, NotesRight', NEW e \in execution, Store(e)
    PROVE  \A g \in execution' \ execution : Fine(g)'
<1> DEFINE r == e.run  s == e.stage  own == <<e.run, e.stage>>
<1>0. /\ r \in Run /\ s \in Stage /\ Ready(r, s) /\ DOMAIN e = Fields /\ own \in Artifact
      /\ Typed /\ PhaseRight(e) /\ e.phase = "store" /\ e.made \in Nat
  BY Distinct DEF AnalysisInv, Typed, ExecutionTyped, ExecutionsRight, Store
<1>1. CASE Goto(e, "failed")
  BY <1>1, FailedIsFine
<1>2. CASE ~Goto(e, "failed")
  <2>1. /\ content' = [content EXCEPT ![own] = Written(e)]
        /\ \/ s \in Rendering /\ Goto(e, "version")
           \/ s \notin Rendering /\ Goto(e, "done") /\ Note(r, s, own)
    BY <1>2 DEF Store
  <2>2. content'[own] = Written(e) /\ Written(e).by = e.made
    BY <1>0, <2>1 DEF Typed, Written
  <2>3. Written(e) # Absent
    BY <1>0, <2>2 DEF Absent
  <2>4. Present(own)' /\ content'[own].by = e.made
    BY <1>0, <2>2, <2>3 DEF Present
  <2>5. Fine(e)'
    BY FineStays
  <2>6. e.of = own /\ ReadRight(r, s, e.reads)' /\ (s \in Plan => own \in planned')
    BY <1>0, <2>5 DEF Fine, PhaseRight
  <2>7. CASE s \in Rendering
    <3> DEFINE f == [e EXCEPT !.phase = "version"]
    <3>1. /\ f.run = r /\ f.stage = s /\ f.phase = "version" /\ f.reads = e.reads /\ f.of = own
          /\ f.made = e.made
      BY <1>0, <2>6 DEF Fields
    <3>2. execution' = (execution \ {e}) \union {f}
      BY <2>1, <2>7 DEF Goto, Becomes
    <3> HIDE DEF f
    <3>3. PhaseRight(f)'
      BY <2>4, <2>6, <2>7, <3>1 DEF PhaseRight
    <3>4. Fine(f)'
      BY <2>5, <3>1, <3>3 DEF Fine
    <3> QED
      BY <3>2, <3>4
  <2>8. CASE s \notin Rendering
    <3> DEFINE f == [e EXCEPT !.phase = "done"]
    <3>1. /\ f.run = r /\ f.stage = s /\ f.phase = "done" /\ f.reads = e.reads /\ f.of = own
      BY <1>0, <2>6 DEF Fields
    <3>2. execution' = (execution \ {e}) \union {f}
      BY <2>1, <2>8 DEF Goto, Becomes
    <3>3. refs'[r][s] = {own}
      <4>1. NotesRight /\ Note(r, s, own)
        BY <2>1, <2>8 DEF AnalysisInv
      <4>2. \A q \in Run \ {r} : own \notin refs[q][s]
        <5> SUFFICES ASSUME NEW q \in Run \ {r}, own \in refs[q][s] PROVE FALSE
          OBVIOUS
        <5>1. refs[q][s] \subseteq {<<q, s>>}
          BY <1>0, <4>1 DEF NotesRight
        <5> QED
          BY <5>1
      <4>3. own \in refs'[r][s]
        BY <1>0, <4>1, <4>2, NoteGrows
      <4>4. refs'[r][s] \subseteq {own}
        BY <1>0 DEF NotesRight
      <4> QED
        BY <4>3, <4>4
    <3>4. s # "report" /\ s # "publication"
      BY <2>8 DEF Rendering
    <3> HIDE DEF f
    <3>5. PhaseRight(f)'
      BY <2>4, <2>6, <3>1, <3>3, <3>4 DEF PhaseRight
    <3>6. Fine(f)'
      BY <2>5, <3>1, <3>5 DEF Fine
    <3> QED
      BY <3>2, <3>6
  <2> QED
    BY <2>7, <2>8
<1> QED
  BY <1>1, <1>2

(* A rendering is settled when it has its version, or lost its number.     *)
LEMMA AddVersionFine ==
    ASSUME AnalysisInv, Next, Typed', Grown, NotesRight', NEW e \in execution, AddVersion(e)
    PROVE  \A g \in execution' \ execution : Fine(g)'
<1> DEFINE r == e.run  s == e.stage  own == <<e.run, e.stage>>
           phase == IF e.stage = "report" THEN "record" ELSE "publish"
           f == [e EXCEPT !.phase = phase]
<1>0. /\ r \in Run /\ s \in Stage /\ Ready(r, s) /\ DOMAIN e = Fields
      /\ Typed /\ PhaseRight(e) /\ e.phase = "version" /\ ClaimsDiffer
  BY DEF AnalysisInv, Typed, ExecutionTyped, ExecutionsRight, AddVersion
<1>1. /\ f.run = r /\ f.stage = s /\ f.phase = phase /\ f.reads = e.reads /\ f.of = e.of
      /\ f.made = e.made
  BY <1>0 DEF Fields
<1>2. execution' = (execution \ {e}) \union {f}
  BY DEF AddVersion, Goto, Becomes
<1>3. /\ e.of = own /\ s \in Rendering /\ Present(own) /\ content[own].by = e.made
      /\ ReadRight(r, s, e.reads)
  BY <1>0 DEF PhaseRight
<1>4. Present(own)' /\ content'[own] = content[own]
  BY <1>3, Stays
<1>5. phase \in {"record", "publish"} /\ (s = "report" <=> phase = "record")
  OBVIOUS
<1> HIDE DEF f
<1>6. Settled(own)'
  <2>1. ASSUME NEW g \in execution', Writing(g, own) PROVE g.made # content[own].by
    <3>1. g \in execution /\ g # e /\ g.run = r /\ g.stage = s
      BY <1>1, <1>2, <1>5, <2>1 DEF Writing
    <3>2. s \notin Plan
      BY <1>3 DEF Rendering, Plan
    <3>3. g.made = g.by /\ e.made = e.by /\ g.by # e.by
      BY <1>0, <3>1, <3>2 DEF ClaimsDiffer
    <3> QED
      BY <1>3, <3>3
  <2> QED
    BY <1>0, <1>3, <1>4, <2>1 DEF Settled
<1>7. Fine(e)'
  BY FineStays
<1>8. s = "publication" => About(r, own)'
  <2>1. ASSUME s = "publication" PROVE About(r, own)
    <3>1. Succeeded(r, "recommendation")
      BY <1>0, <2>1, StageNames DEF Ready, Needs
    <3>2. ReadRight(r, s, content[own].reads)
      BY <1>0, <1>3 DEF AnalysisInv, ContentsRight, Present
    <3>3. Inputs(s) = {"recommendation"}
      BY <1>0, <1>3, InputsAreNeeded
    <3>4. content[own].reads["recommendation"].of = output[r]["recommendation"]
      BY <3>2, <3>3 DEF ReadRight, RightReads
    <3> QED
      BY <1>3, <3>1, <3>4 DEF About
  <2> QED
    BY <1>0, <2>1, Stays
<1>9. PhaseRight(f)'
  <2>1. s \notin Plan
    BY <1>3 DEF Rendering, Plan
  <2>2. s = "report" \/ s = "publication"
    BY <1>3 DEF Rendering
  <2> QED
    BY <1>1, <1>3, <1>5, <1>6, <1>8, <2>1, <2>2 DEF PhaseRight
<1>10. Fine(f)'
  BY <1>1, <1>7, <1>9 DEF Fine
<1> QED
  BY <1>2, <1>10

(* A report is noted when it is done.                                      *)
LEMMA RecordReportFine ==
    ASSUME AnalysisInv, Next, Typed', Grown, NotesRight', NEW e \in execution, RecordReport(e)
    PROVE  \A g \in execution' \ execution : Fine(g)'
<1> DEFINE f == [e EXCEPT !.phase = "done"]
<1>0. /\ e.run \in Run /\ DOMAIN e = Fields /\ PhaseRight(e) /\ e.phase = "record"
  BY DEF AnalysisInv, Typed, ExecutionTyped, ExecutionsRight, RecordReport
<1>1. /\ f.run = e.run /\ f.stage = e.stage /\ f.phase = "done" /\ f.reads = e.reads /\ f.of = e.of
  BY <1>0 DEF Fields
<1>2. execution' = (execution \ {e}) \union {f}
  BY DEF RecordReport, Goto, Becomes
<1>3. e.stage = "report" /\ Settled(e.of)
  BY <1>0 DEF PhaseRight
<1>4. Present(e.of)'
  BY <1>3, Stays DEF Settled
<1>5. <<e.run, "report">> \in noted'
  BY DEF RecordReport, Note
<1>6. Fine(e)'
  BY FineStays
<1> HIDE DEF f
<1>7. PhaseRight(f)'
  BY <1>1, <1>3, <1>4, <1>5 DEF PhaseRight, Core, Plan, Rendering
<1>8. Fine(f)'
  BY <1>1, <1>6, <1>7 DEF Fine
<1> QED
  BY <1>2, <1>8

(* The version that is published is about the recommendation of the run,   *)
(* unless there is a report without a version.                             *)
LEMMA VersionIsGood ==
    ASSUME AnalysisInv, NEW r \in Run, NEW a, Settled(a), About(r, a), VersionOf(r) # 0,
           Succeeded(r, "report"),
           \/ a \in Run \X Rendering /\ a[1] = r
           \/ TakenOver(r, "report") /\ a = <<r - 1, "report">>
    PROVE  Good(r, versions[VersionOf(r)].of)
<1> DEFINE n == VersionOf(r)
           q == versions[n].run
<1>0. /\ Typed /\ RunsInOrder /\ VersionsRight /\ ContentsRight /\ OutputsRight
      /\ Succeeded(r, "recommendation") /\ a \in Run \X Rendering
  BY DEF AnalysisInv, About, Settled
<1>1. /\ n \in DOMAIN versions /\ q \in Lineage(r) /\ q \in Run
      /\ \A m \in DOMAIN versions : versions[m].run \in Lineage(r) => versions[m].run <= q
  BY <1>0, VersionIsOf DEF Version
<1>2. Present(versions[n].of) /\ \E s \in Rendering : versions[n].of = <<q, s>>
  BY <1>0, <1>1 DEF VersionsRight
<1> HIDE DEF n
<1>3. content[versions[n].of].reads["recommendation"].of = output[q]["recommendation"]
  <2>1. PICK s \in Rendering : versions[n].of = <<q, s>>
    BY <1>2
  <2>2. s \in Stage /\ Inputs(s) = {"recommendation"}
    BY InputsAreNeeded, StageNames
  <2>3. ReadRight(q, s, content[<<q, s>>].reads)
    BY <1>0, <1>1, <1>2, <2>1, <2>2 DEF ContentsRight, Present
  <2> QED
    BY <2>1, <2>2, <2>3 DEF ReadRight, RightReads
<1>4. CASE q = r
  BY <1>0, <1>2, <1>3, <1>4 DEF Good, About, n
<1>5. CASE q # r
  <2>1. \A m \in DOMAIN versions : versions[m].run # r
    BY <1>0, <1>1, <1>5, LineageIs DEF Run
  <2>2. CASE a[1] = r
    <3>1. \A m \in DOMAIN versions : versions[m].of # a
      BY <1>0, <2>1, <2>2 DEF VersionsRight
    <3>2. Taken(r)
      BY <1>0, <3>1 DEF Taken
    <3> QED
      BY <1>0, <1>2, <3>2 DEF Good, n
  <2>3. CASE TakenOver(r, "report") /\ a = <<r - 1, "report">>
    <3>1. r - 1 \in Run /\ source[r] = r - 1 /\ r - 1 \in Lineage(r)
      BY <1>0, <2>3, LineageIs DEF TakenOver
    <3>2. CASE q = r - 1
      <4>1. TakenOver(r, "recommendation")
        <5>1. Inputs("report") = {"recommendation"}
          BY StageNames, InputsAreNeeded DEF Rendering
        <5> QED
          BY <1>0, <2>3, <5>1, StageNames DEF OutputsRight
      <4>2. output[r]["recommendation"] = output[q]["recommendation"]
        BY <3>2, <4>1 DEF TakenOver, Core
      <4> QED
        BY <1>0, <1>2, <1>3, <4>2 DEF Good, About, n
    <3>3. CASE q # r - 1
      <4>1. q \in 1..r /\ q < r - 1
        BY <1>0, <1>1, <1>5, <3>3, LineageIs DEF Run
      <4>2. \A m \in DOMAIN versions : versions[m].run # r - 1
        BY <1>1, <3>1, <4>1 DEF Run
      <4>3. \A m \in DOMAIN versions : versions[m].of # a
        BY <1>0, <2>3, <4>2 DEF VersionsRight
      <4>4. Taken(r)
        BY <1>0, <4>3 DEF Taken
      <4> QED
        BY <1>0, <1>2, <4>4 DEF Good, n
    <3> QED
      BY <3>2, <3>3
  <2> QED
    BY <2>2, <2>3
<1> QED
  BY <1>4, <1>5

(* What is published is good.                                              *)
LEMMA PublishFine ==
    ASSUME AnalysisInv, Next, Typed', Grown, NotesRight', NEW e \in execution, Publish(e)
    PROVE  \A g \in execution' \ execution : Fine(g)'
<1> DEFINE r == e.run
<1>0. /\ r \in Run /\ e.stage \in Stage /\ Ready(r, e.stage) /\ DOMAIN e = Fields
      /\ PhaseRight(e) /\ e.phase = "publish"
  BY DEF AnalysisInv, Typed, ExecutionTyped, ExecutionsRight, Publish
<1>1. /\ e.stage = "publication" /\ About(r, e.of) /\ Settled(e.of)
      /\ \/ e.of \in {<<r, "report">>, <<r, "publication">>}
         \/ TakenOver(r, "report") /\ e.of = <<r - 1, "report">>
  BY <1>0 DEF PhaseRight
<1>2. Succeeded(r, "report")
  BY <1>0, <1>1, StageNames DEF Ready, Needs
<1>3. CASE Goto(e, "failed")
  BY <1>3, FailedIsFine
<1>4. CASE ~Goto(e, "failed")
  <2> PICK a : a = versions[VersionOf(r)].of
    OBVIOUS
  <2>1. VersionOf(r) # 0
        /\ (Becomes(e, [e EXCEPT !.phase = "done", !.of = a]) \/ (Goto(e, "done") /\ a = e.of))
    BY <1>4 DEF Publish
  <2>2. Good(r, a)
    <3>1. \/ e.of \in Run \X Rendering /\ e.of[1] = r
          \/ TakenOver(r, "report") /\ e.of = <<r - 1, "report">>
      BY <1>0, <1>1 DEF Rendering
    <3> QED
      BY <1>0, <1>1, <1>2, <2>1, <3>1, VersionIsGood
  <2>3. Good(r, a)' /\ Present(a)'
    BY <1>0, <2>2, GoodStays, Stays DEF Good
  <2>4. PICK f : /\ execution' = (execution \ {e}) \union {f}
                 /\ f.run = r /\ f.stage = e.stage /\ f.phase = "done" /\ f.reads = e.reads /\ f.of = a
    <3>1. CASE Becomes(e, [e EXCEPT !.phase = "done", !.of = a])
      <4> DEFINE f == [e EXCEPT !.phase = "done", !.of = a]
      <4>1. /\ f.run = r /\ f.stage = e.stage /\ f.phase = "done" /\ f.reads = e.reads /\ f.of = a
        BY <1>0 DEF Fields
      <4>2. execution' = (execution \ {e}) \union {f}
        BY <3>1 DEF Becomes
      <4> HIDE DEF f
      <4> QED
        BY <4>1, <4>2
    <3>2. CASE Goto(e, "done") /\ a = e.of
      <4> DEFINE f == [e EXCEPT !.phase = "done"]
      <4>1. /\ f.run = r /\ f.stage = e.stage /\ f.phase = "done" /\ f.reads = e.reads /\ f.of = a
        BY <1>0, <3>2 DEF Fields
      <4>2. execution' = (execution \ {e}) \union {f}
        BY <3>2 DEF Goto, Becomes
      <4> HIDE DEF f
      <4> QED
        BY <4>1, <4>2
    <3> QED
      BY <2>1, <3>1, <3>2
  <2>5. Fine(e)'
    BY FineStays
  <2>6. PhaseRight(f)'
    BY <1>1, <2>3, <2>4 DEF PhaseRight, Core, Plan, Rendering
  <2>7. Fine(f)'
    BY <2>4, <2>5, <2>6 DEF Fine
  <2> QED
    BY <2>4, <2>7
<1> QED
  BY <1>3, <1>4

(* A stage that is executed has its own result, if it has one.             *)
LEMMA OwnResult ==
    ASSUME AnalysisInv, Next, NEW e \in execution, e.stage \notin Rendering,
           output'[e.run][e.stage] # None
    PROVE  output'[e.run][e.stage] = <<e.run, e.stage>>
<1> DEFINE r == e.run  s == e.stage
<1>0. /\ r \in Run /\ s \in Stage /\ Ready(r, s) /\ Typed /\ OutputsRight /\ ExecutionsRight
      /\ RunsInOrder /\ (Succeeded(r, s) => output[r][s] = <<r, s>>) /\ state[r] # "NONE"
  BY DEF AnalysisInv, Typed, ExecutionTyped, ExecutionsRight
<1>1. CASE output'[r][s] = output[r][s]
  BY <1>0, <1>1 DEF Succeeded
<1>2. CASE CreateRun(r)
  BY <1>0, <1>2, NextRun DEF Run
<1>3. ASSUME NEW g \in execution, Reusing(g, s), g.run = r PROVE FALSE
  <2>1. g.stage \in Needs(s) /\ g.stage \in Plan /\ g.stage \in Stage
    BY <1>3, StageNames DEF Reusing, Needs, ShardOf, Plan, Shard
  <2>2. Succeeded(r, g.stage)
    BY <1>0, <2>1 DEF Ready
  <2>3. <<r, g.stage>> \in planned
    BY <1>0, <2>1, <2>2 DEF OutputsRight
  <2> QED
    BY <1>3, <2>3 DEF Reusing
<1>4. ASSUME NEW g \in execution, Finishing(g), g.run = r, g.stage = s, output'[r][s] = g.of
      PROVE  output'[r][s] = <<r, s>>
  <2>1. PhaseRight(g) /\ g.phase = "done"
    BY <1>0, <1>4 DEF ExecutionsRight, Finishing
  <2> QED
    BY <1>4, <2>1 DEF PhaseRight
<1>5. CASE output'[r][s] # output[r][s]
  BY <1>0, <1>2, <1>3, <1>4, <1>5, OutputsMove
<1> QED
  BY <1>1, <1>5

(* Executions keep what they need.                                         *)
LEMMA ExecutionsStep ==
    ASSUME AnalysisInv, Next, Typed', Grown, NotesRight'
    PROVE  ExecutionsRight'
<1>0. Typed /\ ExecutionsRight /\ OutputsRight
  BY DEF AnalysisInv
<1> SUFFICES ASSUME NEW f \in execution'
             PROVE  /\ Ready(f.run, f.stage)'
                    /\ state'[f.run] # "NONE"
                    /\ f.stage \notin Rendering /\ output'[f.run][f.stage] # None
                          => output'[f.run][f.stage] = <<f.run, f.stage>>
                    /\ Fine(f)'
  BY DEF ExecutionsRight, Fine, Succeeded
<1>1. ASSUME NEW e \in execution, f.run = e.run, f.stage = e.stage
      PROVE  /\ Ready(f.run, f.stage)'
             /\ state'[f.run] # "NONE"
             /\ f.stage \notin Rendering /\ output'[f.run][f.stage] # None
                   => output'[f.run][f.stage] = <<f.run, f.stage>>
  <2>1. e.run \in Run /\ e.stage \in Stage /\ Ready(e.run, e.stage) /\ state[e.run] # "NONE"
    BY <1>0 DEF Typed, ExecutionTyped, ExecutionsRight
  <2>2. Ready(e.run, e.stage)' /\ state'[e.run] # "NONE"
    BY <2>1, Stays DEF Grown
  <2> QED
    BY <1>1, <2>2, OwnResult DEF Ready
<1>2. CASE f \in execution
  BY <1>1, <1>2, FineStays
<1>3. CASE f \notin execution
  <2>1. ASSUME NEW r \in Run, Start(r), NEW g, Begins(r, g)
        PROVE  /\ Ready(f.run, f.stage)' /\ state'[f.run] # "NONE"
               /\ output'[f.run][f.stage] = None /\ Fine(f)'
    <3>1. f = g
      BY <1>3, <2>1 DEF Begins
    <3>2. f.run = r /\ f.stage \in Stage /\ Ready(r, f.stage) /\ ~Succeeded(r, f.stage)
          /\ f.phase = "work" /\ f.reads = <<>> /\ state[r] = "ACTIVE"
      BY <2>1, <3>1 DEF Begins
    <3>3. UNCHANGED <<state, output>>
      BY <2>1 DEF Start, runs
    <3>4. Ready(r, f.stage)'
      BY <3>2, Stays
    <3>5. PhaseRight(f)'
      BY <3>2 DEF PhaseRight
    <3>6. Fine(f)'
      BY <3>2, <3>5 DEF Fine
    <3> QED
      BY <3>2, <3>3, <3>4, <3>6 DEF Succeeded, Ready
  <2>2. ASSUME NEW e \in execution, Work(e), ~Outcome(e), NEW g, Follows(e, g)
        PROVE  f.run = e.run /\ f.stage = e.stage /\ Fine(f)'
    <3>1. f = g /\ f \in execution' \ execution
      BY <1>3, <2>2 DEF Follows
    <3>2. Fine(f)'
      <4>1. CASE Break(e)
        BY <3>1, <4>1, FailedIsFine DEF Break
      <4> QED
        BY <2>2, <3>1, <4>1, ReadFine, FindReportFine, PlanShardsFine, StoreFine, AddVersionFine,
           RecordReportFine, PublishFine DEF Work
    <3> QED
      BY <2>2, <3>1, <3>2 DEF Follows
  <2>3. ASSUME NEW e \in execution, execution' = execution \ {e} PROVE FALSE
    BY <1>3, <2>3
  <2> QED
    BY <1>1, <1>3, <2>1, <2>2, <2>3, ExecutionsMove
<1> QED
  BY <1>2, <1>3

(* Claims stay apart.                                                      *)
LEMMA ClaimsStep ==
    ASSUME AnalysisInv, Next, Typed', Grown
    PROVE  ClaimsDiffer'
<1>0. Typed /\ ClaimsDiffer /\ losses \in Nat /\ losses' \in Nat /\ losses <= losses'
  BY AnalysisAssumption DEF AnalysisInv, Typed, Grown
<1>00. \A e \in execution : e.run \in Run /\ e.by \in Nat /\ holder[e.run] \in Nat
  BY <1>0 DEF Typed, ExecutionTyped
<1>1. CASE execution' = execution
  <2>1. ASSUME NEW e \in execution, holder'[e.run] # e.by PROVE e.by <= losses'
    <3>1. CASE \E r \in Run : Lose(r)
      <4>1. losses' = losses + 1
        BY <3>1 DEF Lose
      <4> QED
        BY <1>0, <4>1 DEF ClaimsDiffer
    <3>2. CASE ~ \E r \in Run : Lose(r)
      <4>1. holder' = holder
        <5>1. ASSUME NEW r \in Run, Start(r) PROVE FALSE
          <6>1. PICK f : Begins(r, f)
            BY <1>0, <5>1, StartBegins
          <6>2. f \in execution /\ f.by = losses + 1 /\ f.run = r /\ holder[r] = 0
            BY <1>1, <6>1 DEF Begins
          <6> QED
            BY <1>0, <6>2 DEF ClaimsDiffer, Holding
        <5>2. ASSUME NEW g \in execution, Outcome(g) PROVE FALSE
          BY <1>1, <5>2 DEF Outcome
        <5> QED
          BY <3>2, <5>1, <5>2 DEF Next, CreateRun, Work, Read, FindReport, PlanShards, Break, Store,
             AddVersion, RecordReport, Publish
      <4> QED
        BY <1>0, <2>1, <4>1 DEF ClaimsDiffer, Holding
    <3> QED
      BY <3>1, <3>2
  <2> QED
    BY <1>0, <1>1, <2>1 DEF ClaimsDiffer, Holding
<1>2. ASSUME NEW r \in Run, Start(r), NEW g, Begins(r, g) PROVE ClaimsDiffer'
  <2>1. /\ g.run = r /\ g.by = losses + 1 /\ g.made = losses + 1 /\ holder[r] = 0
        /\ holder' = [holder EXCEPT ![r] = losses + 1] /\ execution' = execution \union {g}
        /\ losses' = losses
    BY <1>2 DEF Begins, Start
  <2>2. \A e \in execution : e.run = r => e.by <= losses
    BY <1>0, <2>1 DEF ClaimsDiffer, Holding
  <2>3. holder'[r] = losses + 1 /\ \A q \in Run : q # r => holder'[q] = holder[q]
    BY <1>0, <2>1 DEF Typed
  <2>4. \A e \in execution' : /\ e.by \in 1..losses' + 1 /\ (holder'[e.run] # e.by => e.by <= losses')
                              /\ e.made \in {0, e.by} /\ (e.stage \notin Plan => e.made = e.by)
    BY <1>0, <1>00, <2>1, <2>2, <2>3 DEF ClaimsDiffer, Holding
  <2>5. \A e, f \in execution' : e.run = f.run /\ e.by = f.by => e = f
    <3> SUFFICES ASSUME NEW e \in execution', NEW f \in execution', e.run = f.run, e.by = f.by, e # f
                 PROVE  FALSE
      OBVIOUS
    <3>1. CASE e \in execution /\ f \in execution
      BY <1>0, <3>1 DEF ClaimsDiffer
    <3>2. CASE e \in execution /\ f = g
      BY <1>0, <1>00, <2>1, <2>2, <3>2
    <3>3. CASE f \in execution /\ e = g
      BY <1>0, <1>00, <2>1, <2>2, <3>3
    <3> QED
      BY <2>1, <3>1, <3>2, <3>3
  <2> QED
    BY <2>4, <2>5 DEF ClaimsDiffer, Holding
<1>3. ASSUME NEW e \in execution, Work(e), ~Outcome(e), NEW g, Follows(e, g) PROVE ClaimsDiffer'
  <2>1. holder' = holder /\ losses' = losses
    BY <1>3 DEF Work, Read, FindReport, PlanShards, Break, Store, AddVersion, RecordReport, Publish
  <2>2. /\ g.run = e.run /\ g.stage = e.stage /\ g.by = e.by
        /\ g.made = e.made \/ (e.stage \in Plan /\ g.made = 0)
        /\ execution' = (execution \ {e}) \union {g}
    BY <1>3 DEF Follows
  <2>3. \A f \in execution' : /\ f.by \in 1..losses' + 1 /\ (holder'[f.run] # f.by => f.by <= losses')
                              /\ f.made \in {0, f.by} /\ (f.stage \notin Plan => f.made = f.by)
    BY <1>0, <2>1, <2>2 DEF ClaimsDiffer, Holding
  <2>4. \A f, h \in execution' : f.run = h.run /\ f.by = h.by => f = h
    BY <1>0, <2>2 DEF ClaimsDiffer
  <2> QED
    BY <2>3, <2>4 DEF ClaimsDiffer, Holding
<1>4. ASSUME NEW e \in execution, Outcome(e), execution' = execution \ {e} PROVE ClaimsDiffer'
  <2>1. losses' = losses
    BY <1>4 DEF Outcome
  <2>2. holder' = holder \/ (Holding(e) /\ holder' = [holder EXCEPT ![e.run] = 0])
    BY <1>4 DEF Outcome
  <2>3. ASSUME NEW f \in execution', holder'[f.run] # f.by PROVE f.by <= losses
    <3>1. f \in execution /\ f # e
      BY <1>4
    <3>2. CASE holder[f.run] # f.by
      BY <1>0, <3>1, <3>2 DEF ClaimsDiffer, Holding
    <3>3. CASE holder[f.run] = f.by
      <4>1. holder' # holder
        BY <2>3, <3>3
      <4>2. f.run = e.run
        BY <1>0, <1>00, <2>2, <2>3, <3>1, <3>3, <4>1 DEF Typed
      <4>3. f.by = e.by
        BY <2>2, <3>3, <4>1, <4>2 DEF Holding
      <4> QED
        BY <1>0, <3>1, <4>2, <4>3 DEF ClaimsDiffer
    <3> QED
      BY <3>2, <3>3
  <2> QED
    BY <1>0, <1>4, <2>1, <2>3 DEF ClaimsDiffer, Holding
<1> QED
  BY <1>1, <1>2, <1>3, <1>4, ExecutionsMove

(* Writers stay apart.                                                     *)
LEMMA WritersStep ==
    ASSUME AnalysisInv, Next, Typed', Grown
    PROVE  WritersDiffer'
<1>0. Typed /\ ClaimsDiffer /\ WritersDiffer /\ ContentsRight /\ ExecutionsRight
      /\ losses \in Nat /\ losses' \in Nat /\ losses <= losses'
  BY AnalysisAssumption DEF AnalysisInv, Typed, Grown
<1> SUFFICES ASSUME NEW r \in Run, NEW s \in Rendering, content'[<<r, s>>] # Absent,
                    state'[r] = "ACTIVE", output'[r][s] = None
             PROVE  \/ content'[<<r, s>>].by <= losses'
                    \/ \E e \in execution' : holder'[e.run] = e.by /\ e.run = r /\ e.stage = s
  BY DEF WritersDiffer, Holding, Succeeded
<1>00. s \in Stage /\ s \notin Plan /\ output[r][s] = None
  BY StageNames DEF Rendering, Plan, Grown
<1>1. CASE content'[<<r, s>>] # content[<<r, s>>]
  <2>1. PICK e \in execution : Store(e) /\ e.run = r /\ e.stage = s /\ content'[<<r, s>>] = Written(e)
    BY <1>00, <1>1, ContentsMove
  <2>2. holder' = holder /\ losses' = losses /\ content'[<<r, s>>].by = e.by
    BY <1>0, <1>00, <2>1 DEF Store, Written, ClaimsDiffer
  <2>3. CASE Holding(e)
    <3>1. e.phase = "store" /\ (Goto(e, "failed") \/ Goto(e, "version") \/ Goto(e, "done"))
      BY <2>1 DEF Store
    <3>2. PICK f : Follows(e, f)
      BY <1>0, <3>1, GotoFollows
    <3> QED
      BY <2>1, <2>2, <2>3, <3>2 DEF Follows, Holding
  <2>4. CASE ~Holding(e)
    BY <1>0, <2>2, <2>4 DEF ClaimsDiffer
  <2> QED
    BY <2>3, <2>4
<1>2. CASE content'[<<r, s>>] = content[<<r, s>>]
  <2>1. state[r] = "ACTIVE" /\ ~CreateRun(r)
    <3>1. ~CreateRun(r)
      BY <1>0, <1>00, <1>2, NextRun DEF AnalysisInv, RunsInOrder, Untouched, Run
    <3> QED
      BY <3>1, StatesMove
  <2>2. content[<<r, s>>].by \in 0..losses + 1
    BY <1>0, <1>00, <1>2 DEF ContentsRight
  <2>3. CASE content[<<r, s>>].by <= losses
    BY <1>0, <1>2, <2>2, <2>3
  <2>4. ASSUME NEW e \in execution, Holding(e), e.run = r, e.stage = s
        PROVE  \/ losses' = losses + 1
               \/ \E f \in execution' : holder'[f.run] = f.by /\ f.run = r /\ f.stage = s
    <3>0. holder[r] = e.by /\ e.by # 0
      BY <1>0, <2>4 DEF Holding, ClaimsDiffer
    <3>1. ASSUME NEW q \in Run, CreateRun(q) PROVE e \in execution' /\ holder' = holder
      BY <3>1 DEF CreateRun
    <3>2. ASSUME NEW q \in Run, Start(q) PROVE e \in execution' /\ holder'[r] = holder[r]
      BY <1>0, <3>0, <3>2 DEF Start, Typed
    <3>3. ASSUME NEW q \in Run, Lose(q) PROVE losses' = losses + 1
      BY <3>3 DEF Lose
    <3>4. ASSUME NEW g \in execution, Work(g), ~Outcome(g)
          PROVE  \E f \in execution' : holder'[f.run] = f.by /\ f.run = r /\ f.stage = s
      <4>1. holder' = holder
        BY <3>4 DEF Work, Read, FindReport, PlanShards, Break, Store, AddVersion, RecordReport, Publish
      <4>2. CASE e \in execution'
        BY <2>4, <3>0, <4>1, <4>2
      <4>3. CASE e \notin execution'
        <5>1. PICK f : Follows(g, f)
          BY <3>4, WorkFollows
        <5>2. g = e /\ f \in execution' /\ f.run = r /\ f.stage = s /\ f.by = e.by
          BY <2>4, <4>3, <5>1 DEF Follows
        <5> QED
          BY <3>0, <4>1, <5>2
      <4> QED
        BY <4>2, <4>3
    <3>5. ASSUME NEW g \in execution, Outcome(g) PROVE e \in execution' /\ holder'[r] = holder[r]
      <4>0. ExecutionTyped(g) /\ PhaseRight(g)
        BY <1>0 DEF Typed, ExecutionsRight
      <4>1. g # e
        <5> SUFFICES ASSUME g = e PROVE FALSE
          OBVIOUS
        <5>1. CASE e.phase = "done"
          <6>1. output' = [output EXCEPT ![r][s] = e.of]
            BY <2>4, <3>5, <5>1 DEF Outcome
          <6>2. output'[r][s] = e.of
            BY <1>0, <1>00, <6>1 DEF Typed
          <6>3. e.of # None
            BY <4>0, <5>1, Distinct DEF PhaseRight, Present
          <6> QED
            BY <6>2, <6>3
        <5>2. CASE e.phase = "failed"
          <6>1. state' = [state EXCEPT ![r] = "FAILED"]
            BY <2>4, <3>5, <5>2 DEF Outcome
          <6> QED
            BY <1>0, <6>1 DEF Typed
        <5> QED
          BY <3>5, <5>1, <5>2 DEF Outcome
      <4>2. e \in execution'
        BY <3>5, <4>1 DEF Outcome
      <4>3. holder'[r] = holder[r]
        <5>1. CASE ~Holding(g)
          BY <3>5, <5>1 DEF Outcome
        <5>2. CASE Holding(g)
          <6>1. g.run # r
            BY <1>0, <2>4, <3>0, <4>1, <5>2 DEF ClaimsDiffer, Holding
          <6> QED
            BY <1>0, <3>5, <5>2, <6>1 DEF Outcome, Typed
        <5> QED
          BY <5>1, <5>2
      <4> QED
        BY <4>2, <4>3
    <3> QED
      BY <2>4, <3>0, <3>1, <3>2, <3>3, <3>4, <3>5 DEF Next
  <2>5. \/ content[<<r, s>>].by <= losses
        \/ \E e \in execution : Holding(e) /\ e.run = r /\ e.stage = s
    <3>1. content[<<r, s>>] # Absent /\ ~Succeeded(r, s)
      BY <1>00, <1>2 DEF Succeeded
    <3> QED
      BY <1>0, <2>1, <3>1 DEF WritersDiffer
  <2> QED
    BY <1>0, <1>2, <2>2, <2>3, <2>4, <2>5
<1> QED
  BY <1>1, <1>2

(* Versions stay right.                                                    *)
LEMMA VersionsStep ==
    ASSUME AnalysisInv, Next, Typed', Grown
    PROVE  VersionsRight'
<1>0. Typed /\ VersionsRight /\ ExecutionsRight
  BY DEF AnalysisInv
<1> SUFFICES ASSUME NEW n \in DOMAIN versions'
             PROVE  /\ Present(versions[n].of)'
                    /\ \E s \in Rendering : versions'[n].of = <<versions'[n].run, s>>
  BY DEF VersionsRight
<1>1. CASE n \in DOMAIN versions /\ versions'[n].run = versions[n].run /\ versions'[n].of = versions[n].of
  <2>1. Present(versions[n].of) /\ \E s \in Rendering : versions[n].of = <<versions[n].run, s>>
    BY <1>0, <1>1 DEF VersionsRight
  <2> QED
    BY <1>1, <2>1, Stays DEF Present
<1>2. ASSUME NEW e \in execution, AddVersion(e), versions'[n].run = e.run, versions'[n].of = e.of
      PROVE  /\ Present(versions[n].of)'
             /\ \E s \in Rendering : versions'[n].of = <<versions'[n].run, s>>
  <2>1. e.of = <<e.run, e.stage>> /\ e.stage \in Rendering /\ Present(e.of)
    BY <1>0, <1>2 DEF ExecutionsRight, PhaseRight, AddVersion
  <2> QED
    BY <1>2, <2>1, Stays DEF Present
<1> QED
  BY <1>1, <1>2, VersionsMove

(* Every action keeps the invariant.                                       *)
LEMMA AnalysisStep ==
    AnalysisInv /\ [Next]_vars => AnalysisInv'
<1> SUFFICES ASSUME AnalysisInv, [Next]_vars PROVE AnalysisInv'
  OBVIOUS
<1>1. Typed' /\ Grown
  BY TypedStep, Grows
<1>2. CASE Next
  <2>1. NotesRight'
    BY <1>1, <1>2, NotesStep
  <2> QED
    BY <1>1, <1>2, <2>1, RunsStep, ContentsStep, OutputsStep, ExecutionsStep, ClaimsStep, WritersStep,
       VersionsStep DEF AnalysisInv
<1>3. CASE UNCHANGED vars
  <2> USE <1>3 DEF vars, runs, memory
  <2>1. \A a : (Present(a)' <=> Present(a)) /\ (Settled(a)' <=> Settled(a))
    BY DEF Present, Settled
  <2>2. \A r, s : /\ Succeeded(r, s)' <=> Succeeded(r, s)
                  /\ Ready(r, s)' <=> Ready(r, s)
                  /\ TakenOver(r, s)' <=> TakenOver(r, s)
                  /\ Original(r, s)' <=> Original(r, s)
    BY DEF Succeeded, Ready, Needs, Inputs, TakenOver, Original, Executed
  <2>3. \A r, s, reads : ReadRight(r, s, reads)' <=> ReadRight(r, s, reads)
    BY DEF ReadRight, HasInputs, RightReads, Present, Inputs
  <2>4. \A r, a : (About(r, a)' <=> About(r, a)) /\ (Good(r, a)' <=> Good(r, a))
    BY DEF About, Good, Taken, Present, Succeeded, Settled
  <2>5. RunsInOrder'
    BY <2>2 DEF AnalysisInv, RunsInOrder, Untouched
  <2>6. NotesRight' /\ VersionsRight'
    BY <2>1 DEF AnalysisInv, NotesRight, VersionsRight
  <2>7. ContentsRight'
    BY <2>2, <2>3 DEF AnalysisInv, ContentsRight
  <2>8. OutputsRight'
    BY <2>1, <2>2, <2>4 DEF AnalysisInv, OutputsRight, Inputs
  <2>9. ExecutionsRight'
    <3>1. \A e : (\A i \in DOMAIN e.reads : Present(e.reads[i].of)' /\ content'[e.reads[i].of].by = e.reads[i].by)
                 <=> (\A i \in DOMAIN e.reads : Present(e.reads[i].of) /\ content[e.reads[i].of].by = e.reads[i].by)
      BY <2>1
    <3>2. \A e : PhaseRight(e) => PhaseRight(e)'
      <4> SUFFICES ASSUME NEW e, PhaseRight(e) PROVE PhaseRight(e)'
        OBVIOUS
      <4>1. /\ ReadRight(e.run, e.stage, e.reads) => ReadRight(e.run, e.stage, e.reads)'
            /\ About(e.run, e.of) => About(e.run, e.of)'
            /\ Good(e.run, e.of) => Good(e.run, e.of)'
            /\ TakenOver(e.run, "report") => TakenOver(e.run, "report")'
            /\ Settled(e.of) => Settled(e.of)'
            /\ Present(e.of) => Present(e.of)'
            /\ Present(<<e.run, e.stage>>) => Present(<<e.run, e.stage>>)'
        BY <2>1, <2>2, <2>3, <2>4
      <4> QED
        BY <4>1 DEF PhaseRight
    <3> QED
      BY <2>2, <3>1, <3>2 DEF AnalysisInv, ExecutionsRight
  <2>10. ClaimsDiffer' /\ WritersDiffer'
    BY <2>2 DEF AnalysisInv, ClaimsDiffer, WritersDiffer, Holding
  <2> QED
    BY <1>1, <2>5, <2>6, <2>7, <2>8, <2>9, <2>10 DEF AnalysisInv
<1> QED
  BY <1>2, <1>3

(* The invariant of the analyses, for any number of runs.                  *)
LEMMA AnalysisIsInductive ==
    Spec => []AnalysisInv
<1>1. Init => AnalysisInv
  BY TypedInit
<1>2. AnalysisInv /\ [Next]_vars => AnalysisInv'
  BY AnalysisStep
<1> QED
  BY <1>1, <1>2, PTL DEF Spec

(* Every variable of the analyses holds a value of its kind                *)
(* (drizzle-postgres/0000_dusty_blazing_skull.sql:1).                      *)
THEOREM AnalysisTypeCorrect ==
    Spec => []TypeOK
<1>1. ASSUME AnalysisInv PROVE TypeOK
  <2>0. Typed /\ ClaimsDiffer /\ ContentsRight /\ losses \in 0..MaxLoss /\ MaxLoss \in Nat
    BY <1>1, AnalysisAssumption DEF AnalysisInv, Typed
  <2>1. \A a \in Artifact : content[a].by \in -1..MaxLoss + 1
    <3> SUFFICES ASSUME NEW a \in Artifact PROVE content[a].by \in -1..MaxLoss + 1
      OBVIOUS
    <3>1. PICK r \in Run, s \in Stage : a = <<r, s>>
      BY DEF Artifact
    <3>2. CASE content[a] = Absent
      BY <2>0, <3>2 DEF Absent
    <3>3. CASE content[a] # Absent
      <4>1. content[a].by \in 0..losses + 1
        BY <2>0, <3>1, <3>3 DEF ContentsRight
      <4> QED
        BY <2>0, <4>1
    <3> QED
      BY <3>2, <3>3
  <2>2. \A n \in DOMAIN versions : versions[n].run \in Run /\ versions[n].of \in Artifact
    <3>1. \A n \in DOMAIN versions : versions[n] \in Version
      BY <2>0 DEF Typed
    <3> QED
      BY <3>1 DEF Version
  <2>3. \A e \in execution : e.run \in Run /\ e.stage \in Stage /\ e.by \in 1..MaxLoss + 1
    BY <2>0 DEF Typed, ExecutionTyped, ClaimsDiffer
  <2> QED
    BY <2>0, <2>1, <2>2, <2>3 DEF TypeOK, Typed
<1> QED
  BY <1>1, AnalysisIsInductive, PTL

(* What an artifact was made from, and what an execution has read, is not  *)
(* changed by anybody (storage/blob-store.ts:56).                          *)
THEOREM InputsAreKept ==
    Spec => []InputsStay
<1>1. ASSUME AnalysisInv PROVE InputsStay
  <2>1. ASSUME NEW a \in Artifact, NEW i \in DOMAIN content[a].reads
        PROVE  content[content[a].reads[i].of].by = content[a].reads[i].by
    <3>1. PICK r \in Run, s \in Stage : a = <<r, s>>
      BY DEF Artifact
    <3>2. content[a] # Absent
      BY <2>1 DEF Absent
    <3>3. ReadRight(r, s, content[a].reads)
      BY <1>1, <3>1, <3>2 DEF AnalysisInv, ContentsRight
    <3> QED
      BY <2>1, <3>3, ReadStays
  <2>2. \A e \in execution : \A i \in DOMAIN e.reads : content[e.reads[i].of].by = e.reads[i].by
    BY <1>1 DEF AnalysisInv, ExecutionsRight
  <2> QED
    BY <2>1, <2>2 DEF InputsStay
<1> QED
  BY <1>1, AnalysisIsInductive, PTL

(* What a run stands on is one set of artifacts, though a part of them is  *)
(* taken over (production-runtime.ts:1435).                                *)
THEOREM SnapshotsAreCoherent ==
    Spec => []SnapshotIsCoherent
<1>1. ASSUME AnalysisInv PROVE SnapshotIsCoherent
  <2> SUFFICES ASSUME NEW r \in Run, content[<<r, "recommendation">>] # Absent
               PROVE  LET reads == content[<<r, "recommendation">>].reads
                      IN  /\ content[reads["verify"].of].reads["rows"] = reads["rows"]
                          /\ content[reads["rows"].of].reads["evidence"] = reads["evidence"]
    BY DEF SnapshotIsCoherent
  <2>0. Typed /\ RunsInOrder /\ OutputsRight /\ ContentsRight
    BY <1>1 DEF AnalysisInv
  <2> DEFINE reads == content[<<r, "recommendation">>].reads
             input(s) == [of |-> output[r][s], by |-> content[output[r][s]].by]
  <2>1. Ready(r, "recommendation") /\ ReadRight(r, "recommendation", reads)
    BY <2>0, StageNames DEF ContentsRight
  <2>2. reads["verify"] = input("verify") /\ reads["rows"] = input("rows")
        /\ reads["evidence"] = input("evidence")
    BY <2>1, StageNames DEF ReadRight, RightReads, Inputs, Rendering
  <2>3. Succeeded(r, "verify") /\ Succeeded(r, "rows") /\ Succeeded(r, "evidence")
    BY <2>1, StageNames DEF Ready, Needs, Inputs, Rendering
  <2>4. ASSUME NEW s \in {"verify", "rows"}, NEW i \in Inputs(s), i \in Core, Succeeded(r, s)
        PROVE  content[output[r][s]].reads[i] = input(i)
    <3>0. s \in Stage /\ s \in Core /\ i \in Stage
      BY <2>4, StageNames DEF Core
    <3>1. Present(output[r][s]) /\ (Original(r, s) \/ TakenOver(r, s))
      BY <2>0, <2>4, <3>0 DEF OutputsRight
    <3>2. CASE Original(r, s)
      <4>1. ReadRight(r, s, content[<<r, s>>].reads)
        BY <2>0, <3>0, <3>1, <3>2 DEF ContentsRight, Original, Present
      <4> QED
        BY <2>4, <3>2, <4>1 DEF ReadRight, RightReads, Original
    <3>3. CASE TakenOver(r, s)
      <4>1. PICK q \in Run : q = r - 1
        BY <3>3 DEF TakenOver
      <4>2. output[r][s] = <<q, s>>
        BY <3>0, <3>3, <4>1 DEF TakenOver
      <4>3. ReadRight(q, s, content[<<q, s>>].reads)
        BY <2>0, <3>0, <3>1, <4>2 DEF ContentsRight, Present
      <4>4. TakenOver(r, i)
        BY <2>0, <2>4, <3>0, <3>3 DEF OutputsRight
      <4>5. output[q][i] = output[r][i]
        BY <2>4, <4>1, <4>4 DEF TakenOver
      <4> QED
        BY <2>4, <4>2, <4>3, <4>5 DEF ReadRight, RightReads
    <3> QED
      BY <3>1, <3>2, <3>3
  <2>5. "rows" \in Inputs("verify") /\ "evidence" \in Inputs("rows") /\ {"rows", "evidence"} \subseteq Core
    BY StageNames DEF Inputs, Core, Rendering, Shard
  <2>6. content[output[r]["verify"]].reads["rows"] = input("rows")
    BY <2>3, <2>4, <2>5
  <2>7. content[output[r]["rows"]].reads["evidence"] = input("evidence")
    BY <2>3, <2>4, <2>5
  <2> QED
    BY <2>2, <2>6, <2>7
<1> QED
  BY <1>1, AnalysisIsInductive, PTL

(* The stages find in the lineage what the run has succeeded with          *)
(* (production-runtime.ts:105).                                            *)
THEOREM ResultsAreFound ==
    Spec => []ResultIsFound
<1>1. ASSUME AnalysisInv PROVE ResultIsFound
  <2>1. Typed /\ RunsInOrder /\ OutputsRight
    BY <1>1 DEF AnalysisInv
  <2> QED
    BY <2>1, LatestIs DEF ResultIsFound, Core
<1> QED
  BY <1>1, AnalysisIsInductive, PTL

(* The report that is published is the run's own, unless the number of its *)
(* own was taken (production-runtime.ts:1641, 680, 2005).                  *)
THEOREM PublishedReportsAreOwn ==
    Spec => []PublishedIsOwn
<1>1. ASSUME AnalysisInv PROVE PublishedIsOwn
  <2> SUFFICES ASSUME NEW r \in Run, Succeeded(r, "publication")
               PROVE  \/ IsOwn(r, output[r]["publication"])
                      \/ \E a \in Run \X Rendering : NumberTaken(a) /\ IsOwn(r, a)
    BY DEF PublishedIsOwn
  <2>0. Typed /\ RunsInOrder /\ OutputsRight /\ ExecutionsRight
    BY <1>1 DEF AnalysisInv
  <2>1. Good(r, output[r]["publication"])
    BY <2>0, StageNames DEF OutputsRight
  <2>2. LatestArtifact(r, "recommendation") = output[r]["recommendation"]
    BY <2>0, <2>1, LatestIs DEF Good, Core
  <2>3. \A a : About(r, a) => IsOwn(r, a)
    BY <2>2 DEF About, IsOwn
  <2>4. ASSUME NEW a \in Run \X Rendering, Settled(a), \A n \in DOMAIN versions : versions[n].of # a
        PROVE  NumberTaken(a)
    <3>1. ASSUME NEW e \in execution, e.of = a, e.phase = "version" PROVE FALSE
      <4>1. PhaseRight(e)
        BY <2>0 DEF ExecutionsRight
      <4>2. a = <<e.run, e.stage>> /\ content[a].by = e.made
        BY <3>1, <4>1 DEF PhaseRight
      <4> QED
        BY <2>4, <3>1, <4>2 DEF Settled, Writing
    <3> QED
      BY <2>4, <3>1 DEF NumberTaken, Settled, Present
  <2> QED
    BY <2>1, <2>3, <2>4 DEF Good, Taken
<1> QED
  BY <1>1, AnalysisIsInductive, PTL

(***************************************************************************)
(* CandidateIntake: from the folder to the run.                            *)
(***************************************************************************)

StatusOf == {"NEW", "WAITING_FOR_STABILITY", "MATERIALS_INCOMPLETE", "ANALYZING", "READY", "FAILED"}
RunOf == [trigger : Content \X Nat, content : Content, current : {TRUE, FALSE},
          state : {"ACTIVE", "PUBLISHED", "SUCCEEDED", "FAILED", "PAUSED"}]

ListingTyped ==
    /\ folder \in Content /\ observed \in Content \union {NoContent}
    /\ streak \in 0..4 /\ count \in 0..3
RecordTyped == status \in StatusOf /\ revision \in Nat /\ (exists <=> revision # 0)
RowTyped ==
    /\ DOMAIN row = {"status", "revision", "first", "current"}
    /\ row.status \in StatusOf \union {"none"} /\ row.revision \in Nat
    /\ row.current = TRUE \/ row.current = FALSE
CommandsTyped ==
    /\ DOMAIN command = Command
    /\ \A c \in Command : /\ DOMAIN command[c] = {"action", "status", "archived", "revision"}
                          /\ command[c].revision \in Nat
                          /\ command[c] # Idle => command[c].status \in StatusOf

IntakeTyped ==
    /\ ListingTyped /\ RecordTyped /\ RowTyped /\ CommandsTyped
    /\ started \in Seq(RunOf)

(* The tracker has compared no more listings than have been alike, and the *)
(* folder is observed after as many as it asks for.                        *)
CountedAlike ==
    /\ last = NoContent => count = 0
    /\ last # NoContent => last = listed /\ count < streak
    /\ observed # NoContent => observed = listed /\ streak = 4
    /\ enqueue # "idle" => observed \in Complete

(* A command that may still be committed knows the status, or only missing *)
(* materials were noted since.                                             *)
CommandsKnowStatus ==
    \A c \in Command :
        /\ command[c].revision <= revision
        /\ exists /\ command[c].revision = revision
              => command[c].status = status \/ {command[c].status, status} \subseteq Waiting

(* A trigger starts one run, and goes with a candidate that exists.        *)
TriggersDiffer ==
    /\ \A i, j \in DOMAIN started : i # j => started[i].trigger # started[j].trigger
    /\ \A i \in DOMAIN started : started[i].trigger[1] = started[i].content
    /\ ~exists => started = <<>> /\ ~row.current

(* What was read since the last command is of one request, at revision r,  *)
(* which the record still has while it waits for an analysis.              *)
OfRequest(r) ==
    /\ \A i \in DOMAIN started :
          started[i].current => started[i].trigger[2] \in {0, r}
    /\ row.current /\ ManualReprocess => row.revision = r
    /\ status \in Waiting => revision = r

IntakeInv ==
    /\ IntakeTyped /\ CountedAlike /\ CommandsKnowStatus /\ TriggersDiffer
    /\ \E r \in Nat : OfRequest(r)

LEMMA InitIntake == IntakeInit => IntakeInv
<1> USE IntakeAssumption DEF IntakeAssumption
<1> SUFFICES ASSUME IntakeInit PROVE IntakeInv
  OBVIOUS
<1> USE DEF IntakeInit, NoRow, Idle, StatusOf,
            ListingTyped, RecordTyped, RowTyped, CommandsTyped
<1>1. IntakeTyped
  <2>1. started \in Seq(RunOf)
    BY EmptySeq
  <2>4. /\ folder \in Content /\ observed \in Content \union {NoContent}
        /\ streak \in 0..4 /\ count \in 0..3
        /\ status \in StatusOf /\ revision \in Nat
    OBVIOUS
  <2>5. exists <=> revision # 0
    OBVIOUS
  <2> QED
    BY <2>1, <2>4, <2>5 DEF IntakeTyped
<1>2. CountedAlike /\ CommandsKnowStatus /\ TriggersDiffer
  BY DEF CountedAlike, CommandsKnowStatus, TriggersDiffer
<1>3. OfRequest(0)
  BY DEF OfRequest, ManualReprocess, Waiting
<1> QED
  BY <1>1, <1>2, <1>3 DEF IntakeInv

(* The sequence of runs, with a run changed, added, or all runs changed.   *)
LEMMA ChangedRuns ==
    ASSUME NEW S, NEW s \in Seq(S), NEW f, DOMAIN f = DOMAIN s, \A i \in DOMAIN s : f[i] \in S,
           NEW t, t = [i \in DOMAIN s |-> f[i]]
    PROVE  t \in Seq(S) /\ DOMAIN t = DOMAIN s
BY SeqDef

(* A run that ends, the runs after a command has written the record back,  *)
(* and a run that is added.                                                *)
LEMMA RunEnds ==
    ASSUME started \in Seq(RunOf), NEW i \in DOMAIN started, NEW from, NEW to, Ends(i, from, to),
           to \in {"PUBLISHED", "SUCCEEDED", "FAILED"}
    PROVE  /\ started' \in Seq(RunOf) /\ DOMAIN started' = DOMAIN started
           /\ \A j \in DOMAIN started : /\ started'[j].trigger = started[j].trigger
                                        /\ started'[j].content = started[j].content
                                        /\ started'[j].current = started[j].current
<1>1. started' = [started EXCEPT ![i].state = to]
  BY DEF Ends
<1>2. \A j \in DOMAIN started : started[j] \in RunOf
  BY SeqDef
<1>3. /\ DOMAIN started' = DOMAIN started /\ \A j \in DOMAIN started : started'[j] \in RunOf
      /\ \A j \in DOMAIN started : /\ started'[j].trigger = started[j].trigger
                                   /\ started'[j].content = started[j].content
                                   /\ started'[j].current = started[j].current
  BY <1>1, <1>2 DEF RunOf
<1>4. started' = [j \in DOMAIN started |-> started'[j]]
  BY <1>1
<1> QED
  BY <1>3, <1>4, ChangedRuns

LEMMA RunsUpdated ==
    ASSUME started \in Seq(RunOf), NEW c \in Command, Update(c)
    PROVE  /\ started' \in Seq(RunOf) /\ DOMAIN started' = DOMAIN started
           /\ \A j \in DOMAIN started : /\ started'[j].trigger = started[j].trigger
                                        /\ started'[j].content = started[j].content
                                        /\ started'[j].current = FALSE
<1> DEFINE after(x) == IF command[c].action = "archive" /\ x \in {"ACTIVE", "PUBLISHED"} THEN "PAUSED" ELSE x
<1>1. started' = [j \in DOMAIN started |-> [started[j] EXCEPT !.state = after(@), !.current = FALSE]]
  BY DEF Update
<1>2. \A j \in DOMAIN started : started[j] \in RunOf
  BY SeqDef
<1>3. /\ DOMAIN started' = DOMAIN started /\ \A j \in DOMAIN started : started'[j] \in RunOf
      /\ \A j \in DOMAIN started : /\ started'[j].trigger = started[j].trigger
                                   /\ started'[j].content = started[j].content
                                   /\ started'[j].current = FALSE
  BY <1>1, <1>2 DEF RunOf
<1>4. started' = [j \in DOMAIN started |-> started'[j]]
  BY <1>1
<1> QED
  BY <1>3, <1>4, ChangedRuns

LEMMA RunAdded ==
    ASSUME started \in Seq(RunOf), NEW r \in RunOf, NEW t, t = Append(started, r)
    PROVE  /\ t \in Seq(RunOf) /\ DOMAIN t = DOMAIN started \union {Len(started) + 1}
           /\ Len(started) + 1 \notin DOMAIN started
           /\ t[Len(started) + 1] = r /\ \A i \in DOMAIN started : t[i] = started[i]
BY AppendProperties, LenProperties


LEMMA IdleIsOutdated == [Idle EXCEPT !.revision = 0] = Idle
BY DEF Idle

LEMMA IntakeTypedStep ==
    ASSUME IntakeInv, [IntakeNext]_intakeVars
    PROVE  IntakeTyped'
<1> USE IntakeAssumption DEF IntakeAssumption
<1> USE DEF StatusOf, candidate, worker, commands
<1>0. /\ ListingTyped /\ RecordTyped /\ RowTyped /\ CommandsTyped /\ started \in Seq(RunOf)
      /\ CountedAlike /\ TriggersDiffer
  BY DEF IntakeInv, IntakeTyped
<1>1. ListingTyped'
  <2>1. CASE Capture
    BY <1>0, <2>1 DEF Capture, Compare, StableComparisons, ListingTyped
  <2> QED
    BY <1>0, <2>1 DEF ListingTyped, IntakeNext, Discovery, Stability, Change,
        CheckTombstone, Register, MarkMaterialsIncomplete, Restart,
        ReadRow, SaveInput, StartAnalyzing, Done, CreateGoal,
        RunPublishes, RunFails, RunSucceeds, Begin, Commit, intakeVars
<1>2. RecordTyped'
  <2>1. ASSUME NEW c \in Command, Commit(c) PROVE RecordTyped'
    <3>1. CASE Update(c) /\ exists
      <4>1. command[c].status \in StatusOf
        BY <1>0, <2>1 DEF Commit, CommandsTyped
      <4>2. status' \in StatusOf /\ revision' = revision + 1 /\ exists' = exists
        BY <1>0, <3>1, <4>1 DEF Update
      <4> QED
        BY <1>0, <3>1, <4>2 DEF RecordTyped
    <3> QED
      BY <1>0, <2>1, <3>1 DEF Commit, Delete, RecordTyped
  <2>2. ASSUME NEW i \in DOMAIN started, RunPublishes(i) \/ RunFails(i) \/ RunSucceeds(i)
        PROVE  RecordTyped'
    <3>1. exists
      BY <1>0, EmptySeq, LenProperties DEF TriggersDiffer
    <3> QED
      <4>1. /\ status' = status \/ status' \in {"READY", "FAILED"}
            /\ revision' \in {revision, revision + 1} /\ exists' = exists
        BY <2>2 DEF RunPublishes, RunFails, RunSucceeds, Shows
      <4> QED
        BY <1>0, <3>1, <4>1 DEF RecordTyped
  <2> QED
    BY <1>0, <2>1, <2>2 DEF RecordTyped, IntakeNext, Discovery, Stability, Change, Capture,
        CheckTombstone, Register, MarkMaterialsIncomplete, Restart,
        ReadRow, SaveInput, StartAnalyzing, CreateGoal, Begin, intakeVars
<1>3. RowTyped'
  <2>1. ASSUME row' = NoRow PROVE RowTyped'
    BY <1>0, <2>1 DEF RowTyped, NoRow
  <2>2. CASE ReadRow
    <3>1. CASE exists
      BY <1>0, <2>2, <3>1 DEF ReadRow, RowTyped, RecordTyped
    <3> QED
      BY <1>0, <2>1, <2>2, <3>1 DEF ReadRow, Done
  <2>3. ASSUME NEW c \in Command, Commit(c) PROVE RowTyped'
    BY <1>0, <2>3 DEF Commit, RowTyped
  <2> QED
    BY <1>0, <2>1, <2>2, <2>3 DEF RowTyped, IntakeNext, Discovery, Stability, Change,
        Capture, SaveInput, CreateGoal, StartAnalyzing, Restart, Done, CheckTombstone, Register, MarkMaterialsIncomplete,
        RunPublishes, RunFails, RunSucceeds, Begin, intakeVars
<1>4. CommandsTyped'
  <2>1. ASSUME NEW c \in Command, Begin(c) PROVE CommandsTyped'
    BY <1>0, <2>1 DEF Begin, CommandsTyped, RecordTyped
  <2>2. ASSUME NEW c \in Command, Commit(c) PROVE CommandsTyped'
    <3>1. CASE Ended(c)
      BY <1>0, <3>1 DEF Ended, Idle, CommandsTyped
    <3>2. CASE Delete(c)
      <4>1. command' = [d \in Command |-> IF d = c THEN Idle ELSE [command[d] EXCEPT !.revision = 0]]
        BY <1>0, <3>2 DEF Delete
      <4>2. \A d \in Command : command'[d] # Idle =>
               /\ command[d] # Idle /\ command'[d].status = command[d].status
        BY <1>0, <4>1, IdleIsOutdated DEF CommandsTyped
      <4>3. \A d \in Command : /\ DOMAIN command'[d] = {"action", "status", "archived", "revision"}
                               /\ command'[d].revision \in Nat
        BY <1>0, <4>1 DEF CommandsTyped, Idle
      <4> QED
        BY <1>0, <4>1, <4>2, <4>3 DEF CommandsTyped
    <3> QED
      BY <1>0, <2>2, <3>1, <3>2 DEF Commit, Update
  <2> QED
    BY <1>0, <2>1, <2>2 DEF CommandsTyped, IntakeNext, Discovery, Stability, Change,
        Capture, CheckTombstone, Register, MarkMaterialsIncomplete,
        Restart, ReadRow, SaveInput, StartAnalyzing, CreateGoal,
        RunPublishes, RunFails, RunSucceeds, intakeVars
<1>5. started' \in Seq(RunOf)
  <2>1. CASE CreateGoal
    <3>1. /\ observed \in Content /\ row.revision \in Nat /\ (row.current = TRUE \/ row.current = FALSE)
      BY <1>0, <2>1 DEF CreateGoal, CountedAlike, ListingTyped, RowTyped
    <3>2. [trigger |-> Trigger, content |-> observed, current |-> row.current, state |-> "ACTIVE"] \in RunOf
      BY <1>0, <3>1 DEF RunOf, Trigger
    <3>3. \/ started' = started
          \/ started' = Append(started, [trigger |-> Trigger, content |-> observed,
                                         current |-> row.current, state |-> "ACTIVE"])
      BY <1>0, <2>1 DEF CreateGoal
    <3> QED
      BY <1>0, <3>2, <3>3, RunAdded
  <2>2. ASSUME NEW i \in DOMAIN started, RunPublishes(i) \/ RunFails(i) \/ RunSucceeds(i)
        PROVE  started' \in Seq(RunOf)
    BY <1>0, <2>2, RunEnds DEF RunPublishes, RunFails, RunSucceeds
  <2>3. ASSUME NEW c \in Command, Commit(c) PROVE started' \in Seq(RunOf)
    BY <1>0, <2>3, EmptySeq, RunsUpdated DEF Commit, Delete
  <2> QED
    BY <1>0, <2>1, <2>2, <2>3 DEF IntakeNext, Discovery, Stability, Change,
        Capture, CheckTombstone, Register, MarkMaterialsIncomplete,
        Restart, ReadRow, SaveInput, StartAnalyzing, Begin, intakeVars
<1> QED
  BY <1>1, <1>2, <1>3, <1>4, <1>5 DEF IntakeTyped

LEMMA CountedAlikeStep ==
    ASSUME ListingTyped, CountedAlike, [IntakeNext]_intakeVars
    PROVE  CountedAlike'
<1> USE IntakeAssumption DEF IntakeAssumption
<1> USE DEF CountedAlike, candidate, worker, commands
<1>1. CASE Capture
  BY <1>1 DEF Capture, Compare, StableComparisons, ListingTyped
<1>2. CASE Restart
  BY <1>2 DEF Restart
<1>3. CASE \/ MarkMaterialsIncomplete \/ ReadRow \/ SaveInput
           \/ CreateGoal \/ StartAnalyzing
  <2>1. /\ UNCHANGED <<last, count, listed, streak>>
        /\ observed' \in {observed, NoContent}
        /\ enqueue' # "idle" => observed' \in Complete
    BY <1>3 DEF MarkMaterialsIncomplete, ReadRow, SaveInput, CreateGoal,
                StartAnalyzing, Done
  <2> QED
    BY <2>1
<1> QED
  BY <1>1, <1>2, <1>3 DEF IntakeNext, Discovery, Stability, Change,
      CheckTombstone, Register, RunPublishes, RunFails, RunSucceeds,
      Begin, Commit, intakeVars

(* How the status moves: with a new revision, or among those that wait.    *)
StatusMoves ==
    \/ status' = status /\ revision' \in {revision, revision + 1}
    \/ revision' = revision + 1
    \/ {status, status'} \subseteq Waiting /\ revision' = revision

LEMMA CommandsStep ==
    ASSUME IntakeInv, [IntakeNext]_intakeVars
    PROVE  CommandsKnowStatus'
<1> USE DEF candidate, worker, commands
<1>0. RecordTyped /\ CommandsTyped /\ CommandsKnowStatus
  BY DEF IntakeInv, IntakeTyped
<1>1. ASSUME UNCHANGED command, StatusMoves, exists' => revision' # 0 PROVE CommandsKnowStatus'
  <2> SUFFICES ASSUME NEW c \in Command
               PROVE  /\ command[c].revision <= revision'
                      /\ exists' /\ command[c].revision = revision' =>
                            \/ command[c].status = status'
                            \/ {command[c].status, status'} \subseteq Waiting
    BY <1>1 DEF CommandsKnowStatus
  <2>1. /\ command[c].revision \in Nat /\ revision \in Nat /\ command[c].revision <= revision
        /\ exists /\ command[c].revision = revision =>
              \/ command[c].status = status
              \/ {command[c].status, status} \subseteq Waiting
        /\ exists <=> revision # 0
    BY <1>0 DEF RecordTyped, CommandsTyped, CommandsKnowStatus
  <2> QED
    BY <1>1, <2>1 DEF StatusMoves
<1>2. ASSUME NEW c \in Command, Begin(c) PROVE CommandsKnowStatus'
  BY <1>0, <1>2 DEF Begin, CommandsKnowStatus, CommandsTyped, RecordTyped
<1>3. ASSUME NEW c \in Command, Commit(c) PROVE CommandsKnowStatus'
  <2>1. CASE Ended(c) /\ UNCHANGED <<status, revision, exists>>
    BY <1>0, <2>1 DEF Ended, Idle, CommandsKnowStatus, CommandsTyped, RecordTyped
  <2>2. CASE Update(c)
    <3>1. revision' = revision + 1 /\ command' = [command EXCEPT ![c] = Idle]
      BY <2>2 DEF Update, Ended
    <3> QED
      BY <1>0, <3>1 DEF Idle, CommandsKnowStatus, CommandsTyped, RecordTyped
  <2>3. CASE Delete(c)
    BY <1>0, <2>3 DEF Delete, Idle, CommandsKnowStatus, CommandsTyped
  <2> QED
    BY <1>3, <2>1, <2>2, <2>3 DEF Commit
<1>4. CASE Register
  BY <1>0, <1>1, <1>4 DEF Register, StatusMoves, RecordTyped
<1>5. CASE MarkMaterialsIncomplete
  BY <1>0, <1>1, <1>5 DEF MarkMaterialsIncomplete, StatusMoves, RecordTyped, Waiting
<1>6. CASE StartAnalyzing
  BY <1>0, <1>1, <1>6 DEF StartAnalyzing, StatusMoves, RecordTyped
<1>7. ASSUME NEW i \in DOMAIN started, RunPublishes(i) \/ RunFails(i) \/ RunSucceeds(i)
      PROVE  CommandsKnowStatus'
  BY <1>0, <1>1, <1>7 DEF RunPublishes, RunFails, RunSucceeds, Shows,
                          StatusMoves, RecordTyped
<1> QED
  BY <1>0, <1>2, <1>3, <1>4, <1>5, <1>6, <1>7 DEF CommandsKnowStatus, IntakeNext, Discovery,
      Stability, Change, CheckTombstone, Capture, Restart,
      ReadRow, SaveInput, CreateGoal, intakeVars

LEMMA TriggersStep ==
    ASSUME IntakeInv, IntakeTyped', [IntakeNext]_intakeVars
    PROVE  TriggersDiffer'
<1> USE DEF candidate, worker, commands
<1>0. started \in Seq(RunOf) /\ TriggersDiffer /\ RowTyped /\ RecordTyped
  BY DEF IntakeInv, IntakeTyped
<1>1. CASE Register
  BY <1>0, <1>1 DEF Register, TriggersDiffer
<1>2. CASE Restart
  BY <1>0, <1>2 DEF Restart, NoRow, TriggersDiffer
<1>3. CASE ReadRow
  BY <1>0, <1>3 DEF ReadRow, Done, NoRow, TriggersDiffer
<1>4. CASE SaveInput \/ StartAnalyzing
  BY <1>0, <1>4 DEF SaveInput, StartAnalyzing, Done, NoRow, TriggersDiffer
<1>5. CASE CreateGoal
  <2>1. ~exists' => ~row'.current
    BY <1>0, <1>5 DEF CreateGoal, Done, NoRow, TriggersDiffer
  <2>2. CASE UNCHANGED started
    BY <1>0, <1>5, <2>1, <2>2 DEF CreateGoal, TriggersDiffer
  <2>3. CASE ~UNCHANGED started
    <3> DEFINE new == [trigger |-> Trigger, content |-> observed,
                       current |-> row.current, state |-> "ACTIVE"]
    <3>1. /\ exists /\ started' = Append(started, new) /\ exists' = exists
          /\ \A i \in DOMAIN started : started[i].trigger # new.trigger
      BY <1>5, <2>3 DEF CreateGoal
    <3>2. observed \in Content
      BY <1>5, IntakeAssumption DEF IntakeAssumption, CreateGoal, IntakeInv, IntakeTyped, CountedAlike, ListingTyped
    <3>3. new \in RunOf
      BY <1>0, <3>2 DEF RunOf, Trigger, RowTyped
    <3>4. new.trigger[1] = new.content
      BY DEF Trigger
    <3> HIDE DEF new
    <3>5. /\ DOMAIN started' = DOMAIN started \union {Len(started) + 1}
          /\ started'[Len(started) + 1] = new /\ \A i \in DOMAIN started : started'[i] = started[i]
      BY <1>0, <3>1, <3>3, RunAdded
    <3> QED
      BY <1>0, <3>1, <3>4, <3>5 DEF TriggersDiffer
  <2> QED
    BY <2>2, <2>3
<1>6. ASSUME NEW i \in DOMAIN started, RunPublishes(i) \/ RunFails(i) \/ RunSucceeds(i)
      PROVE  TriggersDiffer'
  <2>1. /\ DOMAIN started' = DOMAIN started /\ UNCHANGED <<exists, row>>
        /\ \A j \in DOMAIN started : started'[j].trigger = started[j].trigger
                                  /\ started'[j].content = started[j].content
    BY <1>0, <1>6, RunEnds DEF RunPublishes, RunFails, RunSucceeds
  <2>2. exists
    BY <1>0, EmptySeq, LenProperties DEF TriggersDiffer
  <2> QED
    BY <1>0, <2>1, <2>2 DEF TriggersDiffer
<1>7. ASSUME NEW c \in Command, Commit(c) PROVE TriggersDiffer'
  <2>1. CASE UNCHANGED <<started, exists, row>>
    BY <1>0, <2>1 DEF TriggersDiffer
  <2>2. CASE Delete(c) /\ row' = [row EXCEPT !.current = FALSE]
    BY <1>0, <2>2 DEF Delete, TriggersDiffer, RowTyped
  <2>3. CASE Update(c) /\ exists
    <3>1. /\ DOMAIN started' = DOMAIN started /\ exists'
          /\ \A j \in DOMAIN started : started'[j].trigger = started[j].trigger
                                    /\ started'[j].content = started[j].content
      BY <1>0, <2>3, RunsUpdated DEF Update
    <3> QED
      BY <1>0, <3>1 DEF TriggersDiffer
  <2> QED
    BY <1>7, <2>1, <2>2, <2>3 DEF Commit
<1> QED
  BY <1>0, <1>1, <1>2, <1>3, <1>4, <1>5, <1>6, <1>7 DEF TriggersDiffer, IntakeNext, Discovery,
      Stability, Change, CheckTombstone, Capture,
      MarkMaterialsIncomplete, Begin, intakeVars

LEMMA RequestStep ==
    ASSUME IntakeInv, [IntakeNext]_intakeVars
    PROVE  \E r \in Nat : OfRequest(r)'
<1> USE DEF candidate, worker, commands
<1>0. started \in Seq(RunOf) /\ TriggersDiffer /\ RowTyped /\ RecordTyped
  BY DEF IntakeInv, IntakeTyped
<1>1. PICK r \in Nat : OfRequest(r)
  BY DEF IntakeInv
<1>2. ASSUME UNCHANGED <<started, row, status, revision>> PROVE OfRequest(r)'
  BY <1>1, <1>2 DEF OfRequest, ManualReprocess
<1>3. ASSUME UNCHANGED <<started, status, revision>>, row' = NoRow PROVE OfRequest(r)'
  BY <1>1, <1>3 DEF OfRequest, ManualReprocess, NoRow
<1>4. CASE Register
  <2>1. CASE exists
    BY <1>2, <1>4, <2>1 DEF Register
  <2>2. CASE ~exists
    <3>1. started' = <<>> /\ ~row'.current /\ revision' = 1
      BY <1>0, <1>4, <2>2 DEF Register, TriggersDiffer
    <3> QED
      BY <3>1 DEF OfRequest
  <2> QED
    BY <2>1, <2>2
<1>5. CASE MarkMaterialsIncomplete
  <2>1. /\ UNCHANGED <<started, row, revision>>
        /\ status' \in Waiting => status \in Waiting
    BY <1>5 DEF MarkMaterialsIncomplete
  <2> QED
    BY <1>1, <2>1 DEF OfRequest, ManualReprocess
<1>6. CASE Restart
  BY <1>3, <1>6 DEF Restart
<1>7. CASE ReadRow
  <2>1. CASE exists
    <3>1. /\ UNCHANGED <<started, status, revision>>
          /\ row'.status = status /\ row'.revision = revision
      BY <1>7, <2>1 DEF ReadRow
    <3> QED
      BY <1>1, <3>1 DEF OfRequest, ManualReprocess, Waiting
  <2> QED
    BY <1>3, <1>7, <2>1 DEF ReadRow, Done
<1>8. CASE SaveInput
  BY <1>2, <1>3, <1>8 DEF SaveInput, Done
<1>9. CASE CreateGoal
  <2>1. CASE UNCHANGED started
    BY <1>2, <1>3, <1>9, <2>1 DEF CreateGoal, Done
  <2>2. CASE ~UNCHANGED started
    <3> DEFINE new == [trigger |-> Trigger, content |-> observed,
                       current |-> row.current, state |-> "ACTIVE"]
    <3>1. started' = Append(started, new) /\ UNCHANGED <<status, revision>>
      BY <1>9, <2>2 DEF CreateGoal
    <3>2. observed \in Content
      BY <1>9, IntakeAssumption DEF IntakeAssumption, CreateGoal, IntakeInv, IntakeTyped, CountedAlike, ListingTyped
    <3>3. new \in RunOf
      BY <1>0, <3>2 DEF RunOf, Trigger, RowTyped
    <3>4. new.current => new.trigger[2] \in {0, r}
      BY <1>1 DEF Trigger, OfRequest
    <3> HIDE DEF new
    <3>5. /\ DOMAIN started' = DOMAIN started \union {Len(started) + 1}
          /\ started'[Len(started) + 1] = new /\ \A i \in DOMAIN started : started'[i] = started[i]
      BY <1>0, <3>1, <3>3, RunAdded
    <3>6. row' = row \/ row' = NoRow
      BY <1>9 DEF CreateGoal, Done
    <3> QED
      BY <1>1, <3>1, <3>4, <3>5, <3>6 DEF OfRequest, ManualReprocess, NoRow
  <2> QED
    BY <2>1, <2>2
<1>10. CASE StartAnalyzing
  <2>1. CASE UNCHANGED <<status, revision>>
    BY <1>3, <1>10, <2>1 DEF StartAnalyzing, Done
  <2>2. CASE status' = "ANALYZING"
    <3>1. UNCHANGED started /\ ~row'.current
      BY <1>10 DEF StartAnalyzing, Done, NoRow
    <3> QED
      BY <1>1, <2>2, <3>1 DEF OfRequest, Waiting
  <2> QED
    BY <1>10, <2>1, <2>2 DEF StartAnalyzing
<1>11. ASSUME NEW i \in DOMAIN started, RunPublishes(i) \/ RunFails(i) \/ RunSucceeds(i)
       PROVE  OfRequest(r)'
  <2>1. /\ DOMAIN started' = DOMAIN started /\ UNCHANGED row
        /\ \A j \in DOMAIN started : started'[j].trigger = started[j].trigger
                                  /\ started'[j].current = started[j].current
        /\ UNCHANGED <<status, revision>> \/ status' \in {"READY", "FAILED"}
    BY <1>0, <1>11, RunEnds DEF RunPublishes, RunFails, RunSucceeds, Shows
  <2> QED
    BY <1>1, <2>1 DEF OfRequest, ManualReprocess, Waiting
<1>12. ASSUME NEW c \in Command, Commit(c) PROVE \E q \in Nat : OfRequest(q)'
  <2>1. CASE UNCHANGED <<started, row, status, revision>>
    BY <1>2, <2>1
  <2>2. ASSUME NEW q \in Nat, revision' = q, row' = [row EXCEPT !.current = FALSE],
               \A i \in DOMAIN started' : ~started'[i].current
        PROVE  OfRequest(q)'
    <3>1. ~row'.current
      BY <1>0, <2>2 DEF RowTyped
    <3> QED
      BY <2>2, <3>1 DEF OfRequest
  <2>3. CASE Delete(c) /\ row' = [row EXCEPT !.current = FALSE]
    <3>1. started' = <<>> /\ revision' = 0
      BY <2>3 DEF Delete
    <3>2. OfRequest(0)'
      BY <2>2, <2>3, <3>1
    <3> QED
      BY <3>2
  <2>4. CASE Update(c) /\ row' = [row EXCEPT !.current = FALSE]
    <3>1. revision' = revision + 1 /\ revision \in Nat
      BY <1>0, <2>4 DEF Update, RecordTyped
    <3>2. \A i \in DOMAIN started' : ~started'[i].current
      BY <1>0, <2>4, RunsUpdated
    <3>3. PICK q \in Nat : q = revision'
      BY <3>1
    <3>4. OfRequest(q)'
      BY <2>2, <2>4, <3>2, <3>3
    <3> QED
      BY <3>4
  <2> QED
    BY <1>12, <2>1, <2>3, <2>4 DEF Commit
<1> QED
  BY <1>2, <1>4, <1>5, <1>6, <1>7, <1>8, <1>9, <1>10, <1>11, <1>12 DEF IntakeNext, Discovery,
      Stability, Change, CheckTombstone, Capture, Begin, intakeVars

LEMMA IntakeStep ==
    ASSUME IntakeInv, [IntakeNext]_intakeVars
    PROVE  IntakeInv'
<1>1. IntakeTyped'
  BY IntakeTypedStep
<1>2. CountedAlike'
  BY CountedAlikeStep DEF IntakeInv, IntakeTyped
<1> QED
  BY <1>1, <1>2, CommandsStep, TriggersStep, RequestStep DEF IntakeInv

(* What becomes an input has been seen in four listings in a row.          *)
THEOREM InputsAreStable == IntakeSpec => InputIsStable
<1>1. IntakeInv /\ [IntakeNext]_intakeVars => IntakeInv'
  BY IntakeStep
<1>2. IntakeInv /\ [IntakeNext]_intakeVars =>
         \A c \in inputs' \ inputs : listed = c /\ streak = StableComparisons + 1
  <2> SUFFICES ASSUME IntakeInv, [IntakeNext]_intakeVars, NEW c \in inputs' \ inputs
               PROVE  listed = c /\ streak = 4
    BY DEF StableComparisons
  <2>1. SaveInput
    BY DEF candidate, IntakeNext, Discovery, Stability, Change,
        CheckTombstone, Register, Capture, MarkMaterialsIncomplete,
        Restart, ReadRow, StartAnalyzing, CreateGoal, RunPublishes,
        RunFails, RunSucceeds, Begin, Commit, Update,
        Delete, intakeVars
  <2>2. c = observed /\ enqueue = "read"
    BY <2>1 DEF SaveInput
  <2> QED
    BY <2>2, IntakeAssumption DEF IntakeAssumption, IntakeInv, CountedAlike
<1> QED
  BY <1>1, <1>2, InitIntake, PTL DEF IntakeSpec, InputIsStable

(* A command that was decided on an older record never undoes the status   *)
(* that the worker or a run has written meanwhile.                         *)
THEOREM CommandsKeepStatus == IntakeSpec => CommandKeepsStatus
<1> DEFINE keeps == \A c \in Command :
               command[c].action \in {"archive", "restore"} /\ command'[c] = Idle /\ exists'
                  => status' = status \/ {status, status'} \subseteq Waiting
<1>1. IntakeInv /\ [IntakeNext]_intakeVars => IntakeInv'
  BY IntakeStep
<1>2. IntakeInv /\ [IntakeNext]_intakeVars => keeps
  <2> SUFFICES ASSUME IntakeInv, [IntakeNext]_intakeVars, NEW c \in Command,
                      command[c].action \in {"archive", "restore"}, command'[c] = Idle, exists'
               PROVE  status' = status \/ {status, status'} \subseteq Waiting
    OBVIOUS
  <2>0. CommandsTyped /\ CommandsKnowStatus
    BY DEF IntakeInv, IntakeTyped
  <2>1. command[c] # Idle
    BY DEF Idle
  <2>2. PICK d \in Command : Commit(d)
    <3>1. ASSUME NEW d \in Command, Begin(d) PROVE FALSE
      BY <2>0, <2>1, <3>1 DEF Begin, CommandsTyped
    <3> QED
      BY <2>1, <3>1 DEF commands, IntakeNext, Discovery, Stability, Change,
        CheckTombstone, Register, Capture, MarkMaterialsIncomplete,
        Restart, ReadRow, SaveInput, StartAnalyzing, CreateGoal,
        RunPublishes, RunFails, RunSucceeds, intakeVars
  <2>3. CASE UNCHANGED status
    BY <2>3
  <2>4. CASE Update(d) /\ exists /\ command[d].revision = revision
    <3>1. d = c
      BY <2>0, <2>1, <2>4 DEF Update, Ended, CommandsTyped
    <3>2. status' = command[c].status
      BY <2>4, <3>1 DEF Update
    <3> QED
      BY <2>0, <2>4, <3>1, <3>2 DEF CommandsKnowStatus
  <2> QED
    BY <2>2, <2>3, <2>4 DEF Commit, candidate, Delete
<1> QED
  BY <1>1, <1>2, InitIntake, PTL DEF IntakeSpec, CommandKeepsStatus

(* What the HR has asked for last starts one run of an input.              *)
THEOREM RequestsAreServedOnce == IntakeSpec => []OneRunPerRequest
<1>1. IntakeInv => OneRunPerRequest
  <2> SUFFICES ASSUME IntakeInv, NEW i \in DOMAIN started, NEW j \in DOMAIN started, i # j,
                      started[i].current, started[j].current, started[i].content = started[j].content,
                      started[i].trigger[2] # 0, started[j].trigger[2] # 0
               PROVE  FALSE
    BY DEF OneRunPerRequest
  <2>1. PICK r \in Nat : OfRequest(r)
    BY DEF IntakeInv
  <2>2. started[i].trigger \in Content \X Nat /\ started[j].trigger \in Content \X Nat
    <3>1. started[i] \in RunOf /\ started[j] \in RunOf
      BY SeqDef DEF IntakeInv, IntakeTyped
    <3> QED
      BY <3>1 DEF RunOf
  <2>3. /\ started[i].trigger[1] = started[j].trigger[1]
        /\ started[i].trigger[2] = started[j].trigger[2]
    BY <2>1 DEF OfRequest, IntakeInv, TriggersDiffer
  <2>4. started[i].trigger = started[j].trigger
    BY <2>2, <2>3
  <2> QED
    BY <2>4 DEF IntakeInv, TriggersDiffer
<1>2. IntakeInv /\ [IntakeNext]_intakeVars => IntakeInv'
  BY IntakeStep
<1> QED
  BY <1>1, <1>2, InitIntake, PTL DEF IntakeSpec

(* What the invariant does not say of the types. *)
RestTyped ==
    /\ listed \in Content \union {NoContent} /\ last \in Content \union {NoContent}
    /\ tombstone \in BOOLEAN /\ exists \in BOOLEAN /\ archived \in BOOLEAN
    /\ watched \in BOOLEAN /\ fresh \in BOOLEAN
    /\ inputs \subseteq Complete
    /\ Len(started) <= MaxStarted
    /\ register \in {"idle", "checked"} /\ enqueue \in {"idle", "read", "saved", "created"}
    /\ \A c \in Command :
          /\ command[c].action \in {"none", "archive", "restore", "reprocess", "delete"}
          /\ command[c].archived \in BOOLEAN
    /\ captured \subseteq Command

(* Every variable of the intake holds a value of its kind.                 *)
THEOREM IntakeTypeCorrect == IntakeSpec => []IntakeTypeOK
<1> USE IntakeAssumption DEF IntakeAssumption
<1>1. IntakeInit => RestTyped
  <2> SUFFICES ASSUME IntakeInit PROVE RestTyped
    OBVIOUS
  <2>1. Len(started) <= MaxStarted
    BY DEF IntakeInit
  <2>2. \A c \in Command : command[c].action = "none" /\ command[c].archived = FALSE
    BY DEF IntakeInit, Idle
  <2>3. /\ listed = NoContent /\ last = NoContent /\ inputs = {} /\ captured = {}
        /\ register = "idle" /\ enqueue = "idle"
    BY DEF IntakeInit
  <2>4. tombstone = FALSE /\ exists = FALSE /\ archived = FALSE /\ watched = FALSE /\ fresh = FALSE
    BY DEF IntakeInit
  <2> QED
    BY <2>1, <2>2, <2>3, <2>4 DEF RestTyped
<1>2. IntakeInv /\ RestTyped /\ [IntakeNext]_intakeVars => RestTyped'
  <2> SUFFICES ASSUME IntakeInv, RestTyped, [IntakeNext]_intakeVars PROVE RestTyped'
    OBVIOUS
  <2> USE DEF RestTyped, candidate, worker, commands
  <2>0. /\ ListingTyped /\ CommandsTyped /\ CountedAlike /\ started \in Seq(RunOf)
    BY DEF IntakeInv, IntakeTyped
  <2>1. CASE Change \/ CheckTombstone \/ Register
    BY <2>1 DEF Change, CheckTombstone, Register
  <2>2. CASE Capture
    BY <2>0, <2>2 DEF Capture, Compare, ListingTyped
  <2>3. CASE MarkMaterialsIncomplete \/ ReadRow \/ StartAnalyzing \/ Restart
    BY <2>3 DEF MarkMaterialsIncomplete, ReadRow, StartAnalyzing, Restart,
        Done
  <2>4. CASE SaveInput
    BY <2>0, <2>4 DEF SaveInput, Done, CountedAlike
  <2>5. CASE CreateGoal
    <3>1. Len(started') <= MaxStarted
      <4>1. \/ started' = started
            \/ /\ Len(started) < MaxStarted
               /\ \E r : started' = Append(started, r)
        BY <2>5 DEF CreateGoal
      <4>2. Len(started) \in Nat /\ \A r : Len(Append(started, r)) = Len(started) + 1
        BY <2>0, LenProperties, AppendProperties
      <4> QED
        BY <4>1, <4>2
    <3> QED
      BY <2>5, <3>1 DEF CreateGoal, Done
  <2>6. ASSUME NEW i \in DOMAIN started, RunPublishes(i) \/ RunFails(i) \/ RunSucceeds(i)
        PROVE  RestTyped'
    <3>1. started' \in Seq(RunOf) /\ DOMAIN started' = DOMAIN started
      BY <2>0, <2>6, RunEnds DEF RunPublishes, RunFails, RunSucceeds
    <3>2. Len(started') = Len(started)
      BY <2>0, <3>1, LenProperties
    <3> QED
      BY <2>6, <3>2 DEF RunPublishes, RunFails, RunSucceeds
  <2>7. ASSUME NEW c \in Command, Begin(c) PROVE RestTyped'
    BY <2>0, <2>7 DEF Begin, CommandsTyped
  <2>8. ASSUME NEW c \in Command, Commit(c) PROVE RestTyped'
    <3>1. CASE Ended(c) /\ UNCHANGED <<candidate, fresh, row>>
      BY <2>0, <2>8, <3>1 DEF Commit, Ended, Idle, CommandsTyped
    <3>2. CASE Update(c)
      <4>1. started' \in Seq(RunOf) /\ DOMAIN started' = DOMAIN started
        BY <2>0, <3>2, RunsUpdated
      <4>2. Len(started') = Len(started)
        BY <2>0, <4>1, LenProperties
      <4> QED
        <5>1. \A d \in Command : /\ command'[d].action \in {"none", "archive", "restore", "reprocess", "delete"}
                                 /\ command'[d].archived \in BOOLEAN
          <6>1. command' = [command EXCEPT ![c] = Idle]
            BY <3>2 DEF Update, Ended
          <6> QED
            BY <2>0, <6>1 DEF Idle, CommandsTyped
        <5>2. archived' \in BOOLEAN
          <6>1. archived' = TRUE \/ archived' = FALSE \/ archived' = command[c].archived
            BY <3>2 DEF Update
          <6> QED
            BY <6>1
        <5>3. fresh' \in BOOLEAN
          <6>1. fresh' = (fresh /\ c \in captured) \/ fresh' = fresh
            BY <3>2 DEF Update
          <6> QED
            BY <6>1
        <5>4. UNCHANGED <<tombstone, exists, inputs>>
          BY <3>2 DEF Update
        <5>5. captured' \subseteq Command /\ UNCHANGED <<listed, last, watched, register, enqueue>>
          BY <2>8 DEF Commit
        <5> QED
          BY <4>2, <5>1, <5>2, <5>3, <5>4, <5>5
    <3>3. CASE Delete(c)
      <4>1. Len(started') = 0
        BY <3>3 DEF Delete
      <4>2. \A d \in Command : /\ command'[d].action \in {"none", "archive", "restore", "reprocess", "delete"}
                               /\ command'[d].archived \in BOOLEAN
        BY <2>0, <3>3 DEF Delete, Idle, CommandsTyped
      <4> QED
        <5>1. UNCHANGED <<listed, last, watched, register, enqueue>>
          BY <2>8 DEF Commit
        <5>2. /\ tombstone' \in BOOLEAN /\ exists' \in BOOLEAN /\ archived' \in BOOLEAN
              /\ inputs' \subseteq Complete
          BY <3>3 DEF Delete
        <5>3. captured' \subseteq Command
          BY <2>8 DEF Commit
        <5>4. UNCHANGED fresh
          BY <3>3 DEF Delete
        <5>5. Len(started') <= MaxStarted
          BY <4>1
        <5> QED
          BY <5>5, <4>2, <5>1, <5>2, <5>3, <5>4
    <3> QED
      BY <2>8, <3>1, <3>2, <3>3 DEF Commit
  <2> QED
    BY <2>1, <2>2, <2>3, <2>4, <2>5, <2>6, <2>7, <2>8 DEF IntakeNext, Discovery, Stability,
        intakeVars
<1>3. IntakeInv /\ RestTyped => IntakeTypeOK
  <2> SUFFICES ASSUME IntakeInv, RestTyped PROVE IntakeTypeOK
    OBVIOUS
  <2>1. ListingTyped /\ RecordTyped /\ RowTyped /\ CommandsTyped /\ CountedAlike /\ started \in Seq(RunOf)
    BY DEF IntakeInv, IntakeTyped
  <2>2. \A i \in DOMAIN started : started[i].state \in {"ACTIVE", "PUBLISHED", "SUCCEEDED", "FAILED", "PAUSED"}
    <3>1. \A i \in DOMAIN started : started[i] \in RunOf
      BY <2>1, SeqDef
    <3> QED
      BY <3>1 DEF RunOf
  <2>3. {tombstone, exists, archived, watched, fresh} \subseteq BOOLEAN
    BY DEF RestTyped
  <2> QED
    BY <2>1, <2>2, <2>3 DEF IntakeTypeOK, RestTyped, ListingTyped, RecordTyped, RowTyped, CountedAlike,
        StatusOf, Waiting, StableComparisons
<1>4. IntakeInv /\ [IntakeNext]_intakeVars => IntakeInv'
  BY IntakeStep
<1> QED
  BY <1>1, <1>2, <1>3, <1>4, InitIntake, PTL DEF IntakeSpec

=============================================================================
