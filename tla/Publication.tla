---------------------------- MODULE Publication ----------------------------
(***************************************************************************)
(* The publication of a candidate's report on Google Drive                 *)
(* (tool candidate.drive-publication/v1): two folders and a file are made  *)
(* at most once under an operation identity each, by executions of one     *)
(* task that crash, lose their lease or the answer of Google, and may run  *)
(* beside each other; the listing of the candidate's folder by the         *)
(* discovery registers what it finds as well.                              *)
(*                                                                         *)
(* An execution is named by the fencing token of its claim.  Google's      *)
(* search for an operation identity finds what was created before it.      *)
(***************************************************************************)
EXTENDS Integers, FiniteSets

CONSTANTS MaxExecution, \* claims of the task that are looked at
          MaxObject     \* objects that are created on the Drive

ASSUME PublicationAssumption == MaxExecution \in Nat /\ MaxObject \in Nat

Execution == 1..MaxExecution
Object == 1..MaxObject
NoObject == 0
MaybeObject == {NoObject} \union Object

(* What is created, each in the one before it: the folder "Результаты" in  *)
(* the candidate's folder, the folder of the version, and the report.      *)
Item == 1..3
Results == 1
Report == 3

VARIABLES
    taskState, \* agent_tasks.state of the publication
    lease,     \* the execution that holds the lease, or 0
    claims,    \* agent_tasks.lease_token
    step,      \* where an execution is
    item,      \* the object it is about
    parent,    \* the folder it puts that object into
    seen,      \* the object it has found or created
    drive,     \* what Google has: the item, parent and creator of an object
    registered,\* google_drive_registered_objects, by operation identity
    document,  \* candidate_report_documents.drive_file_id
    version,   \* candidate_report_versions.state
    candidate  \* status in candidates.record_json

task == <<taskState, lease, claims>>
executions == <<step, item, parent, seen>>
report == <<document, version, candidate>>
vars == <<task, executions, drive, registered, report>>

Step == {"none", "reconcile", "prepare", "find", "adopt", "create", "register", "recover",
         "record", "publish", "done", "failed", "ended"}

Init ==
    /\ taskState = "RUNNABLE" /\ lease = 0 /\ claims = 0
    /\ step = [e \in Execution |-> "none"] /\ item = [e \in Execution |-> Results]
    /\ parent = [e \in Execution |-> NoObject] /\ seen = [e \in Execution |-> NoObject]
    /\ drive = [x \in {} |-> <<>>]
    /\ registered = [i \in Item |-> NoObject]
    /\ document = NoObject /\ version = "VALIDATED_REPORT" /\ candidate = "VALIDATING"

At(e, s) == step[e] = s
Goto(e, s) == step' = [step EXCEPT ![e] = s]
Running(e) == step[e] \notin {"none", "ended"}

(***************************************************************************)
(* Claims and leases, as far as the task needs them.                       *)
(***************************************************************************)

Claim(e) ==
    /\ taskState = "RUNNABLE" /\ lease = 0 /\ e = claims + 1
    /\ claims' = e /\ lease' = e /\ Goto(e, "reconcile")
    /\ UNCHANGED <<taskState, item, parent, seen, drive, registered, report>>

(* The lease is lost with the execution or before it ends.                 *)
Expire ==
    /\ lease # 0
    /\ lease' = 0
    /\ UNCHANGED <<taskState, claims, executions, drive, registered, report>>

(* The process dies, the execution is aborted, or it meets another error.  *)
Crash(e) ==
    /\ Running(e)
    /\ Goto(e, "ended")
    /\ UNCHANGED <<task, item, parent, seen, drive, registered, report>>

(* The repository takes the outcome of the execution that holds the lease. *)
ReportOutcome(e) ==
    /\ step[e] \in {"done", "failed"}
    /\ Goto(e, "ended")
    /\ IF lease = e
       THEN lease' = 0 /\ taskState' = IF At(e, "done") THEN "SUCCEEDED" ELSE "RUNNABLE"
       ELSE UNCHANGED <<lease, taskState>>
    /\ UNCHANGED <<claims, item, parent, seen, drive, registered, report>>

(***************************************************************************)
(* adapters.drive.reconcile and publishPdf of production-runtime.ts.       *)
(***************************************************************************)

(* A report that is recorded or registered is not published again.         *)
Reconcile(e) ==
    /\ At(e, "reconcile")
    /\ Goto(e, CASE document # NoObject -> "done"
                 [] document = NoObject /\ registered[Report] # NoObject -> "record"
                 [] OTHER -> "prepare")
    /\ seen' = [seen EXCEPT ![e] = registered[Report]]
    /\ UNCHANGED <<task, item, parent, drive, registered, report>>

(* prepareExternalEffect refuses an execution without the lease.           *)
Prepare(e) ==
    /\ At(e, "prepare")
    /\ Goto(e, IF lease = e THEN "find" ELSE "failed")
    /\ UNCHANGED <<task, item, parent, seen, drive, registered, report>>

(* The file of a document is recorded once.                                *)
Record(e) ==
    /\ At(e, "record")
    /\ document' = IF document = NoObject THEN seen[e] ELSE document
    /\ Goto(e, "publish")
    /\ UNCHANGED <<task, item, parent, seen, drive, registered, version, candidate>>

(* Once all documents have a file, the version is published and the        *)
(* candidate ready, in one transaction.                                    *)
Publish(e) ==
    /\ At(e, "publish")
    /\ version' = IF document # NoObject THEN "PUBLISHED" ELSE version
    /\ candidate' = IF document # NoObject THEN "READY" ELSE candidate
    /\ Goto(e, "done")
    /\ UNCHANGED <<task, item, parent, seen, drive, registered, document>>

(***************************************************************************)
(* ensureFolder and putFile of my-drive-adapter.ts.                        *)
(***************************************************************************)

Found(i, folder) == {x \in DOMAIN drive : drive[x].item = i /\ drive[x].parent = folder}

(* Mutant: only what is registered is looked for, not what Google has. *)
LookupMut(e, otherwise) ==
    /\ seen' = [seen EXCEPT ![e] = registered[item[e]]]
    /\ Goto(e, IF registered[item[e]] # NoObject THEN "adopt" ELSE otherwise)
    /\ UNCHANGED <<task, item, parent, drive, registered, report>>

(* findRemoteByOperationIdentity: two objects of one identity are an error.*)
Lookup(e, otherwise) ==
    LET found == IF registered[item[e]] # NoObject THEN {registered[item[e]]} ELSE Found(item[e], parent[e])
    IN  /\ seen' = [seen EXCEPT ![e] = IF Cardinality(found) = 1 THEN CHOOSE x \in found : TRUE ELSE NoObject]
        /\ Goto(e, IF found = {} THEN otherwise ELSE IF Cardinality(found) = 1 THEN "adopt" ELSE "failed")
        /\ UNCHANGED <<task, item, parent, drive, registered, report>>

Find(e) == At(e, "find") /\ Lookup(e, "create")

(* After an error: what the failed request has created, or nothing.        *)
Recover(e) == At(e, "recover") /\ Lookup(e, "failed")

(* late: whether the request arrived when the lease was lost.              *)
Created(e, x) ==
    drive' = [y \in DOMAIN drive \union {x} |->
                IF y = x THEN [item |-> item[e], parent |-> parent[e], late |-> lease # e] ELSE drive[y]]

(* The object is created and Google says so, or the request ends in an     *)
(* error, with or without the object.                                      *)
Create(e) ==
    /\ At(e, "create")
    /\ \E x \in Object :
        /\ x = Cardinality(DOMAIN drive) + 1
        /\ \/ Created(e, x) /\ Goto(e, "register") /\ seen' = [seen EXCEPT ![e] = x]
           \/ Created(e, x) /\ Goto(e, "recover") /\ UNCHANGED seen
           \/ Goto(e, "recover") /\ UNCHANGED <<drive, seen>>
    /\ UNCHANGED <<task, item, parent, registered, report>>

(* Mutant: all objects are put into the folder of the candidate. *)
AdvanceMut(e) ==
    IF item[e] = Report
    THEN Goto(e, "record") /\ UNCHANGED <<item, parent>>
    ELSE /\ Goto(e, "prepare")
         /\ item' = [item EXCEPT ![e] = @ + 1]
         /\ UNCHANGED parent

(* The next object is put into the one just ensured.                       *)
Advance(e) ==
    IF item[e] = Report
    THEN Goto(e, "record") /\ UNCHANGED <<item, parent>>
    ELSE /\ Goto(e, "prepare")
         /\ item' = [item EXCEPT ![e] = @ + 1]
         /\ parent' = [parent EXCEPT ![e] = seen[e]]

(* Mutant: the operation identity is not unique among registered objects. *)
RegisterMut(e) ==
    /\ step[e] \in {"adopt", "register"}
    /\ registered' = [registered EXCEPT ![item[e]] = seen[e]]
    /\ Advance(e)
    /\ UNCHANGED <<task, seen, drive, report>>

(* registerObject: google_drive_registered_operation_unique refuses a      *)
(* second object.  The error of a creator leads to the first object.       *)
Register(e) ==
    /\ step[e] \in {"adopt", "register"}
    /\ IF registered[item[e]] \in {NoObject, seen[e]}
       THEN registered' = [registered EXCEPT ![item[e]] = seen[e]] /\ Advance(e)
       ELSE /\ Goto(e, IF At(e, "register") THEN "recover" ELSE "failed")
            /\ UNCHANGED <<registered, item, parent>>
    /\ UNCHANGED <<task, seen, drive, report>>

(* listChildren of the discovery, for the children of the candidate's      *)
(* folder.  The second of two objects fails the listing.                   *)
ListChildren ==
    /\ registered[Results] = NoObject
    /\ \E x \in Found(Results, NoObject) : registered' = [registered EXCEPT ![Results] = x]
    /\ UNCHANGED <<task, executions, drive, report>>

Next ==
    \/ \E e \in Execution :
        \/ Claim(e) \/ Crash(e) \/ ReportOutcome(e)
        \/ Reconcile(e) \/ Prepare(e) \/ Find(e) \/ Create(e) \/ Register(e) \/ Recover(e)
        \/ Record(e) \/ Publish(e)
    \/ Expire \/ ListChildren

Spec == Init /\ [][Next]_vars

(***************************************************************************)
(* Properties.                                                             *)
(***************************************************************************)

(* Every variable holds a value of its kind (db/schema.ts:151, 428).       *)
TypeOK ==
    /\ taskState \in {"RUNNABLE", "SUCCEEDED"} /\ lease \in 0..MaxExecution /\ claims \in 0..MaxExecution
    /\ step \in [Execution -> Step] /\ item \in [Execution -> Item]
    /\ parent \in [Execution -> MaybeObject] /\ seen \in [Execution -> MaybeObject]
    /\ DOMAIN drive \subseteq Object
    /\ \A x \in DOMAIN drive : drive[x] \in [item : Item, parent : MaybeObject, late : BOOLEAN]
    /\ registered \in [Item -> MaybeObject]
    /\ document \in MaybeObject
    /\ version \in {"VALIDATED_REPORT", "PUBLISHED"} /\ candidate \in {"VALIDATING", "READY"}

(* All executions agree on the folder that the next object goes to and on  *)
(* the file of the report, whichever of several objects was created first, *)
(* found, or registered by the discovery (my-drive-adapter.ts:200).        *)
SameObjects ==
    \A e, f \in Execution :
        /\ item[e] = item[f] => parent[e] = parent[f]
        /\ step[e] = "record" /\ step[f] \in {"record", "publish"} => seen[e] = seen[f]
        /\ step[e] \in {"record", "publish"} /\ document # NoObject => seen[e] = document

(* A retry makes no copy of a folder or a report that an earlier execution *)
(* has left, registered or not: of two objects with one identity, one was  *)
(* created by a request that outlived its execution's lease                *)
(* (my-drive-adapter.ts:144).                                              *)
CopiesAreLate ==
    \A x, y \in DOMAIN drive :
        x # y /\ drive[x].item = drive[y].item /\ drive[x].parent = drive[y].parent
            => drive[x].late \/ drive[y].late

(* A published version shows a file that is on the Drive in the folder of  *)
(* its version, and the candidate is ready; no execution, however late,    *)
(* puts another in its place (production-runtime.ts:657).                  *)
PublishedHasFile ==
    version = "PUBLISHED" =>
        /\ document \in DOMAIN drive /\ registered[Report] = document
        /\ drive[document].item = Report /\ drive[document].parent = registered[Report - 1]
        /\ candidate = "READY"

(* A publication that has succeeded is published: the tool answers         *)
(* SUCCEEDED with state READY (tool-executor.ts:228).                      *)
SucceededIsPublished ==
    taskState = "SUCCEEDED" => version = "PUBLISHED" /\ candidate = "READY"

=============================================================================
