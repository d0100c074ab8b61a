-------------------------- MODULE CandidateIntake --------------------------
(***************************************************************************)
(* How a candidate's folder becomes a candidate and its content the input  *)
(* of a run: the discovery worker (candidate-pipeline/discovery*.ts,       *)
(* production-discovery.ts) lists the folder until it is stable, and the   *)
(* HR's commands (product/application.ts) archive, restore, reprocess and  *)
(* delete the candidate meanwhile.                                         *)
(*                                                                         *)
(* The content of the folder stands for the fingerprint of its snapshot.   *)
(* The runs are here only what the candidate's record shows of them.  The  *)
(* names leave room for those of CandidateAnalysis, so that one module can *)
(* extend both.                                                            *)
(***************************************************************************)
EXTENDS Integers, Sequences

CONSTANTS Content,     \* what the folder may hold
          Complete,    \* contents with a resume and an interview
          Command,     \* lifecycle commands that are executed
          NoContent,
          MaxStarted,  \* bound: runs that are started
          MaxRevision  \* bound: commands begin only below this revision

ASSUME IntakeAssumption == Complete \subseteq Content /\ NoContent \notin Content /\ {MaxStarted, MaxRevision} \subseteq Nat

StableComparisons == 3

VARIABLES
    folder,    \* what the folder holds
    streak,    \* history: how many of the last four listed, streak, counted back, are alike
    listed,    \* history: the content of the last listing, or None
    tombstone, \* candidate_drive_folder_tombstones has the folder
    exists,    \* candidates and candidate_drive_folders have the candidate
    status,    \* status in record_json
    archived,  \* archived in record_json
    revision,  \* candidates.revision
    inputs,    \* contents of candidate_input_versions in state MATERIALS_READY
    started,   \* the candidate's runs: trigger, content and state; and as history
               \* whether the worker has read the candidate since the HR's last command
    register,  \* where registering the folder is
    watched,   \* DriveDiscoveryWorker.folders has the folder
    last,      \* StabilityTracker.lastFingerprint
    count,     \* StabilityTracker.stableComparisons
    observed,  \* the content of an observation to be reported, or None
    fresh,     \* it was captured after stageStartedAt of the candidate
    enqueue,   \* where enqueue is
    row,       \* what it has read of the candidate
    command,   \* what a command has read of the candidate
    captured   \* commands before whose commit, but after whose start, the folder was captured

candidate == <<tombstone, exists, status, archived, revision, inputs, started>>
worker == <<register, watched, last, count, observed, fresh, enqueue, row>>
commands == <<command, captured>>
intakeVars == <<folder, listed, streak, candidate, worker, commands>>

Waiting == {"NEW", "WAITING_FOR_STABILITY", "MATERIALS_INCOMPLETE"}
Processing == {"WAITING_FOR_STABILITY", "ANALYZING"}
NoRow == [status |-> "none", revision |-> 0, first |-> FALSE, current |-> FALSE]
Idle == [action |-> "none", status |-> "none", archived |-> FALSE, revision |-> 0]

IntakeInit ==
    /\ folder \in Content /\ streak = 0 /\ listed = NoContent
    /\ tombstone = FALSE /\ exists = FALSE
    /\ status = "NEW" /\ archived = FALSE /\ revision = 0 /\ inputs = {} /\ started = <<>>
    /\ register = "idle" /\ watched = FALSE /\ last = NoContent /\ count = 0 /\ observed = NoContent /\ fresh = FALSE
    /\ enqueue = "idle" /\ row = NoRow
    /\ command = [c \in Command |-> Idle] /\ captured = {}

(* External: somebody adds, replaces or removes files.                     *)
Change ==
    /\ \E c \in Content \ {folder} : folder' = c
    /\ UNCHANGED <<listed, streak, candidate, worker, commands>>

(***************************************************************************)
(* The discovery tick: PostgresCandidateFolderRegistry.register.           *)
(***************************************************************************)

CheckTombstone ==
    /\ register = "idle" /\ ~watched
    /\ IF tombstone THEN watched' = TRUE /\ UNCHANGED register ELSE register' = "checked" /\ UNCHANGED watched
    /\ UNCHANGED <<folder, listed, streak, candidate, last, count, observed, fresh, enqueue, row, commands>>

(* A candidate that is known only gets another name and path.              *)
Register ==
    /\ register = "checked"
    /\ register' = "idle" /\ watched' = TRUE
    /\ IF exists
       THEN UNCHANGED <<exists, status, archived, revision>>
       ELSE exists' = TRUE /\ status' = "NEW" /\ archived' = FALSE /\ revision' = 1
    /\ UNCHANGED <<folder, listed, streak, tombstone, inputs, started,
                   last, count, observed, fresh, enqueue, row, commands>>

(***************************************************************************)
(* The stability tick: listing the folder, StabilityTracker.observe and    *)
(* CandidateDiscoveryCoordinator.observe.                                  *)
(***************************************************************************)

(* Mutant: a change of the folder does not start the count anew. *)
CompareMut(content) ==
    /\ last' = content
    /\ count' = IF count < StableComparisons THEN count + 1 ELSE count

(* The count is compared only with StableComparisons.                      *)
Compare(content) ==
    /\ last' = content
    /\ count' = CASE last # content -> 0
                  [] last = content /\ count < StableComparisons -> count + 1
                  [] OTHER -> count

Capture ==
    /\ watched /\ observed = NoContent /\ enqueue = "idle"
    /\ Compare(folder)
    /\ observed' = IF count' = StableComparisons THEN folder ELSE NoContent
    /\ fresh' = TRUE
    /\ captured' = {c \in Command : command[c] # Idle}
    /\ listed' = folder
    /\ streak' = IF listed # folder THEN 1 ELSE IF streak <= StableComparisons THEN streak + 1 ELSE streak
    /\ UNCHANGED <<folder, candidate, register, watched, enqueue, row, command>>

(* A listing that fails is not an observation: nothing changes.  A restart *)
(* forgets what the worker has in memory.                                  *)
Restart ==
    /\ register' = "idle" /\ watched' = FALSE /\ last' = NoContent /\ count' = 0
    /\ observed' = NoContent /\ fresh' = FALSE /\ enqueue' = "idle" /\ row' = NoRow
    /\ UNCHANGED <<folder, listed, streak, candidate, commands>>

(* markMaterialsIncomplete: without a new revision.                        *)
MarkMaterialsIncomplete ==
    /\ observed # NoContent /\ observed \notin Complete
    /\ status' = IF exists /\ status \in Waiting THEN "MATERIALS_INCOMPLETE" ELSE status
    /\ observed' = NoContent
    /\ UNCHANGED <<folder, listed, streak, tombstone, exists, archived, revision, inputs, started,
                   register, watched, last, count, fresh, enqueue, row, commands>>

(***************************************************************************)
(* enqueue, for a stable and complete folder.                              *)
(***************************************************************************)

Done == observed' = NoContent /\ enqueue' = "idle" /\ row' = NoRow

(* The candidate, and whether it has had an input before.                  *)
ReadRow ==
    /\ observed \in Complete /\ enqueue = "idle"
    /\ IF exists
       THEN /\ row' = [status |-> status, revision |-> revision, first |-> inputs = {}, current |-> TRUE]
            /\ enqueue' = "read" /\ UNCHANGED observed
       ELSE Done
    /\ UNCHANGED <<folder, listed, streak, candidate, register, watched, last, count, fresh, commands>>

(* Mutant: only what has been incomplete is analysed anew. *)
ManualReprocessMut == row.status = "MATERIALS_INCOMPLETE" /\ ~row.first

ManualReprocess == row.status = "WAITING_FOR_STABILITY" \/ (row.status = "MATERIALS_INCOMPLETE" /\ ~row.first)

AutomaticFirstRun == row.status = "NEW" \/ (row.status = "MATERIALS_INCOMPLETE" /\ row.first)

(* The input version is saved whatever the candidate is doing.             *)
SaveInput ==
    /\ enqueue = "read"
    /\ inputs' = IF exists THEN inputs \union {observed} ELSE inputs
    /\ IF exists /\ (AutomaticFirstRun \/ (ManualReprocess /\ fresh))
       THEN enqueue' = "saved" /\ UNCHANGED <<observed, row>>
       ELSE Done
    /\ UNCHANGED <<folder, listed, streak, tombstone, exists, status, archived, revision, started,
                   register, watched, last, count, fresh, commands>>

(* Mutant: every attempt has a trigger of its own. *)
TriggerMut == IF ManualReprocess THEN <<observed, Len(started) + 1>> ELSE <<observed, 0>>

Trigger == IF ManualReprocess THEN <<observed, row.revision>> ELSE <<observed, 0>>

(* createGoal: a trigger starts one run.  A candidate that is already      *)
(* being analysed for the first time keeps its record.                     *)
CreateGoal ==
    /\ enqueue = "saved"
    /\ LET known == \E i \in DOMAIN started : started[i].trigger = Trigger IN
        /\ known \/ ~exists \/ Len(started) < MaxStarted
        /\ started' = IF known \/ ~exists THEN started
                   ELSE Append(started, [trigger |-> Trigger, content |-> observed, current |-> row.current, state |-> "ACTIVE"])
        /\ IF exists /\ (~known \/ ManualReprocess)
           THEN enqueue' = "created" /\ UNCHANGED <<observed, row>>
           ELSE Done
    /\ UNCHANGED <<folder, listed, streak, tombstone, exists, status, archived, revision, inputs,
                   register, watched, last, count, fresh, commands>>

(* Mutant: like markMaterialsIncomplete, without a new revision. *)
StartAnalyzingMut ==
    /\ enqueue = "created"
    /\ Done
    /\ IF exists THEN status' = "ANALYZING" ELSE UNCHANGED status
    /\ UNCHANGED <<folder, listed, streak, tombstone, exists, archived, revision, inputs, started,
                   register, watched, last, count, fresh, commands>>

StartAnalyzing ==
    /\ enqueue = "created"
    /\ Done
    /\ IF exists THEN status' = "ANALYZING" /\ revision' = revision + 1 ELSE UNCHANGED <<status, revision>>
    /\ UNCHANGED <<folder, listed, streak, tombstone, exists, archived, inputs, started,
                   register, watched, last, count, fresh, commands>>

(***************************************************************************)
(* What the candidate's record shows of a run.                             *)
(***************************************************************************)

Ends(i, from, to) == started[i].state \in from /\ started' = [started EXCEPT ![i].state = to]
Shows(new) == status' = new /\ revision' = revision + 1

RunPublishes(i) ==
    /\ Ends(i, {"ACTIVE"}, "PUBLISHED") /\ Shows("READY")
    /\ UNCHANGED <<folder, listed, streak, tombstone, exists, archived, inputs, worker, commands>>

RunFails(i) ==
    /\ Ends(i, {"ACTIVE", "PUBLISHED"}, "FAILED") /\ Shows("FAILED")
    /\ UNCHANGED <<folder, listed, streak, tombstone, exists, archived, inputs, worker, commands>>

RunSucceeds(i) ==
    /\ Ends(i, {"PUBLISHED"}, "SUCCEEDED")
    /\ UNCHANGED <<folder, listed, streak, tombstone, exists, status, archived, revision, inputs, worker, commands>>

(***************************************************************************)
(* executeLifecycleCommand.                                                *)
(***************************************************************************)

Allowed(action) ==
    CASE action = "archive" -> ~archived /\ status \notin Processing
      [] action = "reprocess" -> ~archived /\ status \in {"READY", "FAILED"} /\ Len(started) < MaxStarted
      [] OTHER -> archived

Begin(c) ==
    /\ command[c] = Idle /\ exists /\ revision < MaxRevision
    /\ \E action \in {"archive", "restore", "reprocess", "delete"} :
        /\ Allowed(action)
        /\ command' = [command EXCEPT ![c] =
                [action |-> action, status |-> status, archived |-> archived, revision |-> revision]]
    /\ captured' = captured \ {c}
    /\ UNCHANGED <<folder, listed, streak, candidate, worker>>

Ended(c) == command' = [command EXCEPT ![c] = Idle]

(* The record that was read is written back with the change.               *)
Update(c) ==
    /\ LET read == command[c] IN
        /\ status' = IF read.action = "reprocess" THEN "WAITING_FOR_STABILITY" ELSE read.status
        /\ archived' = CASE read.action = "archive" -> TRUE [] read.action = "restore" -> FALSE [] OTHER -> read.archived
        /\ started' = [i \in DOMAIN started |-> [started[i] EXCEPT
                        !.state = IF read.action = "archive" /\ @ \in {"ACTIVE", "PUBLISHED"} THEN "PAUSED" ELSE @,
                        !.current = FALSE]]
        /\ fresh' = IF read.action = "reprocess" THEN fresh /\ c \in captured ELSE fresh
    /\ revision' = revision + 1
    /\ Ended(c)
    /\ UNCHANGED <<tombstone, exists, inputs>>

(* Everything of the candidate goes, except that its folder is remembered. *)
(* What other commands have read has a public id that nobody gets again.   *)
Delete(c) ==
    /\ tombstone' = TRUE /\ exists' = FALSE
    /\ command' = [d \in Command |-> IF d = c THEN Idle ELSE [command[d] EXCEPT !.revision = 0]]
    /\ status' = "NEW" /\ archived' = FALSE /\ revision' = 0 /\ inputs' = {} /\ started' = <<>>
    /\ UNCHANGED fresh

Commit(c) ==
    /\ command[c] # Idle
    /\ IF ~exists \/ command[c].revision # revision THEN Ended(c) /\ UNCHANGED <<candidate, fresh, row>>
       ELSE /\ IF command[c].action = "delete" THEN Delete(c) ELSE Update(c)
            /\ row' = [row EXCEPT !.current = FALSE]
    /\ captured' = captured \ {c}
    /\ UNCHANGED <<folder, listed, streak, register, watched, last, count, observed, enqueue>>

Discovery == CheckTombstone \/ Register
Stability == Capture \/ MarkMaterialsIncomplete \/ ReadRow \/ SaveInput \/ CreateGoal \/ StartAnalyzing

IntakeNext ==
    \/ Change \/ Discovery \/ Stability \/ Restart
    \/ \E i \in DOMAIN started : RunPublishes(i) \/ RunFails(i) \/ RunSucceeds(i)
    \/ \E c \in Command : Begin(c) \/ Commit(c)

IntakeSpec == IntakeInit /\ [][IntakeNext]_intakeVars

(* Both intervals of the worker fire again and again, and it is not        *)
(* restarted for ever.                                                     *)
FairSpec == IntakeSpec /\ WF_intakeVars(Discovery) /\ WF_intakeVars(Stability) /\ <>[][~Restart]_intakeVars

(***************************************************************************)
(* Properties.                                                             *)
(***************************************************************************)

(* Every variable holds a value of its kind.                               *)
IntakeTypeOK ==
    /\ folder \in Content /\ listed \in Content \union {NoContent} /\ streak \in 0..StableComparisons + 1
    /\ {tombstone, exists, archived, watched, fresh} \subseteq BOOLEAN
    /\ status \in Waiting \union {"ANALYZING", "READY", "FAILED"}
    /\ revision \in Nat /\ (exists <=> revision > 0)
    /\ inputs \subseteq Complete
    /\ Len(started) <= MaxStarted
    /\ \A i \in DOMAIN started : started[i].state \in {"ACTIVE", "PUBLISHED", "SUCCEEDED", "FAILED", "PAUSED"}
    /\ register \in {"idle", "checked"} /\ last \in Content \union {NoContent} /\ count \in 0..StableComparisons
    /\ observed \in Content \union {NoContent}
    /\ enqueue \in {"idle", "read", "saved", "created"} /\ (enqueue # "idle" => observed \in Complete)
    /\ row.status \in Waiting \union {"ANALYZING", "READY", "FAILED", "none"}
    /\ \A c \in Command : command[c].action \in {"none", "archive", "restore", "reprocess", "delete"}
    /\ captured \subseteq Command

(* What becomes an input has been seen in four listings in a row, the last *)
(* included, whatever was added to the folder and removed between them,    *)
(* and whatever the worker had forgotten by a restart (core.ts:49).        *)
InputIsStable ==
    [][\A c \in inputs' \ inputs : listed = c /\ streak = StableComparisons + 1]_intakeVars

(* A command that was decided on an older record never undoes what the     *)
(* worker or a run has written meanwhile: archiving and restoring leave    *)
(* the status as it is.  Only the missing materials, which are written     *)
(* without a revision, may be forgotten until the next observation         *)
(* (production-discovery.ts:173, application.ts:168).                      *)
CommandKeepsStatus ==
    [][\A c \in Command :
        command[c].action \in {"archive", "restore"} /\ command'[c] = Idle /\ exists'
            => status' = status \/ {status, status'} \subseteq Waiting]_intakeVars

(* What the HR has asked for last starts one run of an input, although the *)
(* worker may crash after it has created the run and before the candidate  *)
(* shows it, and may read the candidate anew (production-discovery.ts:150).*)
(* A folder that is incomplete for a while makes a second run of the first *)
(* one, which nobody has asked for.                                        *)
OneRunPerRequest ==
    \A i, j \in DOMAIN started :
        i # j /\ started[i].current /\ started[j].current /\ started[i].content = started[j].content
            => 0 \in {started[i].trigger[2], started[j].trigger[2]}

(* A requested analysis of a complete folder that is left alone starts, in *)
(* the end, whatever is forgotten by restarts, unless the bound on runs is *)
(* reached (discovery-worker.ts:51).                                       *)
RequestIsServed ==
    \A c \in Complete :
        (<>[](folder = c /\ ~tombstone)) => []<>(status # "WAITING_FOR_STABILITY" \/ Len(started) = MaxStarted)

(* While a candidate is archived, no run is started for it.                *)
ArchivedIsLeftAlone ==
    [][archived /\ Len(started') > Len(started) => FALSE]_intakeVars

=============================================================================
