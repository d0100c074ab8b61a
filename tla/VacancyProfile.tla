--------------------------- MODULE VacancyProfile ---------------------------
(***************************************************************************)
(* The profiles of vacancies and what a candidate's run takes of them.     *)
(* HRs edit a profile (app/api/vacancies/profile) and its field prompts    *)
(* (app/api/vacancies/prompts) from pages of which several may be open,    *)
(* archive, restore and delete vacancies, while the discovery worker       *)
(* registers a candidate under the vacancy its folder is found in and      *)
(* starts runs that name a version of a profile.                           *)
(*                                                                         *)
(* A profile stands for its texts and is named by the page it was written  *)
(* on; the vacancy's folder on the Drive is named by the vacancy.          *)
(***************************************************************************)
EXTENDS Integers, FiniteSets

CONSTANTS Vacancy,
          Page,        \* open pages of the editor, each of one user
          VacancyOf,   \* [Page -> Vacancy]: the vacancy a page shows
          Run,         \* runs of the candidate
          None,
          MaxVersion,  \* bound: versions of a profile
          MaxRevision  \* bound: edits of the field prompts of a vacancy

ASSUME VacancyAssumption ==
    /\ None \notin Vacancy \union Page
    /\ VacancyOf \in [Page -> Vacancy]
    /\ MaxVersion \in Nat \ {0} /\ MaxRevision \in Nat

VARIABLES
    vacancy,    \* vacancies.record_json, or None
    versions,   \* vacancy_profile_versions: the profiles by version, or None
    page,       \* where the request of a page is
    saved,      \* history: the profiles that pages have saved, by version
    prompted,   \* history: how many edits of field prompts they have saved
    folder,     \* external: the vacancy in whose folder the candidate's folder is
    home,       \* candidates: vacancyId of the candidate, or None without the candidate
    bound,      \* candidate_drive_folders.vacancy_folder_id
    tombstone,  \* candidate_drive_folder_tombstones has the folder
    register,   \* where registering the folder is
    enqueue,    \* what enqueue has read: the vacancy and its version
    run,        \* agent_goals.profile_version and agent_runs.analysis_prompt of a run
    strayed     \* history: runs a tool of which has read another profile than the
                \* one the run names

profiles == <<vacancy, versions>>
editing == <<page, saved, prompted>>
candidate == <<home, bound, tombstone>>
worker == <<register, enqueue>>
analysis == <<run, strayed>>
vars == <<profiles, editing, folder, candidate, worker, analysis>>

(* The profile a vacancy was created with, and the built-in prompt. *)
Initial == "initial"
Standard == "standard"
Profile == [text : Page \union {Initial}, prompt : Page \union {Standard}]
Record == [version : 1..MaxVersion, profile : Profile, revision : 0..MaxRevision, archived : BOOLEAN]

Closed == [step |-> "closed"]
Unlisted == [step |-> "idle", at |-> None, known |-> FALSE]
Row == [vacancy : Vacancy, version : 1..MaxVersion]
Analysis == [vacancy : Vacancy, version : 1..MaxVersion, prompt : Page \union {Standard}]

(* What is not there is told from what is there. *)
ASSUME NoneAssumption == None \notin Record \union Profile \union Row \union Analysis

TypeOK ==
    /\ vacancy \in [Vacancy -> Record \union {None}]
    /\ versions \in [Vacancy -> [1..MaxVersion -> Profile \union {None}]]
    /\ \A p \in Page : page[p] # Closed =>
           /\ page[p].step \in {"open", "read"} /\ page[p].kind \in {"profile", "prompt"}
           /\ page[p].expected \in Nat /\ page[p].seen \in Record \union {None}
    /\ saved \in [Vacancy -> [1..MaxVersion -> Profile \union {None}]]
    /\ prompted \in [Vacancy -> Nat]
    /\ folder \in Vacancy
    /\ home \in Vacancy \union {None} /\ bound \in Vacancy \union {None}
    /\ tombstone \in BOOLEAN
    /\ register \in [step : {"idle", "listed", "checked"}, at : Vacancy \union {None},
                     known : BOOLEAN]
    /\ enqueue \in Row \union {None}
    /\ run \in [Run -> Analysis \union {None}]
    /\ strayed \subseteq {r \in Run : run[r] # None}

Created == [version |-> 1, profile |-> [text |-> Initial, prompt |-> Standard],
            revision |-> 0, archived |-> FALSE]
FirstVersion == [n \in 1..MaxVersion |-> IF n = 1 THEN Created.profile ELSE None]

(* The vacancies have just been created (commitVacancy).                   *)
Init ==
    /\ vacancy = [v \in Vacancy |-> Created]
    /\ versions = [v \in Vacancy |-> FirstVersion]
    /\ page = [p \in Page |-> Closed]
    /\ saved = [v \in Vacancy |-> FirstVersion] /\ prompted = [v \in Vacancy |-> 0]
    /\ folder \in Vacancy /\ home = None /\ bound = None /\ tombstone = FALSE
    /\ register = Unlisted /\ enqueue = None
    /\ run = [r \in Run |-> None] /\ strayed = {}

Exists(v) == vacancy[v] # None

(***************************************************************************)
(* Editing: a page shows a version or a revision; its request reads the    *)
(* record, compares, and writes the whole record back.                     *)
(***************************************************************************)

(* A page is opened, and its user begins to edit.                          *)
Open(p, kind) ==
    LET v == VacancyOf[p] IN
    /\ page[p] = Closed /\ Exists(v)
    /\ page' = [page EXCEPT ![p] =
           [step |-> "open", kind |-> kind, seen |-> None,
            expected |-> IF kind = "profile" THEN vacancy[v].version ELSE vacancy[v].revision]]
    /\ UNCHANGED <<profiles, saved, prompted, folder, candidate, worker, analysis>>

(* The page's expectation is met by the record the request reads.          *)
Expected(p, record) ==
    page[p].expected = IF page[p].kind = "profile" THEN record.version ELSE record.revision

(* Not found and conflict end the request.                                 *)
ReadRecord(p) ==
    /\ page[p] # Closed /\ page[p].step = "open"
    /\ LET v == VacancyOf[p] IN
       page' = [page EXCEPT ![p] =
           IF Exists(v) /\ Expected(p, vacancy[v])
           THEN [@ EXCEPT !.step = "read", !.seen = vacancy[v]]
           ELSE Closed]
    /\ UNCHANGED <<profiles, saved, prompted, folder, candidate, worker, analysis>>

(* Mutant: the write compares what the request itself has compared.        *)
StillSeenMut(p) ==
    Exists(VacancyOf[p]) /\ Expected(p, vacancy[VacancyOf[p]])

(* WHERE record_json = the record that was read.                           *)
StillSeen(p) == vacancy[VacancyOf[p]] = page[p].seen

Writing(p, kind) == page[p] # Closed /\ page[p].step = "read" /\ page[p].kind = kind

(* One statement changes the record and inserts the version; without a     *)
(* record to change, or when there is such a version, it does nothing.     *)
SaveProfile(p, prompt) ==
    LET v == VacancyOf[p]
        n == page[p].seen.version + 1
        profile == [text |-> p, prompt |-> prompt]
    IN  /\ Writing(p, "profile") /\ n <= MaxVersion
        /\ prompt \in {p, page[p].seen.profile.prompt}
        /\ IF StillSeen(p) /\ versions[v][n] = None
           THEN /\ vacancy' = [vacancy EXCEPT ![v] = [page[p].seen EXCEPT !.version = n, !.profile = profile]]
                /\ versions' = [versions EXCEPT ![v][n] = profile]
                /\ saved' = [saved EXCEPT ![v][n] = profile]
           ELSE UNCHANGED <<profiles, saved>>
        /\ page' = [page EXCEPT ![p] = Closed]
        /\ UNCHANGED <<prompted, folder, candidate, worker, analysis>>

(* The prompts of fields are no part of a version.                         *)
SavePrompt(p) ==
    LET v == VacancyOf[p] IN
    /\ Writing(p, "prompt") /\ page[p].seen.revision < MaxRevision
    /\ IF StillSeen(p)
       THEN /\ vacancy' = [vacancy EXCEPT ![v] = [page[p].seen EXCEPT !.revision = @ + 1]]
            /\ prompted' = [prompted EXCEPT ![v] = @ + 1]
       ELSE UNCHANGED <<vacancy, prompted>>
    /\ page' = [page EXCEPT ![p] = Closed]
    /\ UNCHANGED <<versions, saved, folder, candidate, worker, analysis>>

(* The request is broken off, or the page is left.                         *)
Leave(p) ==
    /\ page[p] # Closed
    /\ page' = [page EXCEPT ![p] = Closed]
    /\ UNCHANGED <<profiles, saved, prompted, folder, candidate, worker, analysis>>

(***************************************************************************)
(* commitVacancyLifecycle: one transaction that has locked the record.     *)
(***************************************************************************)

Archive(v) ==
    /\ Exists(v) /\ ~vacancy[v].archived
    /\ vacancy' = [vacancy EXCEPT ![v].archived = TRUE]
    /\ UNCHANGED <<versions, editing, folder, candidate, worker, analysis>>

Restore(v) ==
    /\ Exists(v) /\ vacancy[v].archived
    /\ vacancy' = [vacancy EXCEPT ![v].archived = FALSE]
    /\ UNCHANGED <<versions, editing, folder, candidate, worker, analysis>>

(* The candidates of the vacancy go with it, and their runs with them; a   *)
(* tombstone keeps their folders from being registered again.              *)
Delete(v) ==
    /\ Exists(v) /\ vacancy[v].archived
    /\ vacancy' = [vacancy EXCEPT ![v] = None]
    /\ versions' = [versions EXCEPT ![v] = [n \in 1..MaxVersion |-> None]]
    /\ IF home = v
       THEN /\ home' = None /\ bound' = None /\ tombstone' = TRUE
            /\ run' = [r \in Run |-> None] /\ strayed' = {}
       ELSE UNCHANGED <<candidate, analysis>>
    /\ UNCHANGED <<editing, folder, worker>>

(***************************************************************************)
(* The discovery worker: the folder is listed on the Drive, the active     *)
(* vacancies are read once, then the folder's rows are read and written.   *)
(***************************************************************************)

(* External: somebody moves the candidate's folder.                        *)
MoveFolder ==
    /\ \E v \in Vacancy \ {folder} : folder' = v
    /\ UNCHANGED <<profiles, editing, candidate, worker, analysis>>

ListVacancies ==
    /\ register.step = "idle"
    /\ register' = [step |-> "listed", at |-> folder,
                    known |-> Exists(folder) /\ ~vacancy[folder].archived]
    /\ UNCHANGED <<profiles, editing, folder, candidate, enqueue, analysis>>

CheckTombstone ==
    /\ register.step = "listed"
    /\ register' = IF tombstone THEN Unlisted ELSE [register EXCEPT !.step = "checked"]
    /\ UNCHANGED <<profiles, editing, folder, candidate, enqueue, analysis>>

(* A known candidate stays with its vacancy wherever its folder is.        *)
RegisterFolder ==
    /\ register.step = "checked"
    /\ register' = Unlisted
    /\ CASE home # None -> bound' = register.at /\ UNCHANGED home
         [] home = None /\ register.known ->
                home' = register.at /\ bound' = register.at
         [] OTHER -> UNCHANGED <<home, bound>>
    /\ UNCHANGED <<profiles, editing, folder, tombstone, enqueue, analysis>>

(* enqueue finds the vacancy by the folder.                                *)
ReadVacancy ==
    /\ enqueue = None /\ home # None /\ Exists(bound)
    /\ \E r \in Run : run[r] = None
    /\ enqueue' = [vacancy |-> bound, version |-> vacancy[bound].version]
    /\ UNCHANGED <<profiles, editing, folder, candidate, register, analysis>>

(* Mutant: the prompt is taken from the profile as it is now.              *)
PinnedPromptMut(v, n) == IF Exists(v) THEN vacancy[v].profile.prompt ELSE Standard

(* createGoal: the prompt of the version, else of the profile as it is now. *)
PinnedPrompt(v, n) ==
    CASE versions[v][n] # None -> versions[v][n].prompt
      [] versions[v][n] = None /\ Exists(v) -> vacancy[v].profile.prompt
      [] OTHER -> Standard

(* The version is the one enqueue has read, the prompt is looked up under  *)
(* the vacancy of the candidate.  A candidate that is gone has no run.     *)
CreateGoal(r) ==
    /\ enqueue # None /\ run[r] = None
    /\ enqueue' = None
    /\ run' = IF home = None THEN run
              ELSE [run EXCEPT ![r] = [vacancy |-> enqueue.vacancy, version |-> enqueue.version,
                                       prompt |-> PinnedPrompt(home, enqueue.version)]]
    /\ UNCHANGED <<profiles, editing, folder, candidate, register, strayed>>

(* A tick that is interrupted, by an error or a restart.                   *)
Interrupt ==
    /\ register # Unlisted \/ enqueue # None
    /\ register' = Unlisted /\ enqueue' = None
    /\ UNCHANGED <<profiles, editing, folder, candidate, analysis>>

(* vacancyContext of a tool that compiles the matrix, fans out or assesses *)
(* the directions, or renders the report: the profile as it is now.        *)
ReadRules(r) ==
    /\ run[r] # None /\ Exists(home)
    /\ strayed' = IF run[r].vacancy = home /\ run[r].version = vacancy[home].version
                  THEN strayed ELSE strayed \union {r}
    /\ UNCHANGED <<profiles, editing, folder, candidate, worker, run>>

Next ==
    \/ \E p \in Page :
          \/ \E kind \in {"profile", "prompt"} : Open(p, kind)
          \/ ReadRecord(p) \/ SavePrompt(p) \/ Leave(p)
          \/ \E prompt \in Page \union {Standard} : SaveProfile(p, prompt)
    \/ \E v \in Vacancy : Archive(v) \/ Restore(v) \/ Delete(v)
    \/ MoveFolder \/ ListVacancies \/ CheckTombstone \/ RegisterFolder
    \/ ReadVacancy \/ Interrupt
    \/ \E r \in Run : CreateGoal(r) \/ ReadRules(r)

Spec == Init /\ [][Next]_vars

-----------------------------------------------------------------------------
(* Properties *)

(* The versions of a profile are without a gap, and the last of them is    *)
(* the profile itself.                                                     *)
VersionsAreKept ==
    \A v \in Vacancy : Exists(v) =>
        /\ \A n \in 1..MaxVersion : versions[v][n] # None <=> n <= vacancy[v].version
        /\ versions[v][vacancy[v].version] = vacancy[v].profile

(* What a page was told it had saved is there, profiles as versions and    *)
(* field prompts in the record: nobody who saved, or gave a lifecycle      *)
(* command, on the record as it was before has undone it                   *)
(* (profile/route.ts:33, prompts/route.ts:47).                             *)
SavedIsKept ==
    /\ VersionsAreKept
    /\ \A v \in Vacancy : Exists(v) =>
           versions[v] = saved[v] /\ vacancy[v].revision = prompted[v]

(* A run has the analysis prompt of the version it names, unless the       *)
(* candidate's folder has been moved (postgres-runtime-repository.ts:71).  *)
PromptIsPinned ==
    \A r \in Run : run[r] # None /\ run[r].vacancy = home /\ Exists(home) =>
        run[r].prompt = versions[home][run[r].version].prompt

-----------------------------------------------------------------------------
(* Promises of the requirements that the code does not keep; each has a    *)
(* .cfg of its own that shows the counterexample.                          *)

(* VAC-002, ASM-006: changes of the profile do not change the rules of a   *)
(* run that has been started.                                              *)
RulesArePinned ==
    \A r \in strayed : run[r].vacancy # home

(* TST-017: a folder that is moved does not change the vacancy. *)
RunIsForItsVacancy == \A r \in Run : run[r] # None => run[r].vacancy = home

(* The candidates of a deleted vacancy are deleted with it. *)
CandidateHasVacancy == home # None => Exists(home)

=============================================================================
