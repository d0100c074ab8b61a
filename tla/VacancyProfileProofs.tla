----------------------- MODULE VacancyProfileProofs -----------------------
(***************************************************************************)
(* Proofs about VacancyProfile: what was saved is kept, and a run has the  *)
(* prompt of the version it names, for any vacancies, pages and runs.      *)
(***************************************************************************)
EXTENDS VacancyProfile, TLAPS

(* A request that writes has read a record; a registration that is under   *)
(* way has found the folder, and a candidate has one.                      *)
PageState ==
    {Closed}
    \union [step : {"open"}, kind : {"profile", "prompt"}, seen : {None}, expected : Nat]
    \union [step : {"read"}, kind : {"profile", "prompt"}, seen : Record, expected : Nat]

Registration ==
    {Unlisted} \union [step : {"listed", "checked"}, at : Vacancy, known : BOOLEAN]

RowsInv ==
    /\ vacancy \in [Vacancy -> Record \union {None}]
    /\ versions \in [Vacancy -> [1..MaxVersion -> Profile \union {None}]]
    /\ saved \in [Vacancy -> [1..MaxVersion -> Profile \union {None}]]
    /\ prompted \in [Vacancy -> Nat]
    /\ page \in [Page -> PageState]

WorkerInv ==
    /\ folder \in Vacancy /\ tombstone \in BOOLEAN
    /\ home \in Vacancy \union {None} /\ bound \in Vacancy \union {None}
    /\ home # None => bound \in Vacancy
    /\ register \in Registration
    /\ enqueue \in Row \union {None}
    /\ run \in [Run -> Analysis \union {None}]
    /\ strayed \subseteq {r \in Run : run[r] # None}

TypeInv == RowsInv /\ WorkerInv

(* A version that enqueue has read or a run names exists as long as its    *)
(* vacancy: a later edit does not touch it.                                *)
VersionsExist ==
    /\ enqueue # None /\ Exists(enqueue.vacancy) =>
           enqueue.version <= vacancy[enqueue.vacancy].version
    /\ \A r \in Run : run[r] # None /\ Exists(run[r].vacancy) =>
           run[r].version <= vacancy[run[r].vacancy].version

(* A candidate that is gone has taken its runs along. *)
RunsHaveCandidate == home = None => \A r \in Run : run[r] = None

PromptInv == VersionsExist /\ RunsHaveCandidate /\ PromptIsPinned

USE VacancyAssumption, NoneAssumption DEF Exists

(***************************************************************************)
(* Types.                                                                  *)
(***************************************************************************)

(* The type invariant follows from the one that is inductive. *)
LEMMA TypeInvType == TypeInv => TypeOK
  <1> SUFFICES ASSUME TypeInv PROVE TypeOK
    OBVIOUS
  <1>1. ASSUME NEW p \in Page, page[p] # Closed
        PROVE  /\ page[p].step \in {"open", "read"} /\ page[p].kind \in {"profile", "prompt"}
               /\ page[p].expected \in Nat /\ page[p].seen \in Record \union {None}
    <2>1. page[p] \in PageState \ {Closed}
      BY <1>1 DEF TypeInv, RowsInv
    <2> QED
      BY <2>1 DEF PageState
  <1>2. register \in [step : {"idle", "listed", "checked"}, at : Vacancy \union {None}, known : BOOLEAN]
    <2>1. CASE register = Unlisted
      BY <2>1 DEF Unlisted
    <2>2. CASE register # Unlisted
      <3>1. register \in [step : {"listed", "checked"}, at : Vacancy, known : BOOLEAN]
        BY <2>2 DEF TypeInv, WorkerInv, Registration
      <3> QED
        BY <3>1
    <2> QED
      BY <2>1, <2>2
  <1> QED
    BY <1>1, <1>2 DEF TypeInv, RowsInv, WorkerInv, TypeOK

LEMMA TypeInit == Init => TypeInv
  <1> SUFFICES ASSUME Init PROVE TypeInv
    OBVIOUS
  <1>1. Created \in Record /\ Created.profile \in Profile
    BY DEF VacancyAssumption, Created, Record, Profile
  <1>2. FirstVersion \in [1..MaxVersion -> Profile \union {None}]
    BY <1>1 DEF FirstVersion
  <1>3. RowsInv
    BY <1>1, <1>2 DEF Init, RowsInv, PageState
  <1>4. WorkerInv
    BY DEF Init, WorkerInv, Registration
  <1> QED
    BY <1>3, <1>4 DEF TypeInv

(* What a page becomes is a page. *)
LEMMA PageSteps ==
    ASSUME RowsInv, NEW p \in Page, NEW s \in PageState, page' = [page EXCEPT ![p] = s]
    PROVE  page' \in [Page -> PageState]
  BY DEF RowsInv

(* A page that writes has read a record. *)
LEMMA WritingRead ==
    ASSUME RowsInv, NEW p \in Page, NEW kind, Writing(p, kind)
    PROVE  page[p].seen \in Record
  <1>1. page[p] \in PageState /\ page[p] # Closed /\ page[p].step = "read"
    BY DEF RowsInv, Writing
  <1> QED
    BY <1>1 DEF PageState, Closed

LEMMA RowsNext == TypeInv /\ [Next]_vars => RowsInv'
  <1> SUFFICES ASSUME RowsInv, WorkerInv, [Next]_vars PROVE RowsInv'
    BY DEF TypeInv
  <1> USE VacancyAssumption DEF VacancyAssumption
  <1>0. Closed \in PageState
    BY DEF PageState
  <1>1. ASSUME NEW p \in Page, NEW kind \in {"profile", "prompt"}, Open(p, kind) PROVE RowsInv'
    <2> DEFINE s == [step |-> "open", kind |-> kind, seen |-> None,
                     expected |-> IF kind = "profile" THEN vacancy[VacancyOf[p]].version
                                  ELSE vacancy[VacancyOf[p]].revision]
    <2>1. vacancy[VacancyOf[p]] \in Record
      BY <1>1 DEF Open, RowsInv
    <2>2. s \in PageState
      BY <2>1 DEF PageState, Record
    <2>3. page' = [page EXCEPT ![p] = s]
      BY <1>1 DEF Open
    <2>4. page' \in [Page -> PageState]
      BY <2>2, <2>3, PageSteps
    <2> QED
      BY <1>1, <2>4 DEF Open, RowsInv, profiles
  <1>2. ASSUME NEW p \in Page, ReadRecord(p) PROVE RowsInv'
    <2> DEFINE v == VacancyOf[p]
    <2> DEFINE s == IF Exists(v) /\ Expected(p, vacancy[v])
                    THEN [page[p] EXCEPT !.step = "read", !.seen = vacancy[v]]
                    ELSE Closed
    <2>1. page[p] \in [step : {"open"}, kind : {"profile", "prompt"}, seen : {None}, expected : Nat]
      BY <1>2 DEF ReadRecord, RowsInv, PageState, Closed
    <2>2. Exists(v) => vacancy[v] \in Record
      BY DEF RowsInv
    <2>3. s \in PageState
      BY <2>1, <2>2, <1>0 DEF PageState
    <2>4. page' = [page EXCEPT ![p] = s]
      BY <1>2 DEF ReadRecord
    <2>5. page' \in [Page -> PageState]
      BY <2>3, <2>4, PageSteps
    <2> QED
      BY <1>2, <2>5 DEF ReadRecord, RowsInv, profiles
  <1>3. ASSUME NEW p \in Page, NEW prompt \in Page \union {Standard}, SaveProfile(p, prompt) PROVE RowsInv'
    <2> DEFINE n == page[p].seen.version + 1
    <2> DEFINE profile == [text |-> p, prompt |-> prompt]
    <2>1. page[p].seen \in Record
      BY <1>3, WritingRead DEF SaveProfile
    <2>2. page' \in [Page -> PageState]
      BY <1>3, <1>0, PageSteps DEF SaveProfile
    <2>3. n \in 1..MaxVersion
      BY <1>3, <2>1 DEF SaveProfile, Record
    <2>4. profile \in Profile
      BY DEF Profile
    <2>5. [page[p].seen EXCEPT !.version = n, !.profile = profile] \in Record
      BY <2>1, <2>3, <2>4 DEF Record
    <2>6. prompted' = prompted
      BY <1>3 DEF SaveProfile
    <2>7. CASE StillSeen(p) /\ versions[VacancyOf[p]][n] = None
      <3>1. /\ vacancy' = [vacancy EXCEPT ![VacancyOf[p]] = [page[p].seen EXCEPT !.version = n, !.profile = profile]]
            /\ versions' = [versions EXCEPT ![VacancyOf[p]][n] = profile]
            /\ saved' = [saved EXCEPT ![VacancyOf[p]][n] = profile]
        BY <1>3, <2>7 DEF SaveProfile
      <3>2. vacancy' \in [Vacancy -> Record \union {None}]
        BY <3>1, <2>5 DEF RowsInv
      <3>3. versions' \in [Vacancy -> [1..MaxVersion -> Profile \union {None}]]
        BY <3>1, <2>3, <2>4 DEF RowsInv
      <3>4. saved' \in [Vacancy -> [1..MaxVersion -> Profile \union {None}]]
        BY <3>1, <2>3, <2>4 DEF RowsInv
      <3> QED
        BY <2>2, <2>6, <3>2, <3>3, <3>4 DEF RowsInv
    <2>8. CASE ~(StillSeen(p) /\ versions[VacancyOf[p]][n] = None)
      BY <1>3, <2>2, <2>6, <2>8 DEF SaveProfile, RowsInv, profiles
    <2> QED
      BY <2>7, <2>8
  <1>4. ASSUME NEW p \in Page, SavePrompt(p) PROVE RowsInv'
    <2>1. page[p].seen \in Record
      BY <1>4, WritingRead DEF SavePrompt
    <2>2. page' \in [Page -> PageState]
      BY <1>4, <1>0, PageSteps DEF SavePrompt
    <2>3. [page[p].seen EXCEPT !.revision = @ + 1] \in Record
      BY <1>4, <2>1 DEF SavePrompt, Record
    <2>4. CASE StillSeen(p)
      <3>1. vacancy' = [vacancy EXCEPT ![VacancyOf[p]] = [page[p].seen EXCEPT !.revision = @ + 1]]
        BY <1>4, <2>4 DEF SavePrompt
      <3>2. vacancy' \in [Vacancy -> Record \union {None}]
        BY <2>3, <3>1 DEF RowsInv
      <3>3. prompted' \in [Vacancy -> Nat]
        <4>1. prompted' = [prompted EXCEPT ![VacancyOf[p]] = @ + 1]
          BY <1>4, <2>4 DEF SavePrompt
        <4>2. prompted \in [Vacancy -> Nat]
          BY DEF RowsInv
        <4> QED
          BY <4>1, <4>2
      <3> QED
        BY <1>4, <2>2, <3>2, <3>3 DEF SavePrompt, RowsInv
    <2> QED
      BY <1>4, <2>2, <2>4 DEF SavePrompt, RowsInv
  <1>5. ASSUME NEW p \in Page, Leave(p) PROVE RowsInv'
    <2>1. page' \in [Page -> PageState]
      BY <1>5, <1>0, PageSteps DEF Leave
    <2> QED
      BY <1>5, <2>1 DEF Leave, RowsInv, profiles
  <1>6. ASSUME NEW v \in Vacancy, Archive(v) \/ Restore(v) PROVE RowsInv'
    <2>1. vacancy[v] \in Record
      BY <1>6 DEF Archive, Restore, RowsInv
    <2>2. \A b \in BOOLEAN : [vacancy[v] EXCEPT !.archived = b] \in Record
      BY <2>1 DEF Record
    <2>3. vacancy' \in [Vacancy -> Record \union {None}]
      BY <1>6, <2>2 DEF Archive, Restore, RowsInv
    <2> QED
      BY <1>6, <2>3 DEF Archive, Restore, RowsInv, editing
  <1>7. ASSUME NEW v \in Vacancy, Delete(v) PROVE RowsInv'
    BY <1>7 DEF Delete, RowsInv, editing
  <1>8. ASSUME UNCHANGED <<profiles, editing>> PROVE RowsInv'
    BY <1>8 DEF RowsInv, profiles, editing
  <1> QED
    BY <1>1, <1>2, <1>3, <1>4, <1>5, <1>6, <1>7, <1>8
    DEF Next, vars, MoveFolder, ListVacancies, CheckTombstone, RegisterFolder, ReadVacancy,
        Interrupt, CreateGoal, ReadRules

LEMMA WorkerNext == TypeInv /\ [Next]_vars => WorkerInv'
  <1> SUFFICES ASSUME RowsInv, WorkerInv, [Next]_vars PROVE WorkerInv'
    BY DEF TypeInv
  <1>1. ASSUME NEW v \in Vacancy, Delete(v) PROVE WorkerInv'
    <2>1. CASE home = v
      BY <1>1, <2>1 DEF Delete, WorkerInv, candidate, worker
    <2>2. CASE home # v
      BY <1>1, <2>2 DEF Delete, WorkerInv, candidate, worker, analysis
    <2> QED
      BY <2>1, <2>2
  <1>2. ASSUME MoveFolder PROVE WorkerInv'
    BY <1>2 DEF MoveFolder, WorkerInv, candidate, worker, analysis
  <1>3. ASSUME ListVacancies PROVE WorkerInv'
    <2>1. register' \in Registration
      BY <1>3 DEF ListVacancies, WorkerInv, Registration
    <2> QED
      BY <1>3, <2>1 DEF ListVacancies, WorkerInv, candidate, analysis
  <1>4. ASSUME CheckTombstone PROVE WorkerInv'
    <2>1. register \in [step : {"listed", "checked"}, at : Vacancy, known : BOOLEAN]
      BY <1>4 DEF CheckTombstone, WorkerInv, Registration, Unlisted
    <2>2. [register EXCEPT !.step = "checked"] \in Registration
      BY <2>1 DEF Registration
    <2>3. register' \in Registration
      BY <1>4, <2>2 DEF CheckTombstone, Registration
    <2> QED
      BY <1>4, <2>3 DEF CheckTombstone, WorkerInv, candidate, analysis
  <1>5. ASSUME RegisterFolder PROVE WorkerInv'
    <2>1. register.at \in Vacancy
      BY <1>5 DEF RegisterFolder, WorkerInv, Registration, Unlisted
    <2>2. register' \in Registration
      BY <1>5 DEF RegisterFolder, Registration
    <2>3. /\ home' \in Vacancy \union {None} /\ bound' \in Vacancy \union {None}
          /\ home' # None => bound' \in Vacancy
      BY <1>5, <2>1 DEF RegisterFolder, WorkerInv
    <2> QED
      BY <1>5, <2>2, <2>3 DEF RegisterFolder, WorkerInv, analysis
  <1>6. ASSUME ReadVacancy PROVE WorkerInv'
    <2>1. bound \in Vacancy /\ vacancy[bound] \in Record
      BY <1>6 DEF ReadVacancy, RowsInv, WorkerInv
    <2>2. enqueue' \in Row
      BY <1>6, <2>1 DEF ReadVacancy, Row, Record
    <2> QED
      BY <1>6, <2>2 DEF ReadVacancy, WorkerInv, candidate, analysis
  <1>7. ASSUME Interrupt PROVE WorkerInv'
    BY <1>7 DEF Interrupt, WorkerInv, Registration, candidate, analysis
  <1>8. ASSUME NEW r \in Run, CreateGoal(r) PROVE WorkerInv'
    <2> DEFINE new == [vacancy |-> enqueue.vacancy, version |-> enqueue.version,
                       prompt |-> PinnedPrompt(home, enqueue.version)]
    <2>1. CASE home = None
      BY <1>8, <2>1 DEF CreateGoal, WorkerInv, candidate
    <2>2. CASE home # None
      <3>1. enqueue \in Row /\ home \in Vacancy
        BY <1>8, <2>2 DEF CreateGoal, WorkerInv
      <3>2. PinnedPrompt(home, enqueue.version) \in Page \union {Standard}
        BY <3>1 DEF PinnedPrompt, RowsInv, Row, Record, Profile
      <3>3. new \in Analysis
        BY <3>1, <3>2 DEF Row, Analysis
      <3>4. run' = [run EXCEPT ![r] = new]
        BY <1>8, <2>2 DEF CreateGoal
      <3>5. run' \in [Run -> Analysis \union {None}]
        BY <3>3, <3>4 DEF WorkerInv
      <3>6. strayed' \subseteq {q \in Run : run'[q] # None}
        BY <1>8, <3>3, <3>4 DEF CreateGoal, WorkerInv
      <3> QED
        BY <1>8, <3>5, <3>6 DEF CreateGoal, WorkerInv, candidate
    <2> QED
      BY <2>1, <2>2
  <1>9. ASSUME NEW r \in Run, ReadRules(r) PROVE WorkerInv'
    BY <1>9 DEF ReadRules, WorkerInv, candidate, worker
  <1>10. ASSUME UNCHANGED <<folder, candidate, worker, analysis>> PROVE WorkerInv'
    BY <1>10 DEF WorkerInv, candidate, worker, analysis
  <1> QED
    BY <1>1, <1>2, <1>3, <1>4, <1>5, <1>6, <1>7, <1>8, <1>9, <1>10
    DEF Next, vars, Open, ReadRecord, SaveProfile, SavePrompt, Leave, Archive, Restore

LEMMA TypeNext == TypeInv /\ [Next]_vars => TypeInv'
  BY RowsNext, WorkerNext DEF TypeInv

(* Rows, pages and what the worker has in memory stay in their domains. *)
THEOREM TypeCorrect == Spec => []TypeOK
  <1>1. Spec => []TypeInv
    BY TypeInit, TypeNext, PTL DEF Spec
  <1> QED
    BY <1>1, TypeInvType, PTL

(***************************************************************************)
(* What was saved is kept.                                                 *)
(***************************************************************************)

LEMMA SavedInit == Init => SavedIsKept
  <1> SUFFICES ASSUME Init, NEW v \in Vacancy
               PROVE  /\ \A n \in 1..MaxVersion : versions[v][n] # None <=> n <= vacancy[v].version
                      /\ versions[v][vacancy[v].version] = vacancy[v].profile
                      /\ versions[v] = saved[v] /\ vacancy[v].revision = prompted[v]
    BY DEF SavedIsKept, VersionsAreKept
  <1>1. Created.profile \in Profile
    BY DEF Created, Profile
  <1>2. /\ vacancy[v] = Created /\ versions[v] = FirstVersion
        /\ saved[v] = FirstVersion /\ prompted[v] = 0
    BY DEF Init
  <1>3. Created.version = 1 /\ Created.revision = 0
    BY DEF Created
  <1>4. 1 \in 1..MaxVersion
    BY DEF VacancyAssumption
  <1>5. /\ FirstVersion[1] = Created.profile
        /\ \A n \in 1..MaxVersion : FirstVersion[n] # None <=> n <= 1
    BY <1>1, <1>4 DEF FirstVersion
  <1> QED
    BY <1>2, <1>3, <1>5

LEMMA SavedNext == TypeInv /\ SavedIsKept /\ [Next]_vars => SavedIsKept'
  <1> SUFFICES ASSUME RowsInv, SavedIsKept, [Next]_vars PROVE SavedIsKept'
    BY DEF TypeInv
  <1>1. ASSUME NEW p \in Page, NEW prompt \in Page \union {Standard}, SaveProfile(p, prompt)
        PROVE  SavedIsKept'
    <2> DEFINE v == VacancyOf[p]
    <2> DEFINE n == page[p].seen.version + 1
    <2> DEFINE profile == [text |-> p, prompt |-> prompt]
    <2>1. v \in Vacancy /\ page[p].seen \in Record
      BY <1>1, WritingRead DEF SaveProfile, VacancyAssumption
    <2>2. n \in 1..MaxVersion
      BY <1>1, <2>1 DEF SaveProfile, Record, VacancyAssumption
    <2>3. profile \in Profile /\ profile # None
      BY DEF Profile
    <2>4. CASE StillSeen(p) /\ versions[v][n] = None
      <3>1. /\ vacancy' = [vacancy EXCEPT ![v] = [page[p].seen EXCEPT !.version = n, !.profile = profile]]
            /\ versions' = [versions EXCEPT ![v][n] = profile]
            /\ saved' = [saved EXCEPT ![v][n] = profile] /\ prompted' = prompted
        BY <1>1, <2>4 DEF SaveProfile
      <3>2. vacancy[v] = page[p].seen /\ vacancy[v] \in Record /\ Exists(v)
        BY <2>1, <2>4 DEF StillSeen
      <3>3. /\ vacancy'[v].version = n /\ vacancy'[v].profile = profile
            /\ vacancy'[v].revision = vacancy[v].revision
        BY <2>1, <3>1, <3>2 DEF RowsInv, Record
      <3>4. \A m \in 1..MaxVersion : versions[v][m] # None <=> m <= n - 1
        BY <2>1, <3>2 DEF SavedIsKept, VersionsAreKept, Record
      <3>5. /\ versions'[v] = [versions[v] EXCEPT ![n] = profile]
            /\ saved'[v] = [saved[v] EXCEPT ![n] = profile]
        BY <2>1, <3>1 DEF RowsInv
      <3>6. \A m \in 1..MaxVersion : versions'[v][m] # None <=> m <= n
        BY <2>1, <2>2, <2>3, <3>4, <3>5 DEF RowsInv
      <3>7. versions'[v][n] = profile
        BY <2>1, <2>2, <3>5 DEF RowsInv
      <3>8. versions'[v] = saved'[v] /\ vacancy'[v].revision = prompted'[v]
        BY <2>1, <3>1, <3>2, <3>3, <3>5 DEF SavedIsKept
      <3>9. ASSUME NEW w \in Vacancy, w # v
            PROVE  /\ vacancy'[w] = vacancy[w] /\ versions'[w] = versions[w]
                   /\ saved'[w] = saved[w] /\ prompted'[w] = prompted[w]
        BY <2>1, <3>1, <3>9 DEF RowsInv
      <3> QED
        BY <3>3, <3>6, <3>7, <3>8, <3>9 DEF SavedIsKept, VersionsAreKept
    <2>5. CASE ~(StillSeen(p) /\ versions[v][n] = None)
      BY <1>1, <2>5 DEF SaveProfile, SavedIsKept, VersionsAreKept, profiles
    <2> QED
      BY <2>4, <2>5
  <1>2. ASSUME NEW p \in Page, SavePrompt(p) PROVE SavedIsKept'
    <2> DEFINE v == VacancyOf[p]
    <2>1. v \in Vacancy /\ page[p].seen \in Record
      BY <1>2, WritingRead DEF SavePrompt, VacancyAssumption
    <2>2. CASE StillSeen(p)
      <3>1. /\ vacancy' = [vacancy EXCEPT ![v] = [page[p].seen EXCEPT !.revision = @ + 1]]
            /\ prompted' = [prompted EXCEPT ![v] = @ + 1]
            /\ versions' = versions /\ saved' = saved
        BY <1>2, <2>2 DEF SavePrompt
      <3>2. vacancy[v] = page[p].seen /\ Exists(v)
        BY <2>1, <2>2 DEF StillSeen
      <3>3. /\ vacancy'[v].version = vacancy[v].version /\ vacancy'[v].profile = vacancy[v].profile
            /\ vacancy'[v].revision = prompted'[v]
        BY <2>1, <3>1, <3>2 DEF RowsInv, Record, SavedIsKept
      <3>4. ASSUME NEW w \in Vacancy, w # v
            PROVE  vacancy'[w] = vacancy[w] /\ prompted'[w] = prompted[w]
        BY <2>1, <3>1, <3>4 DEF RowsInv
      <3> QED
        BY <3>1, <3>2, <3>3, <3>4 DEF SavedIsKept, VersionsAreKept
    <2>3. CASE ~StillSeen(p)
      BY <1>2, <2>3 DEF SavePrompt, SavedIsKept, VersionsAreKept
    <2> QED
      BY <2>2, <2>3
  <1>3. ASSUME NEW v \in Vacancy, Archive(v) \/ Restore(v) PROVE SavedIsKept'
    <2>1. PICK b \in BOOLEAN : vacancy' = [vacancy EXCEPT ![v].archived = b]
      BY <1>3 DEF Archive, Restore
    <2>2. vacancy[v] \in Record /\ Exists(v)
      BY <1>3 DEF Archive, Restore, RowsInv
    <2>3. /\ vacancy'[v].version = vacancy[v].version /\ vacancy'[v].profile = vacancy[v].profile
          /\ vacancy'[v].revision = vacancy[v].revision
      BY <2>1, <2>2 DEF RowsInv, Record
    <2>4. \A w \in Vacancy : w # v => vacancy'[w] = vacancy[w]
      BY <2>1 DEF RowsInv
    <2>5. versions' = versions /\ saved' = saved /\ prompted' = prompted
      BY <1>3 DEF Archive, Restore, editing
    <2> QED
      BY <2>2, <2>3, <2>4, <2>5 DEF SavedIsKept, VersionsAreKept
  <1>4. ASSUME NEW v \in Vacancy, Delete(v) PROVE SavedIsKept'
    <2>1. /\ vacancy'[v] = None
          /\ \A w \in Vacancy : w # v => vacancy'[w] = vacancy[w] /\ versions'[w] = versions[w]
      BY <1>4 DEF Delete, RowsInv
    <2>2. saved' = saved /\ prompted' = prompted
      BY <1>4 DEF Delete, editing
    <2> QED
      BY <2>1, <2>2 DEF SavedIsKept, VersionsAreKept
  <1>5. ASSUME UNCHANGED <<profiles, saved, prompted>> PROVE SavedIsKept'
    BY <1>5 DEF SavedIsKept, VersionsAreKept, profiles
  <1> QED
    BY <1>1, <1>2, <1>3, <1>4, <1>5
    DEF Next, vars, editing, Open, ReadRecord, Leave, MoveFolder, ListVacancies, CheckTombstone,
        RegisterFolder, ReadVacancy, Interrupt, CreateGoal, ReadRules

(* However the requests of pages and the lifecycle commands are interleaved, *)
(* what was saved is in the record and among the versions.                  *)
THEOREM NothingSavedIsLost == Spec => []SavedIsKept
  BY TypeInit, TypeNext, SavedInit, SavedNext, PTL DEF Spec

(***************************************************************************)
(* A run has the prompt of its version.                                    *)
(***************************************************************************)

(* The vacancies' part of what is kept: no vacancy appears, no version is  *)
(* changed or taken away from one that exists.                             *)
VersionsGrow ==
    \A v \in Vacancy : vacancy'[v] # None =>
        /\ Exists(v) /\ vacancy[v].version <= vacancy'[v].version
        /\ \A n \in 1..MaxVersion : versions[v][n] # None => versions'[v][n] = versions[v][n]

LEMMA OnlyGrow == TypeInv /\ SavedIsKept /\ [Next]_vars => VersionsGrow
  <1> SUFFICES ASSUME RowsInv, SavedIsKept, [Next]_vars PROVE VersionsGrow
    BY DEF TypeInv
  <1>0. ASSUME NEW v \in Vacancy, Exists(v) PROVE vacancy[v].version \in Int
    BY <1>0 DEF RowsInv, Record
  <1>1. ASSUME NEW p \in Page, NEW prompt \in Page \union {Standard}, SaveProfile(p, prompt)
        PROVE  VersionsGrow
    <2> DEFINE v == VacancyOf[p]
    <2> DEFINE n == page[p].seen.version + 1
    <2> DEFINE profile == [text |-> p, prompt |-> prompt]
    <2>1. v \in Vacancy /\ page[p].seen \in Record
      BY <1>1, WritingRead DEF SaveProfile, VacancyAssumption
    <2>2. CASE StillSeen(p) /\ versions[v][n] = None
      <3>1. /\ vacancy' = [vacancy EXCEPT ![v] = [page[p].seen EXCEPT !.version = n, !.profile = profile]]
            /\ versions' = [versions EXCEPT ![v][n] = profile]
        BY <1>1, <2>2 DEF SaveProfile
      <3>2. vacancy[v] = page[p].seen /\ Exists(v) /\ vacancy'[v].version = n
        BY <2>1, <2>2, <3>1 DEF StillSeen, RowsInv, Record
      <3>3. versions'[v] = [versions[v] EXCEPT ![n] = profile]
        BY <2>1, <3>1 DEF RowsInv
      <3>4. \A m \in 1..MaxVersion : versions[v][m] # None => versions'[v][m] = versions[v][m]
        BY <2>1, <2>2, <3>3 DEF RowsInv
      <3>5. vacancy[v].version <= vacancy'[v].version
        BY <2>1, <3>2 DEF Record
      <3>6. ASSUME NEW w \in Vacancy, w # v PROVE vacancy'[w] = vacancy[w] /\ versions'[w] = versions[w]
        BY <2>1, <3>1, <3>6 DEF RowsInv
      <3> QED
        BY <1>0, <3>2, <3>4, <3>5, <3>6 DEF VersionsGrow
    <2>3. CASE ~(StillSeen(p) /\ versions[v][n] = None)
      BY <1>0, <1>1, <2>3 DEF SaveProfile, VersionsGrow, profiles
    <2> QED
      BY <2>2, <2>3
  <1>2. ASSUME NEW p \in Page, SavePrompt(p) PROVE VersionsGrow
    <2> DEFINE v == VacancyOf[p]
    <2>1. v \in Vacancy /\ page[p].seen \in Record
      BY <1>2, WritingRead DEF SavePrompt, VacancyAssumption
    <2>2. CASE StillSeen(p)
      <3>1. vacancy' = [vacancy EXCEPT ![v] = [page[p].seen EXCEPT !.revision = @ + 1]]
        BY <1>2, <2>2 DEF SavePrompt
      <3>2. Exists(v) /\ vacancy'[v].version = vacancy[v].version
        BY <2>1, <2>2, <3>1 DEF StillSeen, RowsInv, Record
      <3>3. \A w \in Vacancy : w # v => vacancy'[w] = vacancy[w]
        BY <3>1 DEF RowsInv
      <3>4. versions' = versions
        BY <1>2 DEF SavePrompt
      <3> QED
        BY <1>0, <3>2, <3>3, <3>4 DEF VersionsGrow
    <2>3. CASE ~StillSeen(p)
      BY <1>0, <1>2, <2>3 DEF SavePrompt, VersionsGrow
    <2> QED
      BY <2>2, <2>3
  <1>3. ASSUME NEW v \in Vacancy, Archive(v) \/ Restore(v) PROVE VersionsGrow
    <2>1. PICK b \in BOOLEAN : vacancy' = [vacancy EXCEPT ![v].archived = b]
      BY <1>3 DEF Archive, Restore
    <2>2. Exists(v) /\ vacancy'[v].version = vacancy[v].version
      BY <1>3, <2>1 DEF Archive, Restore, RowsInv, Record
    <2>3. \A w \in Vacancy : w # v => vacancy'[w] = vacancy[w]
      BY <2>1 DEF RowsInv
    <2>4. versions' = versions
      BY <1>3 DEF Archive, Restore
    <2> QED
      BY <1>0, <2>2, <2>3, <2>4 DEF VersionsGrow
  <1>4. ASSUME NEW v \in Vacancy, Delete(v) PROVE VersionsGrow
    <2>1. /\ vacancy'[v] = None
          /\ \A w \in Vacancy : w # v => vacancy'[w] = vacancy[w] /\ versions'[w] = versions[w]
      BY <1>4 DEF Delete, RowsInv
    <2> QED
      BY <1>0, <2>1 DEF VersionsGrow
  <1>5. ASSUME UNCHANGED profiles PROVE VersionsGrow
    BY <1>0, <1>5 DEF VersionsGrow, profiles
  <1> QED
    BY <1>1, <1>2, <1>3, <1>4, <1>5
    DEF Next, vars, Open, ReadRecord, Leave, MoveFolder, ListVacancies, CheckTombstone,
        RegisterFolder, ReadVacancy, Interrupt, CreateGoal, ReadRules

LEMMA PromptInit == Init => PromptInv
  BY DEF Init, PromptInv, VersionsExist, RunsHaveCandidate, PromptIsPinned

(* A step that takes no version and starts no run keeps the promise, as    *)
(* long as versions only grow.                                             *)
LEMMA PromptKept ==
    ASSUME TypeInv, TypeInv', SavedIsKept, PromptInv, VersionsGrow,
           enqueue' \in {None, enqueue},
           \A r \in Run : run'[r] \in {None, run[r]},
           \/ home' = home
           \/ \A r \in Run : run'[r] = None
    PROVE  PromptInv'
  <1>1. ASSUME NEW v \in Vacancy, vacancy'[v] # None
        PROVE  /\ Exists(v) /\ vacancy[v].version \in Int /\ vacancy'[v].version \in Int
               /\ vacancy[v].version <= vacancy'[v].version
    BY <1>1 DEF VersionsGrow, TypeInv, RowsInv, Record
  <1>2. enqueue' # None /\ Exists(enqueue.vacancy)' =>
            enqueue'.version <= vacancy'[enqueue'.vacancy].version
    <2> SUFFICES ASSUME enqueue' # None, vacancy'[enqueue'.vacancy] # None
                 PROVE  enqueue'.version <= vacancy'[enqueue'.vacancy].version
      OBVIOUS
    <2>1. enqueue' = enqueue /\ enqueue \in Row /\ enqueue.vacancy \in Vacancy /\ enqueue.version \in Int
      BY DEF TypeInv, WorkerInv, Row
    <2> QED
      BY <1>1, <2>1 DEF PromptInv, VersionsExist
  <1>3. ASSUME NEW r \in Run, run'[r] # None
        PROVE  /\ run'[r] = run[r] /\ run[r] \in Analysis /\ run[r].vacancy \in Vacancy
               /\ run[r].version \in 1..MaxVersion
    BY <1>3 DEF TypeInv, WorkerInv, Analysis
  <1>4. ASSUME NEW r \in Run, run'[r] # None, vacancy'[run'[r].vacancy] # None
        PROVE  run'[r].version <= vacancy'[run'[r].vacancy].version
    BY <1>1, <1>3, <1>4 DEF PromptInv, VersionsExist
  <1>5. VersionsExist'
    BY <1>2, <1>4 DEF VersionsExist
  <1>6. RunsHaveCandidate'
    BY DEF PromptInv, RunsHaveCandidate
  <1>7. ASSUME NEW r \in Run, run'[r] # None, run'[r].vacancy = home', vacancy'[home'] # None
        PROVE  run'[r].prompt = versions'[home'][run'[r].version].prompt
    <2>1. home' = home /\ run'[r] = run[r] /\ run[r].vacancy = home /\ home \in Vacancy
      BY <1>3, <1>7
    <2>2. Exists(home) /\ run[r].version <= vacancy[home].version
      BY <1>1, <1>3, <1>7, <2>1 DEF PromptInv, VersionsExist
    <2>3. versions[home][run[r].version] # None
      BY <1>3, <1>7, <2>1, <2>2 DEF SavedIsKept, VersionsAreKept
    <2>4. versions'[home][run[r].version] = versions[home][run[r].version]
      BY <1>3, <1>7, <2>1, <2>3 DEF VersionsGrow
    <2> QED
      BY <1>7, <2>1, <2>2, <2>4 DEF PromptInv, PromptIsPinned
  <1>8. PromptIsPinned'
    BY <1>7 DEF PromptIsPinned
  <1> QED
    BY <1>5, <1>6, <1>8 DEF PromptInv

LEMMA PromptNext == TypeInv /\ SavedIsKept /\ PromptInv /\ [Next]_vars => PromptInv'
  <1> SUFFICES ASSUME TypeInv, SavedIsKept, PromptInv, [Next]_vars PROVE PromptInv'
    OBVIOUS
  <1>0. TypeInv' /\ VersionsGrow
    BY TypeNext, OnlyGrow
  <1>1. ASSUME ReadVacancy PROVE PromptInv'
    <2>1. bound \in Vacancy /\ vacancy[bound] \in Record
      BY <1>1 DEF ReadVacancy, TypeInv, RowsInv, WorkerInv
    <2>2. /\ enqueue' = [vacancy |-> bound, version |-> vacancy[bound].version]
          /\ vacancy' = vacancy /\ versions' = versions /\ run' = run /\ home' = home
      BY <1>1 DEF ReadVacancy, profiles, candidate, analysis
    <2>3. enqueue'.version <= vacancy'[enqueue'.vacancy].version
      BY <2>1, <2>2 DEF Record
    <2>4. VersionsExist'
      BY <2>2, <2>3 DEF PromptInv, VersionsExist
    <2> QED
      BY <2>2, <2>4 DEF PromptInv, RunsHaveCandidate, PromptIsPinned
  <1>2. ASSUME NEW r \in Run, CreateGoal(r), home # None PROVE PromptInv'
    <2> DEFINE new == [vacancy |-> enqueue.vacancy, version |-> enqueue.version,
                       prompt |-> PinnedPrompt(home, enqueue.version)]
    <2>1. /\ run' = [run EXCEPT ![r] = new] /\ enqueue' = None
          /\ vacancy' = vacancy /\ versions' = versions /\ home' = home
      BY <1>2 DEF CreateGoal, profiles, candidate
    <2>2. /\ enqueue # None /\ enqueue \in Row /\ enqueue.vacancy \in Vacancy
          /\ enqueue.version \in 1..MaxVersion
      BY <1>2 DEF CreateGoal, TypeInv, WorkerInv, Row
    <2>3. run'[r] = new /\ \A q \in Run : q # r => run'[q] = run[q]
      BY <2>1 DEF TypeInv, WorkerInv
    <2>4. Exists(enqueue.vacancy) => enqueue.version <= vacancy[enqueue.vacancy].version
      BY <2>2 DEF PromptInv, VersionsExist
    <2>5. VersionsExist'
      BY <2>1, <2>3, <2>4 DEF PromptInv, VersionsExist
    <2>6. ASSUME enqueue.vacancy = home, Exists(home)
          PROVE  new.prompt = versions[home][enqueue.version].prompt
      <3>1. versions[home][enqueue.version] # None
        BY <2>2, <2>4, <2>6 DEF SavedIsKept, VersionsAreKept
      <3> QED
        BY <3>1 DEF PinnedPrompt
    <2>7. PromptIsPinned'
      BY <2>1, <2>3, <2>6 DEF PromptInv, PromptIsPinned
    <2> QED
      BY <1>2, <2>1, <2>5, <2>7 DEF PromptInv, RunsHaveCandidate
  <1>3. ASSUME NEW r \in Run, CreateGoal(r), home = None PROVE PromptInv'
    <2>1. run' = run /\ home' = home /\ enqueue' = None
      BY <1>3 DEF CreateGoal, candidate
    <2> QED
      BY <1>0, <2>1, PromptKept
  <1>4. ASSUME RegisterFolder PROVE PromptInv'
    <2>1. run' = run /\ enqueue' = enqueue
      BY <1>4 DEF RegisterFolder, analysis
    <2>2. home' = home \/ home = None
      BY <1>4 DEF RegisterFolder
    <2>3. home = None => \A r \in Run : run'[r] = None
      BY <2>1 DEF PromptInv, RunsHaveCandidate
    <2> QED
      BY <1>0, <2>1, <2>2, <2>3, PromptKept
  <1>5. ASSUME NEW v \in Vacancy, Delete(v) PROVE PromptInv'
    <2>1. enqueue' = enqueue
      BY <1>5 DEF Delete, worker
    <2>2. CASE home = v
      <3>1. \A r \in Run : run'[r] = None
        BY <1>5, <2>2 DEF Delete
      <3> QED
        BY <1>0, <2>1, <3>1, PromptKept
    <2>3. CASE home # v
      <3>1. home' = home /\ run' = run
        BY <1>5, <2>3 DEF Delete, candidate, analysis
      <3> QED
        BY <1>0, <2>1, <3>1, PromptKept
    <2> QED
      BY <2>2, <2>3
  <1>6. ASSUME home' = home, run' = run, enqueue' \in {None, enqueue} PROVE PromptInv'
    BY <1>0, <1>6, PromptKept
  <1> QED
    BY <1>1, <1>2, <1>3, <1>4, <1>5, <1>6
    DEF Next, vars, candidate, worker, analysis, Open, ReadRecord, SaveProfile, SavePrompt, Leave,
        Archive, Restore, MoveFolder, ListVacancies, CheckTombstone, Interrupt, ReadRules

(* Though the version is read before the run is created and the profile    *)
(* may be edited in between, and afterwards, a run has the prompt that its *)
(* version had.                                                            *)
THEOREM PromptStaysPinned == Spec => []PromptIsPinned
  <1>1. TypeInv /\ SavedIsKept /\ PromptInv /\ [Next]_vars => (TypeInv /\ SavedIsKept /\ PromptInv)'
    BY TypeNext, SavedNext, PromptNext
  <1>2. PromptInv => PromptIsPinned
    BY DEF PromptInv
  <1> QED
    BY <1>1, <1>2, TypeInit, SavedInit, PromptInit, PTL DEF Spec

=============================================================================
