-------------------------- MODULE PublicationProofs --------------------------
(***************************************************************************)
(* Theorems about what is done on Google Drive, for any number of          *)
(* executions, objects, processes and grants: Publication, and at the end  *)
(* DriveConnection, which every call to Drive depends on.  The two share   *)
(* no variable.                                                            *)
(***************************************************************************)
EXTENDS Publication, DriveConnection, FiniteSetTheorems, TLAPS

(* The folder an object belongs into.                                      *)
FolderOf(i) == IF i = Results THEN NoObject ELSE registered[i - 1]

(* Objects are numbered as they are created.                               *)
Numbered == \E k \in 0..MaxObject : DOMAIN drive = 1..k

(* An execution is about an object whose folder is registered.             *)
Placed ==
    \A e \in Execution :
        parent[e] = FolderOf(item[e]) /\ (item[e] # Results => parent[e] # NoObject)

(* What is registered under an identity is on the Drive, in its folder.    *)
RegisteredOnDrive ==
    \A i \in Item : registered[i] # NoObject =>
        /\ registered[i] \in DOMAIN drive
        /\ drive[registered[i]].item = i /\ drive[registered[i]].parent = FolderOf(i)
        /\ i # Results => FolderOf(i) # NoObject

(* So is what an execution is about to register.                           *)
SeenOnDrive ==
    \A e \in Execution : step[e] \in {"adopt", "register"} =>
        /\ seen[e] \in DOMAIN drive
        /\ drive[seen[e]].item = item[e] /\ drive[seen[e]].parent = parent[e]

(* The file that is recorded is the registered one, and it is recorded     *)
(* before the version is published.                                        *)
RegisteredIsRecorded ==
    /\ \A e \in Execution : step[e] \in {"record", "publish"} =>
          seen[e] = registered[Report] /\ seen[e] # NoObject
    /\ document # NoObject => document = registered[Report]
    /\ \A e \in Execution : step[e] = "publish" => document # NoObject
    /\ version = "PUBLISHED" => document # NoObject /\ candidate = "READY"

(* An execution that holds the lease creates what nobody has created under *)
(* the lease before: it has looked, and the others are late.               *)
CreatesFirst ==
    \A e \in Execution : step[e] = "create" /\ lease = e =>
        \A x \in Found(item[e], parent[e]) : drive[x].late

ObjectInv == TypeOK /\ Numbered /\ Placed /\ RegisteredOnDrive /\ SeenOnDrive
PublicationInv == ObjectInv /\ RegisteredIsRecorded /\ CreatesFirst /\ CopiesAreLate

-----------------------------------------------------------------------------
(* Type correctness *)

LEMMA InitTyped == Init => TypeOK
BY PublicationAssumption
DEF PublicationAssumption, Init, TypeOK, Execution, Object, MaybeObject, Item, Results, NoObject, Step

(* What is found of one identity is no more than what is on the Drive.     *)
LEMMA FoundObjects ==
    ASSUME TypeOK, NEW i, NEW folder
    PROVE  /\ Found(i, folder) \subseteq Object /\ IsFiniteSet(Found(i, folder))
           /\ Cardinality(Found(i, folder)) = 1 => Found(i, folder) # {}
<1>1. Found(i, folder) \subseteq Object
  BY DEF Found, TypeOK
<1>2. IsFiniteSet(Found(i, folder))
  <2>1. IsFiniteSet(Object)
    BY FS_Interval, PublicationAssumption DEF Object, PublicationAssumption
  <2> QED
    BY <1>1, <2>1, FS_Subset
<1> QED
  BY <1>1, <1>2, FS_EmptySet

(* An execution sees the registered object, or the only one on the Drive.  *)
LEMMA LookedUp ==
    ASSUME TypeOK, NEW e \in Execution, NEW otherwise \in Step, Lookup(e, otherwise)
    PROVE  /\ \/ /\ step' = [step EXCEPT ![e] = "adopt"]
                 /\ \E x \in Object :
                       /\ seen' = [seen EXCEPT ![e] = x]
                       /\ IF registered[item[e]] # NoObject THEN x = registered[item[e]]
                          ELSE x \in Found(item[e], parent[e])
              \/ /\ step' = [step EXCEPT ![e] = otherwise]
                 /\ Found(item[e], parent[e]) = {} /\ registered[item[e]] = NoObject
                 /\ seen' = [seen EXCEPT ![e] = NoObject]
              \/ /\ step' = [step EXCEPT ![e] = "failed"]
                 /\ seen' = [seen EXCEPT ![e] = NoObject]
           /\ UNCHANGED <<task, item, parent, drive, registered, report>>
<1> DEFINE found == IF registered[item[e]] # NoObject THEN {registered[item[e]]}
                    ELSE Found(item[e], parent[e])
<1>1. /\ seen' = [seen EXCEPT ![e] = IF Cardinality(found) = 1 THEN CHOOSE x \in found : TRUE ELSE NoObject]
      /\ Goto(e, IF found = {} THEN otherwise ELSE IF Cardinality(found) = 1 THEN "adopt" ELSE "failed")
      /\ UNCHANGED <<task, item, parent, drive, registered, report>>
  BY DEF Lookup
<1>2. found \subseteq Object /\ (Cardinality(found) = 1 => found # {})
  <2>1. CASE registered[item[e]] # NoObject
    <3>1. registered[item[e]] \in Object
      BY <2>1 DEF TypeOK, MaybeObject
    <3> QED
      BY <2>1, <3>1
  <2>2. CASE registered[item[e]] = NoObject
    BY <2>2, FoundObjects
  <2> QED
    BY <2>1, <2>2
<1>3. CASE found = {}
  <2>1. registered[item[e]] = NoObject /\ Found(item[e], parent[e]) = {} /\ Cardinality(found) # 1
    BY <1>2, <1>3
  <2> QED
    BY <1>1, <1>3, <2>1 DEF Goto
<1>4. CASE found # {} /\ Cardinality(found) = 1
  <2>1. (CHOOSE x \in found : TRUE) \in found
    BY <1>4
  <2>2. step' = [step EXCEPT ![e] = "adopt"] /\ seen' = [seen EXCEPT ![e] = CHOOSE x \in found : TRUE]
    BY <1>1, <1>4 DEF Goto
  <2>3. PICK x \in found : seen' = [seen EXCEPT ![e] = x]
    BY <2>1, <2>2
  <2>4. x \in Object /\ IF registered[item[e]] # NoObject THEN x = registered[item[e]]
                        ELSE x \in Found(item[e], parent[e])
    BY <1>2, <2>3
  <2> HIDE DEF found
  <2> QED
    BY <1>1, <2>2, <2>3, <2>4
<1>5. CASE found # {} /\ Cardinality(found) # 1
  <2> HIDE DEF found
  <2> QED
    BY <1>1, <1>5 DEF Goto
<1> QED
  BY <1>3, <1>4, <1>5

(* A step of one execution leaves the others where they are. *)
StepOf(e) ==
    \/ Claim(e) \/ Crash(e) \/ ReportOutcome(e)
    \/ Reconcile(e) \/ Prepare(e) \/ Find(e) \/ Create(e) \/ Register(e) \/ Recover(e)
    \/ Record(e) \/ Publish(e)

LEMMA OthersStay ==
    ASSUME TypeOK, [Next]_vars, NEW e \in Execution, ~StepOf(e)
    PROVE  step'[e] = step[e] /\ item'[e] = item[e] /\ parent'[e] = parent[e] /\ seen'[e] = seen[e]
<1> USE DEF task, executions, report, Goto
<1>1. ASSUME NEW f \in Execution, f # e, StepOf(f)
      PROVE  step'[e] = step[e] /\ item'[e] = item[e] /\ parent'[e] = parent[e] /\ seen'[e] = seen[e]
  BY <1>1 DEF StepOf, Claim, Crash, ReportOutcome, Reconcile, Prepare, Find, Recover, Lookup, Record,
              Publish, Create, Register, Advance, TypeOK
<1>2. ASSUME Expire \/ ListChildren \/ UNCHANGED vars
      PROVE  step'[e] = step[e] /\ item'[e] = item[e] /\ parent'[e] = parent[e] /\ seen'[e] = seen[e]
  BY <1>2 DEF Expire, ListChildren, vars
<1> QED
  BY <1>1, <1>2 DEF Next, StepOf

LEMMA StepTyped == TypeOK /\ [Next]_vars => TypeOK'
<1> SUFFICES ASSUME TypeOK, [Next]_vars PROVE TypeOK'
  OBVIOUS
<1> USE DEF TypeOK, task, executions, report, Goto, At
<1>0. /\ NoObject \in MaybeObject /\ Object \subseteq MaybeObject
      /\ Report \in Item /\ \A i \in Item : i # Report => i + 1 \in Item
      /\ Execution \subseteq 0..MaxExecution /\ 0 \in 0..MaxExecution
      /\ {"reconcile", "prepare", "find", "adopt", "create", "register", "recover",
          "record", "publish", "done", "failed", "ended"} \subseteq Step
  BY PublicationAssumption
  DEF PublicationAssumption, MaybeObject, Report, Item, Execution, Step
<1>1. ASSUME NEW e \in Execution, Claim(e) PROVE TypeOK'
  BY <1>0, <1>1 DEF Claim
<1>2. CASE Expire
  BY <1>0, <1>2 DEF Expire
<1>3. ASSUME NEW e \in Execution, Crash(e) PROVE TypeOK'
  BY <1>0, <1>3 DEF Crash
<1>4. ASSUME NEW e \in Execution, ReportOutcome(e) PROVE TypeOK'
  BY <1>0, <1>4 DEF ReportOutcome
<1>5. ASSUME NEW e \in Execution, Reconcile(e) PROVE TypeOK'
  BY <1>0, <1>5 DEF Reconcile
<1>6. ASSUME NEW e \in Execution, Prepare(e) PROVE TypeOK'
  BY <1>0, <1>6 DEF Prepare
<1>7. ASSUME NEW e \in Execution, NEW otherwise \in Step, Lookup(e, otherwise) PROVE TypeOK'
  BY <1>0, <1>7, LookedUp
<1>8. ASSUME NEW e \in Execution, Create(e) PROVE TypeOK'
  <2>1. PICK x \in Object :
           /\ \/ Created(e, x) /\ Goto(e, "register") /\ seen' = [seen EXCEPT ![e] = x]
              \/ Created(e, x) /\ Goto(e, "recover") /\ UNCHANGED seen
              \/ Goto(e, "recover") /\ UNCHANGED <<drive, seen>>
           /\ UNCHANGED <<task, item, parent, registered, report>>
    BY <1>8 DEF Create
  <2>2. /\ DOMAIN drive' \subseteq Object
        /\ \A y \in DOMAIN drive' : drive'[y] \in [item : Item, parent : MaybeObject, late : BOOLEAN]
    <3>1. CASE UNCHANGED drive
      BY <3>1
    <3>2. CASE Created(e, x)
      <4>1. (lease # e) \in BOOLEAN
        OBVIOUS
      <4>2. [item |-> item[e], parent |-> parent[e], late |-> lease # e]
               \in [item : Item, parent : MaybeObject, late : BOOLEAN]
        BY <4>1
      <4> QED
        BY <3>2, <4>2 DEF Created
    <3> QED
      BY <2>1, <3>1, <3>2
  <2>3. seen' \in [Execution -> MaybeObject] /\ step' \in [Execution -> Step]
    BY <1>0, <2>1
  <2> QED
    BY <2>1, <2>2, <2>3
<1>9. ASSUME NEW e \in Execution, Register(e) PROVE TypeOK'
  <2>1. registered' \in [Item -> MaybeObject] /\ step' \in [Execution -> Step]
    BY <1>0, <1>9 DEF Register, Advance
  <2>2. item' \in [Execution -> Item] /\ parent' \in [Execution -> MaybeObject]
    BY <1>0, <1>9 DEF Register, Advance
  <2> QED
    BY <1>9, <2>1, <2>2 DEF Register
<1>10. ASSUME NEW e \in Execution, Record(e) PROVE TypeOK'
  BY <1>0, <1>10 DEF Record
<1>11. ASSUME NEW e \in Execution, Publish(e) PROVE TypeOK'
  BY <1>0, <1>11 DEF Publish
<1>12. CASE ListChildren
  BY <1>0, <1>12 DEF ListChildren, Found
<1>13. CASE UNCHANGED vars
  BY <1>13 DEF vars
<1> QED
  BY <1>0, <1>1, <1>2, <1>3, <1>4, <1>5, <1>6, <1>7, <1>8, <1>9, <1>10, <1>11, <1>12, <1>13
  DEF Next, Find, Recover

-----------------------------------------------------------------------------
(* Objects *)

(* Nothing that is on the Drive or registered changes any more.            *)
Kept ==
    /\ \A x \in DOMAIN drive : x \in DOMAIN drive' /\ drive'[x] = drive[x]
    /\ \A i \in Item : registered[i] # NoObject => registered'[i] = registered[i]

(* A new object gets a number of its own.                                  *)
LEMMA NextNumber ==
    ASSUME Numbered, NEW x \in Object, x = Cardinality(DOMAIN drive) + 1
    PROVE  /\ x \notin DOMAIN drive
           /\ \E k \in 0..MaxObject : DOMAIN drive \union {x} = 1..k
<1>1. PICK k \in 0..MaxObject : DOMAIN drive = 1..k
  BY DEF Numbered
<1>2. Cardinality(1..k) = k
  BY FS_Interval
<1>3. x = k + 1 /\ k \in Nat
  BY <1>1, <1>2
<1>4. k + 1 \in 0..MaxObject /\ (1..k) \union {k + 1} = 1..(k + 1)
  BY <1>3 DEF Object
<1> QED
  BY <1>1, <1>3, <1>4

LEMMA StepNumbered == ObjectInv /\ [Next]_vars => Numbered' /\ Kept
<1> SUFFICES ASSUME ObjectInv, [Next]_vars PROVE Numbered' /\ Kept
  OBVIOUS
<1>1. ASSUME UNCHANGED drive, UNCHANGED registered PROVE Numbered' /\ Kept
  BY <1>1 DEF Numbered, Kept, ObjectInv
<1>2. ASSUME NEW e \in Execution,
             \/ Claim(e) \/ Crash(e) \/ ReportOutcome(e) \/ Reconcile(e) \/ Prepare(e)
             \/ Find(e) \/ Recover(e) \/ Record(e) \/ Publish(e)
      PROVE  Numbered' /\ Kept
  BY <1>1, <1>2 DEF Claim, Crash, ReportOutcome, Reconcile, Prepare, Find, Recover, Lookup, Record, Publish
<1>3. ASSUME NEW e \in Execution, Create(e) PROVE Numbered' /\ Kept
  <2>1. PICK x \in Object : x = Cardinality(DOMAIN drive) + 1 /\ (Created(e, x) \/ UNCHANGED drive)
    BY <1>3 DEF Create
  <2>2. UNCHANGED registered
    BY <1>3 DEF Create
  <2>3. ASSUME Created(e, x) PROVE Numbered' /\ Kept
    <3>1. x \notin DOMAIN drive /\ \E k \in 0..MaxObject : DOMAIN drive \union {x} = 1..k
      BY <2>1, NextNumber DEF ObjectInv
    <3>2. DOMAIN drive' = DOMAIN drive \union {x} /\ \A y \in DOMAIN drive : drive'[y] = drive[y]
      BY <2>3, <3>1 DEF Created
    <3> QED
      BY <2>2, <3>1, <3>2 DEF Numbered, Kept
  <2> QED
    BY <1>1, <2>1, <2>2, <2>3
<1>4. ASSUME NEW e \in Execution, Register(e) PROVE Numbered' /\ Kept
  BY <1>4 DEF Register, Numbered, Kept, ObjectInv, TypeOK
<1>5. CASE Expire
  BY <1>1, <1>5 DEF Expire
<1>6. CASE ListChildren
  BY <1>6 DEF ListChildren, Numbered, Kept, ObjectInv, TypeOK
<1>7. CASE UNCHANGED vars
  BY <1>1, <1>7 DEF vars
<1> QED
  BY <1>2, <1>3, <1>4, <1>5, <1>6, <1>7 DEF Next

(* Folders that are registered stay, so executions stay placed.            *)
LEMMA StepPlaced == ObjectInv /\ [Next]_vars => Placed'
<1> SUFFICES ASSUME ObjectInv, [Next]_vars, NEW e \in Execution
             PROVE  /\ parent'[e] = FolderOf(item[e])'
                    /\ item'[e] # Results => parent'[e] # NoObject
  BY DEF Placed, FolderOf
<1>0. /\ TypeOK /\ Kept
      /\ parent[e] = FolderOf(item[e]) /\ (item[e] # Results => parent[e] # NoObject)
  BY StepNumbered DEF ObjectInv, Placed
<1>1. CASE item'[e] = item[e] /\ parent'[e] = parent[e]
  BY <1>0, <1>1 DEF FolderOf, Kept, TypeOK, Item, Results
<1>2. CASE Register(e) /\ item[e] # Report /\ registered[item[e]] \in {NoObject, seen[e]}
  <2>1. /\ item' = [item EXCEPT ![e] = @ + 1] /\ parent' = [parent EXCEPT ![e] = seen[e]]
        /\ registered' = [registered EXCEPT ![item[e]] = seen[e]]
        /\ step[e] \in {"adopt", "register"}
    BY <1>2 DEF Register, Advance
  <2>2. seen[e] # NoObject
    BY <2>1 DEF ObjectInv, SeenOnDrive, TypeOK, Object, NoObject
  <2>3. /\ item'[e] = item[e] + 1 /\ parent'[e] = seen[e] /\ registered'[item[e]] = seen[e]
        /\ item[e] \in {1, 2}
    BY <1>0, <1>2, <2>1 DEF TypeOK, Item, Report
  <2> QED
    BY <2>2, <2>3 DEF FolderOf, Results
<1>3. ~(Register(e) /\ item[e] # Report /\ registered[item[e]] \in {NoObject, seen[e]})
         => item'[e] = item[e] /\ parent'[e] = parent[e]
  <2> USE DEF task, executions, report
  <2>1. CASE ~StepOf(e)
    BY <1>0, <2>1, OthersStay
  <2>2. CASE Register(e)
    BY <2>2 DEF Register, Advance
  <2>3. CASE StepOf(e) /\ ~Register(e)
    BY <2>3 DEF StepOf, Claim, Crash, ReportOutcome, Reconcile, Prepare, Find, Recover, Lookup, Record,
                Publish, Create
  <2> QED
    BY <2>1, <2>2, <2>3
<1> QED
  BY <1>1, <1>2, <1>3

(* What an execution sees when it is about to register it.                 *)
LEMMA StepSeen == ObjectInv /\ [Next]_vars => SeenOnDrive'
<1> SUFFICES ASSUME ObjectInv, [Next]_vars, NEW e \in Execution, step'[e] \in {"adopt", "register"}
             PROVE  /\ seen'[e] \in DOMAIN drive'
                    /\ drive'[seen'[e]].item = item'[e] /\ drive'[seen'[e]].parent = parent'[e]
  BY DEF SeenOnDrive
<1> USE DEF task, executions, report, Goto, At
<1>0. TypeOK /\ Kept
  BY StepNumbered DEF ObjectInv
<1>1. CASE /\ step[e] \in {"adopt", "register"}
           /\ seen'[e] = seen[e] /\ item'[e] = item[e] /\ parent'[e] = parent[e]
  BY <1>0, <1>1 DEF ObjectInv, SeenOnDrive, Kept
<1>2. ASSUME NEW otherwise \in Step, Lookup(e, otherwise), otherwise \in {"create", "failed"}
      PROVE  /\ seen'[e] \in DOMAIN drive'
             /\ drive'[seen'[e]].item = item'[e] /\ drive'[seen'[e]].parent = parent'[e]
  <2>1. UNCHANGED <<item, parent, drive>>
    BY <1>2 DEF Lookup
  <2>2. \E x \in Object :
           /\ seen' = [seen EXCEPT ![e] = x]
           /\ IF registered[item[e]] # NoObject THEN x = registered[item[e]]
              ELSE x \in Found(item[e], parent[e])
    BY <1>0, <1>2, LookedUp DEF TypeOK
  <2>3. PICK x \in Object :
           /\ seen' = [seen EXCEPT ![e] = x]
           /\ IF registered[item[e]] # NoObject THEN x = registered[item[e]]
              ELSE x \in Found(item[e], parent[e])
    BY <2>2
  <2>4. x \in DOMAIN drive /\ drive[x].item = item[e] /\ drive[x].parent = parent[e]
    BY <1>0, <2>3 DEF Found, ObjectInv, RegisteredOnDrive, Placed, TypeOK
  <2>5. seen'[e] = x
    BY <1>0, <2>3 DEF TypeOK
  <2> QED
    BY <2>1, <2>4, <2>5
<1>3. ASSUME Create(e)
      PROVE  /\ seen'[e] \in DOMAIN drive'
             /\ drive'[seen'[e]].item = item'[e] /\ drive'[seen'[e]].parent = parent'[e]
  <2>1. PICK x \in Object : Created(e, x) /\ seen' = [seen EXCEPT ![e] = x]
    BY <1>0, <1>3 DEF Create, TypeOK
  <2>2. /\ x \in DOMAIN drive' /\ drive'[x].item = item[e] /\ drive'[x].parent = parent[e]
    BY <2>1 DEF Created
  <2> QED
    BY <1>0, <1>3, <2>1, <2>2 DEF Create, TypeOK
<1>4. ~StepOf(e) => /\ step[e] \in {"adopt", "register"}
                    /\ seen'[e] = seen[e] /\ item'[e] = item[e] /\ parent'[e] = parent[e]
  BY <1>0, OthersStay
<1>5. ~(\/ Claim(e) \/ Crash(e) \/ ReportOutcome(e) \/ Reconcile(e) \/ Prepare(e)
        \/ Record(e) \/ Publish(e) \/ Register(e))
  BY <1>0 DEF Claim, Crash, ReportOutcome, Reconcile, Prepare, Record, Publish, Register, Advance, TypeOK
<1>6. Find(e) => Lookup(e, "create")
  BY DEF Find
<1>7. Recover(e) => Lookup(e, "failed")
  BY DEF Recover
<1>8. {"create", "failed"} \subseteq Step
  BY DEF Step
<1> QED
  BY <1>1, <1>2, <1>3, <1>4, <1>5, <1>6, <1>7, <1>8 DEF StepOf

(* What is registered is on the Drive, and its folder was before it.       *)
LEMMA StepRegistered == ObjectInv /\ [Next]_vars => RegisteredOnDrive'
<1> SUFFICES ASSUME ObjectInv, [Next]_vars, NEW i \in Item, registered'[i] # NoObject
             PROVE  /\ registered'[i] \in DOMAIN drive'
                    /\ drive'[registered'[i]].item = i
                    /\ drive'[registered'[i]].parent = FolderOf(i)'
                    /\ i # Results => FolderOf(i)' # NoObject
  BY DEF RegisteredOnDrive, FolderOf
<1> USE DEF task, executions, report
<1>0. TypeOK /\ Kept
  BY StepNumbered DEF ObjectInv
<1>1. \/ FolderOf(i) = NoObject /\ i # Results
      \/ FolderOf(i)' = FolderOf(i)
  BY <1>0 DEF Kept, FolderOf, Item, Results
<1>2. CASE registered[i] # NoObject
  BY <1>0, <1>1, <1>2 DEF ObjectInv, RegisteredOnDrive, Kept
<1>3. ASSUME NEW e \in Execution, Register(e), registered[i] = NoObject
      PROVE  \E x \in DOMAIN drive :
                /\ registered' = [registered EXCEPT ![i] = x]
                /\ drive[x].item = i /\ drive[x].parent = FolderOf(i)
                /\ i # Results => FolderOf(i) # NoObject
  <2>1. registered' = [registered EXCEPT ![item[e]] = seen[e]] /\ step[e] \in {"adopt", "register"}
    BY <1>3 DEF Register
  <2>2. item[e] = i
    BY <1>0, <1>3, <2>1 DEF TypeOK
  <2> QED
    BY <2>1, <2>2 DEF ObjectInv, SeenOnDrive, Placed
<1>4. ASSUME ListChildren, registered[i] = NoObject
      PROVE  \E x \in DOMAIN drive :
                /\ registered' = [registered EXCEPT ![i] = x]
                /\ drive[x].item = i /\ drive[x].parent = FolderOf(i)
                /\ i # Results => FolderOf(i) # NoObject
  BY <1>0, <1>4 DEF ListChildren, Found, FolderOf, TypeOK
<1>5. ASSUME NEW e \in Execution,
             \/ Claim(e) \/ Crash(e) \/ ReportOutcome(e) \/ Reconcile(e) \/ Prepare(e)
             \/ Find(e) \/ Recover(e) \/ Record(e) \/ Publish(e) \/ Create(e)
      PROVE  registered' = registered
  BY <1>5 DEF Claim, Crash, ReportOutcome, Reconcile, Prepare, Find, Recover, Lookup, Record,
              Publish, Create
<1>6. Expire \/ UNCHANGED vars => registered' = registered
  BY DEF Expire, vars
<1>7. CASE registered[i] = NoObject
  <2>1. \E x \in DOMAIN drive :
                /\ registered' = [registered EXCEPT ![i] = x]
                /\ drive[x].item = i /\ drive[x].parent = FolderOf(i)
                /\ i # Results => FolderOf(i) # NoObject
    BY <1>3, <1>4, <1>5, <1>6, <1>7 DEF Next
  <2>2. PICK x \in DOMAIN drive :
                /\ registered' = [registered EXCEPT ![i] = x]
                /\ drive[x].item = i /\ drive[x].parent = FolderOf(i)
                /\ i # Results => FolderOf(i) # NoObject
    BY <2>1
  <2>3. registered'[i] = x
    BY <1>0, <2>2 DEF TypeOK
  <2>4. x \in DOMAIN drive' /\ drive'[x] = drive[x]
    BY <1>0 DEF Kept
  <2>5. FolderOf(i)' = FolderOf(i)
    BY <1>1, <2>2
  <2> QED
    BY <2>2, <2>3, <2>4, <2>5
<1> QED
  BY <1>2, <1>7

LEMMA StepObjects == ObjectInv /\ [Next]_vars => ObjectInv'
BY StepTyped, StepNumbered, StepPlaced, StepSeen, StepRegistered DEF ObjectInv

-----------------------------------------------------------------------------
(* Reports *)

(* The file that is recorded is the registered one.                        *)
LEMMA StepRecorded ==
    ObjectInv /\ RegisteredIsRecorded /\ [Next]_vars => RegisteredIsRecorded'
<1> SUFFICES ASSUME ObjectInv, RegisteredIsRecorded, [Next]_vars PROVE RegisteredIsRecorded'
  OBVIOUS
<1> USE DEF task, executions, report, Goto, At
<1> DEFINE Recording(e) == step[e] \in {"record", "publish"} =>
                              seen[e] = registered[Report] /\ seen[e] # NoObject
           Recorded(e) == step[e] = "publish" => document # NoObject
<1>0. TypeOK /\ Kept /\ Report \in Item
  BY StepNumbered DEF ObjectInv, Item, Report
<1>1. ASSUME NEW e \in Execution, step'[e] \in {"record", "publish"}
      PROVE  seen'[e] = registered'[Report] /\ seen'[e] # NoObject
  <2>1. CASE step[e] \in {"record", "publish"} /\ seen'[e] = seen[e]
    BY <1>0, <2>1 DEF RegisteredIsRecorded, Kept
  <2>2. CASE Reconcile(e)
    BY <1>0, <1>1, <2>2 DEF Reconcile, TypeOK, RegisteredIsRecorded
  <2>3. CASE Register(e)
    <3>1. item[e] = Report /\ registered' = [registered EXCEPT ![Report] = seen[e]]
          /\ seen' = seen /\ step[e] \in {"adopt", "register"}
      BY <1>0, <1>1, <2>3 DEF Register, Advance, TypeOK
    <3>2. seen[e] # NoObject
      BY <3>1 DEF ObjectInv, SeenOnDrive, TypeOK, Object, NoObject
    <3> QED
      BY <1>0, <3>1, <3>2 DEF TypeOK
  <2>4. CASE Record(e)
    BY <1>0, <1>1, <2>1, <2>4 DEF Record, TypeOK
  <2>5. CASE ~StepOf(e)
    BY <1>0, <1>1, <2>1, <2>5, OthersStay
  <2>6. ~(\/ Claim(e) \/ Crash(e) \/ ReportOutcome(e) \/ Prepare(e) \/ Publish(e) \/ Create(e))
    BY <1>0, <1>1 DEF Claim, Crash, ReportOutcome, Prepare, Publish, Create, TypeOK
  <2>7. ~(Find(e) \/ Recover(e))
    BY <1>0, <1>1 DEF Find, Recover, Lookup, TypeOK
  <2> QED
    BY <2>2, <2>3, <2>4, <2>5, <2>6, <2>7 DEF StepOf
<1>2. /\ document # NoObject => document' = document
      /\ document' # NoObject => document' = registered[Report]
      /\ \A e \in Execution : step[e] = "record" /\ Record(e) => document' # NoObject
  BY <1>0 DEF Next, vars, Claim, Crash, ReportOutcome, Reconcile, Prepare, Find, Recover, Lookup,
              Record, Publish, Create, Register, Expire, ListChildren, RegisteredIsRecorded
<1>3. ASSUME NEW e \in Execution, step'[e] = "publish" PROVE document' # NoObject
  <2>1. CASE step[e] = "publish"
    BY <1>2, <2>1 DEF RegisteredIsRecorded
  <2>2. step[e] = "publish" \/ Record(e)
    <3>1. CASE ~StepOf(e)
      BY <1>0, <1>3, <3>1, OthersStay
    <3>2. CASE StepOf(e) /\ ~Record(e)
      BY <1>0, <1>3, <3>2 DEF StepOf, Claim, Crash, ReportOutcome, Reconcile, Prepare, Find, Recover,
                              Lookup, Publish, Create, Register, Advance, TypeOK
    <3> QED
      BY <3>1, <3>2
  <2> QED
    BY <1>2, <2>1, <2>2 DEF Record
<1>4. version' = "PUBLISHED" => document' # NoObject /\ candidate' = "READY"
  BY <1>2 DEF Next, vars, Claim, Crash, ReportOutcome, Reconcile, Prepare, Find, Recover, Lookup,
              Record, Publish, Create, Register, Expire, ListChildren, RegisteredIsRecorded
<1>5. document' # NoObject => document' = registered'[Report]
  BY <1>0, <1>2 DEF Kept
<1> QED
  BY <1>1, <1>3, <1>4, <1>5 DEF RegisteredIsRecorded

(* Of the objects of one identity, one at most was created in time.        *)
LEMMA StepFirst ==
    ObjectInv /\ CreatesFirst /\ [Next]_vars => CreatesFirst'
<1> SUFFICES ASSUME ObjectInv, CreatesFirst, [Next]_vars, NEW e \in Execution,
                    step'[e] = "create", lease' = e, NEW x \in Found(item[e], parent[e])'
             PROVE  drive'[x].late
  BY DEF CreatesFirst
<1> USE DEF task, executions, report, Goto, At
<1>0. TypeOK /\ Kept
  BY StepNumbered DEF ObjectInv
<1>1. x \in DOMAIN drive' /\ drive'[x].item = item'[e] /\ drive'[x].parent = parent'[e]
  BY DEF Found
<1>2. CASE StepOf(e)
  <2>1. Find(e)
    BY <1>0, <1>2 DEF StepOf, Claim, Crash, ReportOutcome, Reconcile, Prepare, Recover, Lookup, Record,
                      Publish, Create, Register, Advance, TypeOK
  <2>2. Lookup(e, "create") /\ "create" \in Step
    BY <2>1 DEF Find, Step
  <2>3. Found(item[e], parent[e]) = {} /\ UNCHANGED <<item, parent, drive>>
    BY <1>0, <2>2, LookedUp DEF TypeOK
  <2> QED
    BY <1>1, <2>3 DEF Found
<1>3. CASE ~StepOf(e)
  <2>1. step[e] = "create" /\ item'[e] = item[e] /\ parent'[e] = parent[e]
    BY <1>0, <1>3, OthersStay
  <2>2. lease = e
    <3>1. ASSUME NEW f \in Execution, f # e, StepOf(f) PROVE lease' = lease \/ lease' \in {0, f}
      BY <3>1 DEF StepOf, Claim, Crash, ReportOutcome, Reconcile, Prepare, Find, Recover, Lookup,
                  Record, Publish, Create, Register
    <3>2. Expire \/ ListChildren \/ UNCHANGED vars => lease' \in {0, lease}
      BY DEF Expire, ListChildren, vars
    <3>3. e # 0
      BY DEF Execution
    <3> QED
      BY <1>3, <3>1, <3>2, <3>3 DEF Next, StepOf
  <2>3. CASE x \in DOMAIN drive
    <3>1. drive'[x] = drive[x]
      BY <1>0, <2>3 DEF Kept
    <3> QED
      BY <1>1, <2>1, <2>2, <2>3, <3>1 DEF CreatesFirst, Found
  <2>4. CASE x \notin DOMAIN drive
    <3>1. PICK f \in Execution : Create(f)
      BY <1>1, <2>4 DEF Next, vars, Claim, Crash, ReportOutcome, Reconcile, Prepare, Find, Recover, Lookup,
              Record, Publish, Register, Expire, ListChildren
    <3>2. f # e
      BY <1>3, <3>1 DEF StepOf
    <3>3. drive'[x].late = (lease # f)
      BY <1>1, <2>4, <3>1 DEF Create, Created
    <3> QED
      BY <2>2, <3>2, <3>3
  <2> QED
    BY <2>3, <2>4
<1> QED
  BY <1>2, <1>3

LEMMA StepCopies ==
    ObjectInv /\ CreatesFirst /\ CopiesAreLate /\ [Next]_vars => CopiesAreLate'
<1> SUFFICES ASSUME ObjectInv, CreatesFirst, CopiesAreLate, [Next]_vars,
                    NEW x \in DOMAIN drive', NEW y \in DOMAIN drive', x # y,
                    drive'[x].item = drive'[y].item, drive'[x].parent = drive'[y].parent
             PROVE  drive'[x].late \/ drive'[y].late
  BY DEF CopiesAreLate
<1>0. TypeOK /\ Kept
  BY StepNumbered DEF ObjectInv
<1>1. CASE x \in DOMAIN drive /\ y \in DOMAIN drive
  BY <1>0, <1>1 DEF Kept, CopiesAreLate
<1>2. ASSUME NEW a \in DOMAIN drive', NEW b \in DOMAIN drive', a # b, a \notin DOMAIN drive,
             drive'[a].item = drive'[b].item, drive'[a].parent = drive'[b].parent
      PROVE  drive'[a].late \/ drive'[b].late
  <2>1. PICK f \in Execution : Create(f)
    BY <1>2 DEF Next, vars, task, executions, report, Claim, Crash, ReportOutcome, Reconcile, Prepare, Find,
            Recover, Lookup, Record, Publish, Register, Expire, ListChildren
  <2>2. /\ drive'[a].late = (lease # f) /\ drive'[a].item = item[f] /\ drive'[a].parent = parent[f]
        /\ b \in DOMAIN drive /\ step[f] = "create"
    BY <1>2, <2>1 DEF Create, Created, At
  <2>3. drive'[b] = drive[b] /\ b \in Found(item[f], parent[f])
    BY <1>0, <1>2, <2>2 DEF Kept, Found
  <2> QED
    BY <2>2, <2>3 DEF CreatesFirst
<1> QED
  BY <1>1, <1>2

-----------------------------------------------------------------------------

LEMMA InitPublication == Init => PublicationInv
<1> SUFFICES ASSUME Init PROVE PublicationInv
  OBVIOUS
<1>1. TypeOK /\ DOMAIN drive = {}
  BY InitTyped DEF Init
<1>2. Numbered
  <2>1. 0 \in 0..MaxObject /\ 1..0 = {}
    BY PublicationAssumption DEF PublicationAssumption
  <2> QED
    BY <1>1, <2>1 DEF Numbered
<1>3. Placed /\ RegisteredOnDrive /\ SeenOnDrive
  BY DEF Init, Placed, FolderOf, RegisteredOnDrive, SeenOnDrive
<1>4. RegisteredIsRecorded /\ CreatesFirst /\ CopiesAreLate
  BY <1>1 DEF Init, RegisteredIsRecorded, CreatesFirst, CopiesAreLate
<1> QED
  BY <1>1, <1>2, <1>3, <1>4 DEF PublicationInv, ObjectInv

LEMMA StepPublication == PublicationInv /\ [Next]_vars => PublicationInv'
BY StepObjects, StepRecorded, StepFirst, StepCopies DEF PublicationInv

(* Tasks, leases, executions, objects and records stay in their domains,   *)
(* whatever crashes, is lost or comes late.                                *)
THEOREM PublicationTypeCorrect == Spec => []TypeOK
BY InitTyped, StepTyped, PTL DEF Spec

(* Executions that crash, lose their lease and run beside each other never *)
(* disagree about the folder an object goes to or about the report's file. *)
THEOREM ExecutionsAgree == Spec => []SameObjects
<1>1. PublicationInv => SameObjects
  BY DEF PublicationInv, ObjectInv, Placed, FolderOf, RegisteredIsRecorded, SameObjects
<1> QED
  BY <1>1, InitPublication, StepPublication, PTL DEF Spec

(* No retry makes a second folder or report: of two objects of an identity *)
(* one at least was created after its execution had lost the lease.        *)
THEOREM RetriesMakeNoCopy == Spec => []CopiesAreLate
<1>1. PublicationInv => CopiesAreLate
  BY DEF PublicationInv
<1> QED
  BY <1>1, InitPublication, StepPublication, PTL DEF Spec

(* The file of a published version is the registered one, it is on the     *)
(* Drive in the folder of its version, and the candidate is ready.         *)
THEOREM PublishedIsOnDrive == Spec => []PublishedHasFile
<1>1. PublicationInv => PublishedHasFile
  BY DEF PublicationInv, ObjectInv, RegisteredOnDrive, RegisteredIsRecorded, FolderOf,
         PublishedHasFile, Item, Report, Results
<1> QED
  BY <1>1, InitPublication, StepPublication, PTL DEF Spec

-----------------------------------------------------------------------------
(* The connection that publications and every other use of Drive depend on.*)

(* Grants are numbered as Google gives them, so a new one is not among     *)
(* those that the row, a worker or an operation has.                       *)
GrantsIssued ==
    /\ issued \in Nat
    /\ token \in Nat /\ token <= issued
    /\ held \in [Worker -> Nat] /\ \A w \in Worker : held[w] <= issued
    /\ grant \in [Operation -> Nat] /\ \A o \in Operation : grant[o] <= issued
    /\ DOMAIN provider = Worker /\ DOMAIN phase = Operation

(* A worker whose row is still the stored one has read it while it was     *)
(* connected, and holds its token; what Google has refused stays refused.  *)
ReadersAreRight ==
    /\ \A w \in Worker \intersect current :
          /\ provider[w] \in {"requested", "refreshed", "invalid"}
          /\ state = "CONNECTED" /\ held[w] = token
    /\ \A w \in Worker : provider[w] = "invalid" => held[w] \notin alive

ConnectionInv == GrantsIssued /\ ReadersAreRight

(* How the state of the connection moves. *)
ConnectionMove ==
    \/ state' = state
    \/ \E w \in Worker : /\ provider[w] = "invalid" /\ w \in current
                         /\ state' = "REAUTH_REQUIRED"
    \/ \E o \in Operation : /\ phase[o] = "bound" /\ phase'[o] = "saved"
                            /\ state' = "CONNECTED"
    \/ state' = "DISCONNECTED"

LEMMA InitConnection == ConnectionInit => ConnectionInv
BY DEF ConnectionInit, NoToken, ConnectionInv, GrantsIssued, ReadersAreRight

LEMMA StepConnection ==
    ASSUME ConnectionInv, [ConnectionNext]_connectionVars
    PROVE  ConnectionInv' /\ ConnectionMove
<1> USE ConnectionAssumption DEF ConnectionAssumption
<1> USE DEF connection, google, workers, operations,
            NoToken, Written, ConnectionInv, GrantsIssued, ReadersAreRight,
            ConnectionMove
<1>1. ASSUME NEW w \in Worker, Refresh(w) PROVE ConnectionInv' /\ ConnectionMove
  <2> USE DEF Becomes, Leave, Idle, Refused, Usable
  <2>1. CASE StartRefresh(w)
    BY <2>1 DEF StartRefresh
  <2>2. CASE Refuse(w)
    BY <2>2 DEF Refuse
  <2>3. CASE Refreshed(w)
    BY <2>3 DEF Refreshed
  <2>4. CASE InvalidGrant(w)
    BY <2>4 DEF InvalidGrant
  <2>5. CASE StoreRefresh(w)
    BY <2>5 DEF StoreRefresh, Cache
  <2>6. CASE AcceptWinner(w)
    BY <2>6 DEF AcceptWinner
  <2>7. CASE RequireReauth(w)
    BY <2>7 DEF RequireReauth
  <2>8. CASE WaitForHuman(w)
    BY <2>8 DEF WaitForHuman
  <2> QED
    BY <1>1, <2>1, <2>2, <2>3, <2>4, <2>5, <2>6, <2>7, <2>8 DEF Refresh
<1>2. ASSUME NEW w \in Worker, BreakOff(w) \/ ExpireCache(w)
      PROVE  ConnectionInv' /\ ConnectionMove
  BY <1>2 DEF BreakOff, ExpireCache, Idle, Leave, Becomes
<1>3. ASSUME NEW o \in Operation, Exchange(o) PROVE ConnectionInv' /\ ConnectionMove
  BY <1>3 DEF Exchange, Proceed
<1>4. ASSUME NEW o \in Operation, SaveConnection(o) PROVE ConnectionInv' /\ ConnectionMove
  BY <1>4 DEF SaveConnection, Proceed
<1>5. ASSUME NEW o \in Operation,
             \/ Start(o) \/ BindRoot(o) \/ RegisterRoot(o)
             \/ ResumeRuns(o) \/ Fail(o)
      PROVE  ConnectionInv' /\ ConnectionMove
  BY <1>5 DEF Start, BindRoot, RegisterRoot, ResumeRuns,
              Fail, Proceed, Clear
<1>6. CASE Revoke
  BY <1>6 DEF Revoke
<1>7. CASE Disconnect
  BY <1>7 DEF Disconnect
<1>8. CASE WithdrawGrant
  BY <1>8 DEF WithdrawGrant
<1>9. CASE UNCHANGED connectionVars
  BY <1>9 DEF connectionVars
<1> QED
  BY <1>1, <1>2, <1>3, <1>4, <1>5, <1>6, <1>7, <1>8, <1>9 DEF ConnectionNext

(* A worker that learns late that its grant is gone does not take the      *)
(* connection from a grant that is good.                                   *)
THEOREM GoodGrantsStay == ConnectionSpec => GoodGrantStays
<1>1. ConnectionInv /\ [ConnectionNext]_connectionVars => ConnectionInv'
  BY StepConnection
<1>2. ConnectionInv /\ [ConnectionNext]_connectionVars =>
         (state = "CONNECTED" /\ state' = "REAUTH_REQUIRED" => token \notin alive)
  BY StepConnection DEF ConnectionMove, ConnectionInv, ReadersAreRight
<1> QED
  BY <1>1, <1>2, InitConnection, PTL DEF ConnectionSpec, GoodGrantStays

(* A refresh that was under way does not connect a Drive again that a      *)
(* person has disconnected.                                                *)
THEOREM DisconnectionsStay == ConnectionSpec => DisconnectedStays
<1>1. ConnectionInv /\ [ConnectionNext]_connectionVars => ConnectionInv'
  BY StepConnection
<1>2. ConnectionInv /\ [ConnectionNext]_connectionVars =>
         (state = "DISCONNECTED" /\ state' # "DISCONNECTED"
            => \E o \in Operation : phase[o] = "bound" /\ phase'[o] = "saved")
  BY StepConnection DEF ConnectionMove, ConnectionInv, ReadersAreRight
<1> QED
  BY <1>1, <1>2, InitConnection, PTL DEF ConnectionSpec, DisconnectedStays

(* An operation that has exchanged its code knows the account, and who is  *)
(* about to disconnect has found a connection.                             *)
OperationsKnow ==
    /\ \A o \in Operation : phase[o] \in {"exchanged", "bound", "saved", "registered"} => account[o] \in Account
    /\ "disconnect" \in current => state # "NONE"

(* Every variable of the connection holds a value of its kind, and a       *)
(* connection that exists has an owner.                                    *)
THEOREM ConnectionTypeCorrect == ConnectionSpec => []ConnectionTypeOK
<1> USE ConnectionAssumption DEF ConnectionAssumption
<1> DEFINE Inv == ConnectionTypeOK /\ OperationsKnow
<1>1. ConnectionInit => Inv
  BY DEF ConnectionInit, ConnectionTypeOK, NoToken, OperationsKnow
<1>2. ConnectionInv /\ Inv /\ [ConnectionNext]_connectionVars => Inv'
  <2> SUFFICES ASSUME ConnectionInv, Inv, [ConnectionNext]_connectionVars PROVE Inv'
    OBVIOUS
  <2> USE DEF connection, google, workers, operations,
              NoToken, Token, Reader, Written,
              ConnectionTypeOK, OperationsKnow
  <2>1. ASSUME NEW w \in Worker, Refresh(w) PROVE Inv'
    <3> USE DEF Becomes, Leave, Idle, Refused, Usable,
                Cache
    <3>1. CASE StartRefresh(w)
      BY <3>1 DEF StartRefresh
    <3>2. CASE Refuse(w)
      BY <3>2 DEF Refuse
    <3>3. CASE Refreshed(w)
      BY <3>3 DEF Refreshed
    <3>4. CASE InvalidGrant(w)
      BY <3>4 DEF InvalidGrant
    <3>5. CASE StoreRefresh(w)
      BY <3>5 DEF StoreRefresh
    <3>6. CASE AcceptWinner(w)
      BY <3>6 DEF AcceptWinner
    <3>7. CASE RequireReauth(w)
      <4>1. w \in current => state = "CONNECTED"
        BY DEF ConnectionInv, ReadersAreRight
      <4> QED
        BY <3>7, <4>1 DEF RequireReauth
    <3>8. CASE WaitForHuman(w)
      BY <3>8 DEF WaitForHuman
    <3> QED
      BY <2>1, <3>1, <3>2, <3>3, <3>4, <3>5, <3>6, <3>7, <3>8 DEF Refresh
  <2>2. ASSUME NEW w \in Worker, BreakOff(w) \/ ExpireCache(w) PROVE Inv'
    <3>1. CASE BreakOff(w)
      BY <3>1 DEF BreakOff, Idle, Leave, Becomes
    <3>2. CASE ExpireCache(w)
      BY <3>2 DEF ExpireCache
    <3> QED
      BY <2>2, <3>1, <3>2
  <2>3. ASSUME NEW o \in Operation, Start(o) \/ BindRoot(o) \/ RegisterRoot(o)
        PROVE  Inv'
    <3>1. CASE Start(o)
      BY <3>1 DEF Start, Proceed
    <3>2. CASE BindRoot(o)
      BY <3>2 DEF BindRoot, Proceed
    <3>3. CASE RegisterRoot(o)
      BY <3>3 DEF RegisterRoot, Proceed
    <3> QED
      BY <2>3, <3>1, <3>2, <3>3
  <2>4. ASSUME NEW o \in Operation, Exchange(o) PROVE Inv'
    BY <2>4 DEF Exchange, Proceed
  <2>5. ASSUME NEW o \in Operation, SaveConnection(o) PROVE Inv'
    BY <2>5 DEF SaveConnection, Proceed
  <2>6. ASSUME NEW o \in Operation, ResumeRuns(o) \/ Fail(o) PROVE Inv'
    <3>1. CASE ResumeRuns(o)
      BY <3>1 DEF ResumeRuns, Proceed, Clear
    <3>2. CASE Fail(o)
      BY <3>2 DEF Fail, Clear
    <3> QED
      BY <2>6, <3>1, <3>2
  <2>7. CASE Revoke
    BY <2>7 DEF Revoke
  <2>8. CASE Disconnect
    BY <2>8 DEF Disconnect
  <2>9. CASE WithdrawGrant
    BY <2>9 DEF WithdrawGrant
  <2>10. CASE UNCHANGED connectionVars
    BY <2>10 DEF connectionVars
  <2> QED
    BY <2>1, <2>2, <2>3, <2>4, <2>5, <2>6, <2>7, <2>8, <2>9, <2>10 DEF ConnectionNext
<1>3. ConnectionInv /\ [ConnectionNext]_connectionVars => ConnectionInv'
  BY StepConnection
<1> QED
  BY <1>1, <1>2, <1>3, InitConnection, PTL DEF ConnectionSpec

=============================================================================
