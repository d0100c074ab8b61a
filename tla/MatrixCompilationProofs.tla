---------------------- MODULE MatrixCompilationProofs ----------------------
(***************************************************************************)
(* Proofs about MatrixCompilation: one matrix is published and shared, for *)
(* any number of runs, lost executions and failures.                       *)
(***************************************************************************)
EXTENDS MatrixCompilation, TLAPS

(* A compiler has a claim, which is no later than the last one.            *)
ClaimsAreOld ==
    \A e \in Execution :
        /\ token[e] <= compilation.token
        /\ step[e] \in {"compile", "fail"} => token[e] # 0

(* Who goes on to store a matrix has one, and who has done so has stored   *)
(* the one that is published.                                              *)
StoresMatrix ==
    /\ \A e \in Execution : At(e, "store") => got[e] # NoMatrix
    /\ \A e \in Execution : At(e, "done") => runRef[e[1]].matrix # NoMatrix
    /\ \A r \in Run : runRef[r].matrix \in {NoMatrix, matrix}

MatrixInv == TypeOK /\ MatrixIsClaimants /\ ClaimsAreOld /\ SharedMatrix /\ StoresMatrix

USE MatrixAssumption DEF MatrixAssumption, At, Goto, NoMatrix, Error, Step

(***************************************************************************)
(* Types.                                                                  *)
(***************************************************************************)

LEMMA ExecutionParts == ASSUME NEW e \in Execution PROVE e[1] \in Run /\ e[2] \in Slot
  BY DEF Execution

LEMMA FailedType == ASSUME TypeOK, NEW r \in Run PROVE Failed(r) \in [Run -> 0..MaxFailures]
  <1>1. failures[r] \in 0..MaxFailures
    BY DEF TypeOK
  <1>2. CASE failures[r] < MaxFailures
    <2>1. failures[r] + 1 \in 0..MaxFailures
      BY <1>1, <1>2
    <2>2. Failed(r) = [failures EXCEPT ![r] = failures[r] + 1]
      BY <1>2 DEF Failed
    <2> QED
      BY <2>1, <2>2 DEF TypeOK
  <1>3. CASE ~(failures[r] < MaxFailures)
    BY <1>3 DEF Failed, TypeOK
  <1> QED
    BY <1>2, <1>3

LEMMA TypeInit == Init => TypeOK
  <1> SUFFICES ASSUME Init PROVE TypeOK
    OBVIOUS
  <1>1. compilation \in [state : {"NONE", "CLAIMED", "PUBLISHED", "FAILED"},
                         owner : Run \union {NoRun}, token : Nat]
    BY DEF Init
  <1>2. runRef \in [Run -> [matrix : Nat, warned : BOOLEAN]]
    BY DEF Init, NotStored
  <1>3. /\ holder \in [Run -> {0} \union Slot] /\ failures \in [Run -> 0..MaxFailures]
        /\ losses \in 0..MaxLoss /\ active \subseteq Run
    BY DEF Init
  <1> QED
    BY <1>1, <1>2, <1>3 DEF Init, TypeOK

LEMMA TypeNext == TypeOK /\ [Next]_vars => TypeOK'
  <1> SUFFICES ASSUME TypeOK, [Next]_vars PROVE TypeOK'
    OBVIOUS
  <1>1. ASSUME NEW r \in Run, Start(r) PROVE TypeOK'
    <2>1. PICK k \in Slot : holder' = [holder EXCEPT ![r] = k] /\ step' = [step EXCEPT ![<<r, k>>] = "read"]
      BY <1>1 DEF Start
    <2>2. step' \in [Execution -> Step]
      BY <2>1 DEF TypeOK
    <2>3. holder' \in [Run -> {0} \union Slot]
      BY <2>1 DEF TypeOK
    <2> QED
      BY <1>1, <2>2, <2>3 DEF Start, TypeOK, shared, local
  <1>2. ASSUME NEW r \in Run, Lose(r) PROVE TypeOK'
    <2>1. losses' \in 0..MaxLoss /\ holder' \in [Run -> {0} \union Slot]
      BY <1>2 DEF Lose, TypeOK
    <2>2. failures' \in [Run -> 0..MaxFailures]
      BY <1>2, FailedType DEF Lose
    <2> QED
      BY <1>2, <2>1, <2>2 DEF Lose, TypeOK, shared, local
  <1>3. ASSUME NEW r \in Run, EndRun(r) PROVE TypeOK'
    BY <1>3 DEF EndRun, TypeOK, shared, local
  <1>4. ASSUME NEW e \in Execution, Read(e) PROVE TypeOK'
    BY <1>4 DEF Read, TypeOK, shared, task
  <1>5. ASSUME NEW e \in Execution, ClaimCompilation(e) PROVE TypeOK'
    <2>1. e[1] \in Run
      BY ExecutionParts
    <2>2. CASE Taken(e[1])
      BY <1>5, <2>2 DEF ClaimCompilation, TypeOK, task
    <2>3. CASE ~Taken(e[1])
      <3>1. compilation' \in [state : {"NONE", "CLAIMED", "PUBLISHED", "FAILED"},
                              owner : Run \union {NoRun}, token : Nat]
        BY <1>5, <2>1, <2>3 DEF ClaimCompilation, TypeOK
      <3>2. token' \in [Execution -> Nat]
        BY <1>5, <2>3 DEF ClaimCompilation, TypeOK
      <3> QED
        BY <1>5, <2>3, <3>1, <3>2 DEF ClaimCompilation, TypeOK, task
    <2> QED
      BY <2>2, <2>3
  <1>6. ASSUME NEW e \in Execution, PublishMatrix(e) PROVE TypeOK'
    <2>1. CASE IsClaimant(e)
      <3>1. compilation' \in [state : {"NONE", "CLAIMED", "PUBLISHED", "FAILED"},
                              owner : Run \union {NoRun}, token : Nat]
        BY <1>6, <2>1 DEF PublishMatrix, TypeOK
      <3>2. matrix' \in Nat /\ got' \in [Execution -> Nat] /\ step' \in [Execution -> Step]
        BY <1>6, <2>1 DEF PublishMatrix, TypeOK
      <3>3. warned' \in [Execution -> BOOLEAN]
        BY <1>6, <2>1 DEF PublishMatrix, TypeOK
      <3> QED
        BY <1>6, <2>1, <3>1, <3>2, <3>3 DEF PublishMatrix, TypeOK, task
    <2>2. CASE ~IsClaimant(e)
      BY <1>6, <2>2 DEF PublishMatrix, TypeOK, task
    <2> QED
      BY <2>1, <2>2
  <1>7. ASSUME NEW e \in Execution, FailCompilation(e) PROVE TypeOK'
    <2>1. compilation' \in [state : {"NONE", "CLAIMED", "PUBLISHED", "FAILED"},
                            owner : Run \union {NoRun}, token : Nat]
      BY <1>7 DEF FailCompilation, TypeOK
    <2>2. error' \in [Execution -> Error] /\ step' \in [Execution -> Step]
      BY <1>7 DEF FailCompilation, TypeOK
    <2> QED
      BY <1>7, <2>1, <2>2 DEF FailCompilation, TypeOK, task
  <1>8. ASSUME NEW e \in Execution, Store(e) PROVE TypeOK'
    <2>1. [matrix |-> got[e], warned |-> warned[e]] \in [matrix : Nat, warned : BOOLEAN]
      BY DEF TypeOK
    <2>2. runRef' \in [Run -> [matrix : Nat, warned : BOOLEAN]]
      BY <1>8, <2>1 DEF Store, TypeOK
    <2>3. error' \in [Execution -> Error] /\ step' \in [Execution -> Step]
      BY <1>8 DEF Store, TypeOK
    <2> QED
      BY <1>8, <2>2, <2>3 DEF Store, TypeOK, shared, task
  <1>9. ASSUME NEW e \in Execution, Outcome(e) PROVE TypeOK'
    <2>1. e[1] \in Run
      BY ExecutionParts
    <2>2. /\ token' \in [Execution -> Nat] /\ got' \in [Execution -> Nat]
          /\ warned' \in [Execution -> BOOLEAN] /\ error' \in [Execution -> Error]
          /\ step' \in [Execution -> Step]
      BY <1>9 DEF Outcome, Forgotten, TypeOK
    <2>3. CASE ~Holding(e)
      BY <1>9, <2>2, <2>3 DEF Outcome, TypeOK, shared, task
    <2>4. CASE Holding(e)
      <3>1. failures' \in [Run -> 0..MaxFailures]
        <4>1. CASE At(e, "failed")
          BY <1>9, <2>1, <2>4, <4>1, FailedType DEF Outcome
        <4>2. CASE ~At(e, "failed")
          BY <1>9, <2>4, <4>2 DEF Outcome, TypeOK
        <4> QED
          BY <4>1, <4>2
      <3>2. holder' \in [Run -> {0} \union Slot]
        BY <1>9, <2>1, <2>4 DEF Outcome, TypeOK
      <3>3. taskState' \in [Run -> {"RUNNABLE", "SUCCEEDED", "FAILED"}]
        BY <1>9, <2>1, <2>4 DEF Outcome, TypeOK
      <3>4. cause' \in [Run -> Error]
        BY <1>9, <2>1, <2>4 DEF Outcome, TypeOK
      <3> QED
        BY <1>9, <2>2, <2>4, <3>1, <3>2, <3>3, <3>4 DEF Outcome, TypeOK, shared
    <2> QED
      BY <2>3, <2>4
  <1>10. ASSUME ExpireCompilation PROVE TypeOK'
    BY <1>10 DEF ExpireCompilation, TypeOK, task, local
  <1>11. CASE UNCHANGED vars
    BY <1>11 DEF vars, shared, task, local, TypeOK
  <1> QED
    BY <1>1, <1>2, <1>3, <1>4, <1>5, <1>6, <1>7, <1>8, <1>9, <1>10, <1>11 DEF Next, Work

(* Claims, tasks and executions stay in their domains. *)
THEOREM TypeCorrect == Spec => []TypeOK
  BY TypeInit, TypeNext, PTL DEF Spec

(***************************************************************************)
(* The published matrix.                                                   *)
(***************************************************************************)

LEMMA MatrixInit == Init => MatrixInv
  <1> SUFFICES ASSUME Init PROVE MatrixInv
    OBVIOUS
  <1>1. MatrixIsClaimants /\ ClaimsAreOld
    BY DEF Init, MatrixIsClaimants, ClaimsAreOld
  <1>2. SharedMatrix /\ StoresMatrix
    BY DEF Init, SharedMatrix, StoresMatrix, NotStored
  <1> QED
    BY <1>1, <1>2, TypeInit DEF MatrixInv

(* A step of the runs' tasks: executions go on to a place where they hold  *)
(* nothing, and a task that succeeds has a matrix.                         *)
LEMMA TaskSteps ==
    ASSUME TypeOK, MatrixIsClaimants, ClaimsAreOld, SharedMatrix, StoresMatrix,
           UNCHANGED <<compilation, matrix, runRef>>,
           \A e \in Execution :
              \/ step'[e] = step[e] /\ token'[e] = token[e] /\ got'[e] = got[e]
              \/ step'[e] \in {"idle", "read"} /\ token'[e] \in {0, token[e]} /\ got'[e] \in {NoMatrix, got[e]},
           \A r \in Run : taskState'[r] = "SUCCEEDED" =>
              taskState[r] = "SUCCEEDED" \/ runRef[r].matrix # NoMatrix
    PROVE  MatrixIsClaimants' /\ ClaimsAreOld' /\ SharedMatrix' /\ StoresMatrix'
  <1>1. MatrixIsClaimants'
    BY DEF MatrixIsClaimants
  <1>2. ClaimsAreOld'
    BY DEF ClaimsAreOld, TypeOK
  <1>3. SharedMatrix'
    BY DEF SharedMatrix, StoresMatrix
  <1>4. StoresMatrix'
    BY DEF StoresMatrix
  <1> QED
    BY <1>1, <1>2, <1>3, <1>4

LEMMA MatrixNext == MatrixInv /\ [Next]_vars => MatrixInv'
  <1> SUFFICES ASSUME TypeOK, MatrixIsClaimants, ClaimsAreOld, SharedMatrix, StoresMatrix, [Next]_vars
               PROVE  MatrixIsClaimants' /\ ClaimsAreOld' /\ SharedMatrix' /\ StoresMatrix'
    BY TypeNext DEF MatrixInv
  <1> DEFINE Goal == MatrixIsClaimants' /\ ClaimsAreOld' /\ SharedMatrix' /\ StoresMatrix'
  <1>1. ASSUME NEW r \in Run, Start(r) PROVE Goal
    <2>1. PICK k \in Slot : step' = [step EXCEPT ![<<r, k>>] = "read"]
      BY <1>1 DEF Start
    <2>2. \A e \in Execution : step'[e] = step[e] \/ step'[e] = "read"
      BY <2>1 DEF TypeOK
    <2> QED
      BY <1>1, <2>2, TaskSteps DEF Start, shared, local
  <1>2. ASSUME NEW r \in Run, Lose(r) \/ EndRun(r) PROVE Goal
    BY <1>2, TaskSteps DEF Lose, EndRun, shared, local
  <1>3. ASSUME NEW e \in Execution, Outcome(e) PROVE Goal
    <2>1. e[1] \in Run
      BY ExecutionParts
    <2>2. \A d \in Execution :
              \/ step'[d] = step[d] /\ token'[d] = token[d] /\ got'[d] = got[d]
              \/ step'[d] = "idle" /\ token'[d] \in {0, token[d]} /\ got'[d] \in {NoMatrix, got[d]}
      BY <1>3 DEF Outcome, Forgotten, TypeOK
    <2>3. ASSUME NEW r \in Run, taskState'[r] = "SUCCEEDED", taskState[r] # "SUCCEEDED"
          PROVE  runRef[r].matrix # NoMatrix
      <3>1. r = e[1] /\ At(e, "done")
        <4>1. Holding(e)
          BY <1>3, <2>3 DEF Outcome, task
        <4> QED
          BY <1>3, <2>1, <2>3, <4>1 DEF Outcome, TypeOK
      <3> QED
        BY <3>1 DEF StoresMatrix
    <2> QED
      BY <1>3, <2>2, <2>3, TaskSteps DEF Outcome, shared
  <1>4. ASSUME NEW e \in Execution, Read(e) PROVE Goal
    <2>1. /\ UNCHANGED <<compilation, matrix, runRef, token, taskState>>
          /\ got' = [got EXCEPT ![e] = matrix]
      BY <1>4 DEF Read, shared, task
    <2>2. step' = [step EXCEPT ![e] =
             CASE matrix # NoMatrix -> "store"
               [] matrix = NoMatrix /\ At(e, "read") -> "claim"
               [] OTHER -> "deferred"]
      BY <1>4 DEF Read
    <2>3. /\ \A d \in Execution : d # e => step'[d] = step[d] /\ got'[d] = got[d]
          /\ got'[e] = matrix /\ step'[e] \in {"store", "claim", "deferred"}
          /\ step'[e] = "store" => matrix # NoMatrix
      BY <2>1, <2>2 DEF TypeOK
    <2>4. MatrixIsClaimants' /\ ClaimsAreOld'
      BY <2>1, <2>3 DEF MatrixIsClaimants, ClaimsAreOld
    <2>5. SharedMatrix' /\ StoresMatrix'
      BY <2>1, <2>3 DEF SharedMatrix, StoresMatrix
    <2> QED
      BY <2>4, <2>5
  <1>5. ASSUME NEW e \in Execution, ClaimCompilation(e) PROVE Goal
    <2>1. CASE Taken(e[1])
      <3>1. step' = [step EXCEPT ![e] = "reread"] /\ UNCHANGED <<compilation, matrix, runRef, token, got, taskState>>
        BY <1>5, <2>1 DEF ClaimCompilation, task
      <3>2. \A d \in Execution : step'[d] = step[d] \/ step'[d] = "reread"
        BY <3>1 DEF TypeOK
      <3> QED
        BY <3>1, <3>2 DEF MatrixIsClaimants, ClaimsAreOld, SharedMatrix, StoresMatrix
    <2>2. CASE ~Taken(e[1])
      <3>1. /\ compilation' = [state |-> "CLAIMED", owner |-> e[1], token |-> compilation.token + 1]
            /\ token' = [token EXCEPT ![e] = compilation.token + 1]
            /\ step' = [step EXCEPT ![e] = "compile"]
            /\ UNCHANGED <<matrix, runRef, got, taskState>>
        BY <1>5, <2>2 DEF ClaimCompilation, task
      <3>2. matrix = NoMatrix
        BY <2>2 DEF Taken, MatrixIsClaimants
      <3>3. /\ \A d \in Execution : d # e => step'[d] = step[d] /\ token'[d] = token[d]
            /\ step'[e] = "compile" /\ token'[e] = compilation.token + 1
            /\ compilation.token \in Nat /\ compilation'.token = compilation.token + 1
            /\ \A d \in Execution : token[d] \in Nat
        BY <3>1 DEF TypeOK
      <3>4. MatrixIsClaimants' /\ ClaimsAreOld'
        BY <3>1, <3>2, <3>3 DEF MatrixIsClaimants, ClaimsAreOld
      <3>5. SharedMatrix' /\ StoresMatrix'
        BY <3>1, <3>3 DEF SharedMatrix, StoresMatrix
      <3> QED
        BY <3>4, <3>5
    <2> QED
      BY <2>1, <2>2
  <1>6. ASSUME NEW e \in Execution, PublishMatrix(e) PROVE Goal
    <2>1. CASE IsClaimant(e)
      <3>1. /\ matrix' = token[e] /\ compilation' = [compilation EXCEPT !.state = "PUBLISHED"]
            /\ got' = [got EXCEPT ![e] = token[e]] /\ step' = [step EXCEPT ![e] = "store"]
            /\ UNCHANGED <<token, runRef, taskState>>
        BY <1>6, <2>1 DEF PublishMatrix, task
      <3>2. token[e] # 0 /\ token[e] = compilation.token
        BY <1>6, <2>1 DEF PublishMatrix, IsClaimant, ClaimsAreOld
      <3>3. matrix \in {NoMatrix, token[e]}
        BY <3>2 DEF MatrixIsClaimants
      <3>4. /\ compilation'.state = "PUBLISHED" /\ compilation'.token = compilation.token
            /\ got'[e] = token[e] /\ step'[e] = "store"
            /\ \A d \in Execution : d # e => step'[d] = step[d] /\ got'[d] = got[d]
        BY <3>1 DEF TypeOK
      <3>5. MatrixIsClaimants' /\ ClaimsAreOld'
        BY <3>1, <3>2, <3>4 DEF MatrixIsClaimants, ClaimsAreOld
      <3>6. SharedMatrix' /\ StoresMatrix'
        BY <3>1, <3>2, <3>3, <3>4 DEF SharedMatrix, StoresMatrix
      <3> QED
        BY <3>5, <3>6
    <2>2. CASE ~IsClaimant(e)
      <3>1. step' = [step EXCEPT ![e] = "fail"] /\ UNCHANGED <<matrix, compilation, got, token, runRef, taskState>>
        BY <1>6, <2>2 DEF PublishMatrix, task
      <3>2. \A d \in Execution : step'[d] = step[d] \/ (step[d] = "compile" /\ step'[d] = "fail")
        BY <1>6, <3>1 DEF PublishMatrix, TypeOK
      <3> QED
        BY <3>1, <3>2 DEF MatrixIsClaimants, ClaimsAreOld, SharedMatrix, StoresMatrix
    <2> QED
      BY <2>1, <2>2
  <1>7. ASSUME NEW e \in Execution, FailCompilation(e) PROVE Goal
    <2>1. step' = [step EXCEPT ![e] = "failed"] /\ UNCHANGED <<matrix, got, token, runRef, taskState>>
      BY <1>7 DEF FailCompilation, task
    <2>2. \A d \in Execution : step'[d] = step[d] \/ step'[d] = "failed"
      BY <2>1 DEF TypeOK
    <2>3. compilation'.token = compilation.token
      BY <1>7 DEF FailCompilation, TypeOK
    <2>4. compilation' = compilation \/ (compilation.state = "CLAIMED" /\ compilation'.state = "FAILED")
      BY <1>7 DEF FailCompilation, TypeOK
    <2>5. MatrixIsClaimants'
      BY <2>1, <2>3, <2>4 DEF MatrixIsClaimants
    <2>6. ClaimsAreOld' /\ SharedMatrix' /\ StoresMatrix'
      BY <2>1, <2>2, <2>3 DEF ClaimsAreOld, SharedMatrix, StoresMatrix
    <2> QED
      BY <2>5, <2>6
  <1>8. ASSUME NEW e \in Execution, Store(e) PROVE Goal
    <2> DEFINE r == e[1]
    <2> DEFINE new == [matrix |-> got[e], warned |-> warned[e]]
    <2>1. r \in Run /\ UNCHANGED <<compilation, matrix, got, token, taskState>>
      BY <1>8, ExecutionParts DEF Store, shared, task
    <2>2. got[e] = matrix /\ matrix # NoMatrix
      BY <1>8 DEF Store, SharedMatrix, StoresMatrix
    <2>3. CASE runRef[r] \in {NotStored, new}
      <3>1. runRef' = [runRef EXCEPT ![r] = new] /\ step' = [step EXCEPT ![e] = "done"]
        BY <1>8, <2>3 DEF Store
      <3>2. /\ \A q \in Run : runRef'[q] = runRef[q] \/ (q = r /\ runRef'[q].matrix = matrix)
            /\ runRef'[r].matrix = matrix
            /\ \A d \in Execution : step'[d] = step[d] \/ (d = e /\ step'[d] = "done")
        BY <2>1, <2>2, <3>1 DEF TypeOK
      <3>3. \A d \in Execution : d[1] \in Run
        BY ExecutionParts
      <3>4. MatrixIsClaimants' /\ ClaimsAreOld'
        BY <2>1, <3>2 DEF MatrixIsClaimants, ClaimsAreOld
      <3>5. SharedMatrix'
        BY <2>1, <2>2, <3>2 DEF SharedMatrix
      <3>6. StoresMatrix'
        BY <2>1, <2>2, <3>2, <3>3 DEF StoresMatrix
      <3> QED
        BY <3>4, <3>5, <3>6
    <2>4. CASE runRef[r] \notin {NotStored, new}
      <3>1. step' = [step EXCEPT ![e] = "failed"] /\ runRef' = runRef
        BY <1>8, <2>4 DEF Store
      <3>2. \A d \in Execution : step'[d] = step[d] \/ step'[d] = "failed"
        BY <3>1 DEF TypeOK
      <3> QED
        BY <2>1, <3>1, <3>2 DEF MatrixIsClaimants, ClaimsAreOld, SharedMatrix, StoresMatrix
    <2> QED
      BY <2>3, <2>4
  <1>9. ASSUME ExpireCompilation \/ UNCHANGED vars PROVE Goal
    BY <1>9, TaskSteps DEF ExpireCompilation, vars, shared, task, local
  <1> QED
    BY <1>1, <1>2, <1>3, <1>4, <1>5, <1>6, <1>7, <1>8, <1>9 DEF Next, Work

(* Whoever is overtaken, by another run or by a retry of its own, and      *)
(* however often: the matrix that is published is the last claimant's.     *)
THEOREM OnlyClaimantsPublish == Spec => []MatrixIsClaimants
  <1>1. MatrixInv => MatrixIsClaimants
    BY DEF MatrixInv
  <1> QED
    BY <1>1, MatrixInit, MatrixNext, PTL DEF Spec

(* All runs that have a matrix have the same one. *)
THEOREM MatrixIsShared == Spec => []SharedMatrix
  <1>1. MatrixInv => SharedMatrix
    BY DEF MatrixInv
  <1> QED
    BY <1>1, MatrixInit, MatrixNext, PTL DEF Spec

=============================================================================
