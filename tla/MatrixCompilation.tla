------------------------- MODULE MatrixCompilation -------------------------
(***************************************************************************)
(* The matrix of a vacancy's profile (tool candidate.matrix-compile/v1):   *)
(* the first run that needs it compiles it with the LLM, the runs of the   *)
(* other candidates wait for it, and a claim that runs out is taken over.  *)
(*                                                                         *)
(* A compilation is named by the fencing token of its claim; two of them   *)
(* never give the same matrix.  A worker that executes a run's task is one *)
(* of the run's slots: it runs on after it has lost the task's lease.      *)
(***************************************************************************)
EXTENDS Integers, FiniteSets

CONSTANTS Run,         \* runs whose candidates share the profile
          MaxLoss,     \* executions that crash or lose the lease of their task
          MaxFailures, \* failures after which a task is not retried
          NoRun        \* the owner of a compilation that was never claimed

ASSUME MatrixAssumption ==
    MaxLoss \in Nat /\ MaxFailures \in Nat \ {0} /\ NoRun \notin Run

Slot == 1..MaxLoss + 1
Execution == Run \X Slot
NoMatrix == 0
NotStored == [matrix |-> NoMatrix, warned |-> FALSE]

VARIABLES
    compilation, \* the row of vacancy_matrix_compilations
    leased,      \* its lease is not over
    matrix,      \* the row of vacancy_matrices: the compilation it is from
    taskState,   \* agent_tasks.state of the compiling task of a run
    cause,       \* the error the task failed with
    holder,      \* the slot that holds the task's lease, or 0
    failures,    \* failed attempts of the task
    active,      \* runs that no other task has failed
    losses,
    step,        \* where an execution is
    token,       \* the token of its claim
    got,         \* the matrix it has published or read
    warned,      \* it has something to tell about the critic
    error,       \* what it failed with
    runRef       \* the stored artifact of a run, vacancy-matrix-run-ref

shared == <<compilation, leased, matrix>>
task == <<taskState, cause, holder, failures, active, losses>>
local == <<token, got, warned, error>>
vars == <<shared, task, step, local, runRef>>

Step == {"idle", "read", "claim", "reread", "compile", "fail", "store",
         "done", "failed", "deferred"}
Error == {"none", "TRANSIENT", "PERMANENT", "STALE_FENCING_TOKEN", "CONFLICT"}

Init ==
    /\ compilation = [state |-> "NONE", owner |-> NoRun, token |-> 0]
    /\ leased = FALSE /\ matrix = NoMatrix
    /\ taskState = [r \in Run |-> "RUNNABLE"] /\ cause = [r \in Run |-> "none"]
    /\ holder = [r \in Run |-> 0] /\ failures = [r \in Run |-> 0]
    /\ active = Run /\ losses = 0
    /\ step = [e \in Execution |-> "idle"] /\ token = [e \in Execution |-> 0]
    /\ got = [e \in Execution |-> NoMatrix] /\ warned = [e \in Execution |-> FALSE]
    /\ error = [e \in Execution |-> "none"]
    /\ runRef = [r \in Run |-> NotStored]

At(e, s) == step[e] = s
Goto(e, s) == step' = [step EXCEPT ![e] = s]
Holding(e) == holder[e[1]] = e[2]

(***************************************************************************)
(* The task, as far as the compilation depends on it.                      *)
(***************************************************************************)

(* A worker claims the task of an active run.                              *)
Start(r) ==
    /\ r \in active /\ taskState[r] = "RUNNABLE" /\ holder[r] = 0
    /\ \E k \in Slot :
          /\ At(<<r, k>>, "idle") /\ \A j \in 1..k - 1 : ~At(<<r, j>>, "idle")
          /\ holder' = [holder EXCEPT ![r] = k]
          /\ Goto(<<r, k>>, "read")
    /\ UNCHANGED <<shared, taskState, cause, failures, active, losses, local, runRef>>

(* Failed attempts, counted up to the limit of failure-policy.ts.          *)
Failed(r) == IF failures[r] < MaxFailures THEN [failures EXCEPT ![r] = @ + 1] ELSE failures

(* recoverStale: a lease ran out.  The worker has died, which is to take   *)
(* no more steps, or runs on.                                              *)
Lose(r) ==
    /\ holder[r] # 0 /\ losses < MaxLoss
    /\ losses' = losses + 1
    /\ holder' = [holder EXCEPT ![r] = 0] /\ failures' = Failed(r)
    /\ UNCHANGED <<shared, taskState, cause, active, step, local, runRef>>

Forgotten(e) ==
    /\ token' = [token EXCEPT ![e] = 0] /\ got' = [got EXCEPT ![e] = NoMatrix]
    /\ warned' = [warned EXCEPT ![e] = FALSE] /\ error' = [error EXCEPT ![e] = "none"]

(* A task of another branch fails the run.                                 *)
EndRun(r) ==
    /\ r \in active /\ taskState[r] = "RUNNABLE"
    /\ active' = active \ {r} /\ holder' = [holder EXCEPT ![r] = 0]
    /\ UNCHANGED <<shared, taskState, cause, failures, losses, step, local, runRef>>

(* The outcome of an execution.  Only transient errors are retried, and a  *)
(* task that was put off is claimed again.                                 *)
Outcome(e) ==
    LET r == e[1]
    IN  /\ step[e] \in {"done", "failed", "deferred"}
        /\ Goto(e, "idle") /\ Forgotten(e)
        /\ IF ~Holding(e)
           THEN UNCHANGED task
           ELSE /\ holder' = [holder EXCEPT ![r] = 0]
                /\ failures' = IF At(e, "failed") THEN Failed(r) ELSE failures
                /\ taskState' = [taskState EXCEPT ![r] =
                      CASE At(e, "done") -> "SUCCEEDED"
                        [] At(e, "failed") /\ (error[e] # "TRANSIENT" \/ failures'[r] >= MaxFailures)
                             -> "FAILED"
                        [] OTHER -> "RUNNABLE"]
                /\ cause' = IF taskState'[r] = "FAILED" THEN [cause EXCEPT ![r] = error[e]] ELSE cause
                /\ UNCHANGED <<active, losses>>
        /\ UNCHANGED <<shared, runRef>>

(***************************************************************************)
(* compileVacancyMatrix over PostgresVacancyMatrixRepository.              *)
(***************************************************************************)

(* Mutant: a run that has to wait goes on. *)
ReadMut(e) ==
    /\ step[e] \in {"read", "reread"}
    /\ got' = [got EXCEPT ![e] = matrix]
    /\ Goto(e, IF At(e, "read") /\ matrix = NoMatrix THEN "claim" ELSE "store")
    /\ UNCHANGED <<shared, task, token, warned, error, runRef>>

(* readMatrix, before the claim and after a claim that was not granted.    *)
Read(e) ==
    /\ step[e] \in {"read", "reread"}
    /\ got' = [got EXCEPT ![e] = matrix]
    /\ Goto(e, CASE matrix # NoMatrix -> "store"
                 [] matrix = NoMatrix /\ At(e, "read") -> "claim"
                 [] OTHER -> "deferred")
    /\ UNCHANGED <<shared, task, token, warned, error, runRef>>

(* Mutant: a claim is never taken over from another run. *)
TakenMut(r) ==
    \/ compilation.state = "PUBLISHED"
    \/ compilation.state = "CLAIMED" /\ compilation.owner # r

(* Somebody else compiles, or it is done.  A run that asks again takes its *)
(* own claim over, and a failed compilation may always be tried again.     *)
Taken(r) ==
    \/ compilation.state = "PUBLISHED"
    \/ compilation.state = "CLAIMED" /\ leased /\ compilation.owner # r

(* claimCompilation, with allowRetry.                                      *)
ClaimCompilation(e) ==
    /\ At(e, "claim")
    /\ IF Taken(e[1])
       THEN Goto(e, "reread") /\ UNCHANGED <<compilation, leased, token>>
       ELSE /\ compilation' = [state |-> "CLAIMED", owner |-> e[1], token |-> compilation.token + 1]
            /\ leased' = TRUE
            /\ token' = [token EXCEPT ![e] = compilation.token + 1]
            /\ Goto(e, "compile")
    /\ UNCHANGED <<matrix, task, got, warned, error, runRef>>

(* The LLM is slower than the lease of 660 s, or its caller is gone.       *)
ExpireCompilation ==
    /\ compilation.state = "CLAIMED" /\ leased
    /\ leased' = FALSE
    /\ UNCHANGED <<compilation, matrix, task, step, local, runRef>>

(* Mutant: only the owner is compared, which a run that asks again keeps. *)
IsClaimantMut(e) == compilation.owner = e[1]

IsClaimant(e) == compilation.owner = e[1] /\ compilation.token = token[e]

(* The compiler has answered and its draft is canonical: publishMatrix.     *)
(* Without the critic, or with one that is the same model, the run has     *)
(* something to tell.                                                      *)
PublishMatrix(e) ==
    /\ At(e, "compile")
    /\ IF IsClaimant(e)
       THEN /\ matrix' = token[e] /\ compilation' = [compilation EXCEPT !.state = "PUBLISHED"]
            /\ got' = [got EXCEPT ![e] = token[e]]
            /\ \E w \in BOOLEAN : warned' = [warned EXCEPT ![e] = w]
            /\ Goto(e, "store") /\ UNCHANGED error
       ELSE /\ Goto(e, "fail") /\ error' = [error EXCEPT ![e] = "STALE_FENCING_TOKEN"]
            /\ UNCHANGED <<matrix, compilation, got, warned>>
    /\ UNCHANGED <<leased, task, token, runRef>>

(* The compiler has failed, its draft is not canonical, or publishMatrix   *)
(* has refused it: failCompilation, which may refuse as well.              *)
FailCompilation(e) ==
    /\ step[e] \in {"compile", "fail"}
    /\ IF IsClaimant(e) /\ compilation.state = "CLAIMED"
       THEN /\ compilation' = [compilation EXCEPT !.state = "FAILED"]
            /\ \E x \in {"TRANSIENT", "PERMANENT"} : error' = [error EXCEPT ![e] = x]
       ELSE error' = [error EXCEPT ![e] = "STALE_FENCING_TOKEN"] /\ UNCHANGED compilation
    /\ Goto(e, "failed")
    /\ UNCHANGED <<leased, matrix, task, token, got, warned, runRef>>

(* storeJson: the artifact of a task is written once, and again only with  *)
(* the same content.                                                       *)
Store(e) ==
    LET r == e[1]
    IN  /\ At(e, "store")
        /\ IF runRef[r] \in {NotStored, [matrix |-> got[e], warned |-> warned[e]]}
           THEN /\ runRef' = [runRef EXCEPT ![r] = [matrix |-> got[e], warned |-> warned[e]]]
                /\ Goto(e, "done") /\ UNCHANGED error
           ELSE Goto(e, "failed") /\ error' = [error EXCEPT ![e] = "CONFLICT"] /\ UNCHANGED runRef
        /\ UNCHANGED <<shared, task, token, got, warned>>

Work(e) ==
    \/ Read(e) \/ ClaimCompilation(e) \/ PublishMatrix(e) \/ FailCompilation(e) \/ Store(e)
    \/ Outcome(e)

Next ==
    \/ \E r \in Run : Start(r) \/ Lose(r) \/ EndRun(r)
    \/ \E e \in Execution : Work(e)
    \/ ExpireCompilation

Spec == Init /\ [][Next]_vars

(* Workers claim what is due and go on while they hold the lease of their  *)
(* task, and time passes.                                                  *)
Fairness ==
    /\ \A r \in Run : WF_vars(Start(r))
    /\ \A e \in Execution : WF_vars(Holding(e) /\ Work(e))
    /\ WF_vars(ExpireCompilation)

FairSpec == Spec /\ Fairness

(***************************************************************************)
(* Properties.                                                             *)
(***************************************************************************)

(* Every variable holds a value of its kind                                *)
(* (0008_matrix_driven_assessment.sql:5, 26).                              *)
TypeOK ==
    /\ compilation \in [state : {"NONE", "CLAIMED", "PUBLISHED", "FAILED"},
                        owner : Run \union {NoRun}, token : Nat]
    /\ leased \in BOOLEAN /\ matrix \in Nat
    /\ taskState \in [Run -> {"RUNNABLE", "SUCCEEDED", "FAILED"}] /\ cause \in [Run -> Error]
    /\ holder \in [Run -> {0} \union Slot] /\ failures \in [Run -> 0..MaxFailures]
    /\ active \subseteq Run /\ losses \in 0..MaxLoss
    /\ step \in [Execution -> Step] /\ token \in [Execution -> Nat] /\ got \in [Execution -> Nat]
    /\ warned \in [Execution -> BOOLEAN] /\ error \in [Execution -> Error]
    /\ runRef \in [Run -> [matrix : Nat, warned : BOOLEAN]]

(* The matrix is the one that the last claim has compiled: neither a       *)
(* compiler whose claim was taken over, be it by the same run, publishes   *)
(* its own, nor does its failure undo the one that is published            *)
(* (matrix-postgres-repository.ts:46, 80).                                 *)
MatrixIsClaimants ==
    IF matrix = NoMatrix
    THEN compilation.state # "PUBLISHED"
    ELSE compilation.state = "PUBLISHED" /\ matrix = compilation.token

(* Whoever has got a matrix, as its compiler or as a run that has waited,  *)
(* has got the one that is published, and a run passes with no other       *)
(* (matrix-compilation.ts:76, production-runtime.ts:1105).                 *)
SharedMatrix ==
    /\ \A e \in Execution : got[e] \in {NoMatrix, matrix}
    /\ \A r \in Run : taskState[r] = "SUCCEEDED" => matrix # NoMatrix /\ runRef[r].matrix = matrix

(* A run that waits for the claim of another one does not wait for ever:   *)
(* not when that one dies, is failed by another task or is overtaken       *)
(* (matrix-postgres-repository.ts:29).                                     *)
EveryRunEnds ==
    \A r \in Run : <>(r \notin active \/ taskState[r] # "RUNNABLE")

(* A run whose compilation was taken over waits for the matrix of the      *)
(* profile like the others (candidate-workflow/spec.md:41).                *)
OvertakenRunsWait ==
    \A r \in Run : cause[r] # "STALE_FENCING_TOKEN"

=============================================================================
