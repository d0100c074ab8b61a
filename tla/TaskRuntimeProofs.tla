------------------------- MODULE TaskRuntimeProofs -------------------------
(***************************************************************************)
(* Theorems about TaskRuntime, for any set of candidates, runs, tasks,     *)
(* groups and workers, any plan and any limits.                            *)
(***************************************************************************)
EXTENDS TaskRuntime, FiniteSetTheorems, TLAPS

-----------------------------------------------------------------------------
(* Type correctness *)

LEMMA InitTyped == Init => TypeOK
BY LimitAssumption
DEF LimitAssumption, Init, TypeOK, TaskStates, AttemptStates, EffectStates, GroupStates, RunStates, GoalStates,
    CandidateStatuses

(* Starting an attempt under a claim within the bound. *)
LEMMA AttemptTyped ==
    ASSUME TypeOK, NEW t \in Task, NEW w \in Worker, Claimable(t), StartAttempt(t, w),
           groupState' \in [Group -> GroupStates]
    PROVE  TypeOK'
<1> USE DEF TypeOK, StartAttempt
<1>1. leaseToken[t] + 1 \in 0..MaxClaims /\ leaseToken[t] + 1 \in Claims
  BY LimitAssumption DEF LimitAssumption, Claimable, Claims
<1>2. leaseToken' \in [Task -> 0..MaxClaims]
  BY <1>1
<1>3. attempt' \in [Task -> [Claims -> AttemptStates]]
  BY <1>1 DEF AttemptStates
<1>4. attemptOwner' \in [Task -> [Claims -> Worker \union {NoWorker}]]
  BY <1>1
<1>5. taskState' \in [Task -> TaskStates] /\ dispatched' \subseteq Task
  BY DEF TaskStates
<1>6. leaseOwner' \in [Task -> Worker \union {NoWorker}] /\ leaseExpired' \subseteq Task
  OBVIOUS
<1>7. used' \in [Run -> Nat]
  <2>1. RunOf[t] \in Run
    BY ReferenceAssumption DEF ReferenceAssumption
  <2>2. used' = [used EXCEPT ![RunOf[t]] = used[RunOf[t]] + 1]
    OBVIOUS
  <2> QED
    BY <2>1, <2>2
<1>8. UNCHANGED <<effectVars, requests, humanVars, originVars, goalVars>>
  OBVIOUS
<1> QED
  BY <1>2, <1>3, <1>4, <1>5, <1>6, <1>7, <1>8 DEF effectVars, humanVars, originVars, goalVars

(* Each command keeps the rows in their tables' domains. *)
LEMMA StepTyped == TypeOK /\ [Next]_vars => TypeOK'
<1> USE ReferenceAssumption
    DEF ReferenceAssumption, TypeOK, Claims, TaskStates, AttemptStates, EffectStates, GroupStates, RunStates, GoalStates,
        CandidateStatuses, leaseVars, effectVars, budgetVars, humanVars, originVars, goalVars,
        TasksOf, PlanOf, Shard, RunCandidate, CandidateRuns, Promotable, Promoted
<1> SUFFICES ASSUME TypeOK, [Next]_vars PROVE TypeOK'
  OBVIOUS
<1>1. ASSUME NEW c \in Candidate, Observe(c) PROVE TypeOK'
  BY <1>1 DEF Observe
<1>2. ASSUME NEW c \in Candidate, RepeatEnqueue(c) PROVE TypeOK'
  BY <1>2 DEF RepeatEnqueue
<1>3. ASSUME NEW r \in Run, CreateGoal(r) PROVE TypeOK'
  <2>1. taskState' \in [Task -> TaskStates]
    BY <1>3 DEF CreateGoal
  <2>2. PICK last \in Run \union {NoRun} :
           LET src == IF last # NoRun /\ runState[last] = "FAILED" THEN last ELSE NoRun
           IN  /\ dispatched' = dispatched \union InitiallyRunnable(r, src)
               /\ reused' = reused \union ReusedPrefix(r, src)
               /\ source' = [source EXCEPT ![r] = src]
    BY <1>3 DEF CreateGoal, SettledRuns
  <2>3. /\ dispatched' \subseteq Task
        /\ reused' \subseteq Task
        /\ source' \in [Run -> Run \union {NoRun}]
    BY <2>2 DEF InitiallyRunnable, ReusedPrefix
  <2>4. /\ triggeredBy' \in [Run -> Nat]
        /\ observed' \in [Candidate -> Nat]
        /\ enqueued' \subseteq Run
        /\ runState' \in [Run -> RunStates]
        /\ goalState' \in [Goal -> GoalStates]
    BY <1>3 DEF CreateGoal
  <2>5. UNCHANGED <<leaseVars, effectVars, budgetVars, humanVars, groupState, candidateStatus, request>>
    BY <1>3 DEF CreateGoal
  <2> QED
    BY <2>1, <2>3, <2>4, <2>5
<1>4. ASSUME NEW r \in Run, MarkAnalyzing(r) PROVE TypeOK'
  BY <1>4 DEF MarkAnalyzing
<1>5. CASE RestartDiscovery
  BY <1>5 DEF RestartDiscovery
<1>6. ASSUME NEW r \in Run, Promote(r) PROVE TypeOK'
  BY <1>6 DEF Promote
<1>7. ASSUME NEW r \in Run, ResumeRun(r) PROVE TypeOK'
  BY <1>7 DEF ResumeRun
<1>8. ASSUME NEW r \in Run, ResolveEscalation(r) PROVE TypeOK'
  BY <1>8 DEF ResolveEscalation
<1>9. ASSUME NEW t \in Task, NEW w \in Worker, Claim(t, w) PROVE TypeOK'
  BY <1>9, AttemptTyped DEF Claim
<1>10. ASSUME NEW t \in Task, NEW w \in Worker, ClaimById(t, w) PROVE TypeOK'
  BY <1>10, AttemptTyped DEF ClaimById
<1>11. ASSUME NEW t \in Task, LeaseExpires(t) PROVE TypeOK'
  BY <1>11 DEF LeaseExpires
<1>12. ASSUME NEW t \in Task, NEW n \in Claims, WorkerCommand(t, n) PROVE TypeOK'
  <2>1. CASE Heartbeat(t, n)
    BY <2>1 DEF Heartbeat
  <2>2. CASE PrepareEffect(t, n)
    BY <1>12, <2>2 DEF PrepareEffect
  <2>3. CASE PublishReport(t, n)
    BY <1>12, <2>3 DEF PublishReport
  <2>4. CASE Complete(t, n)
    BY <1>12, <2>4 DEF Complete, Settle, RecordEffect
  <2>5. CASE FailAndRetry(t, n)
    BY <1>12, <2>5 DEF FailAndRetry, Settle, RecordEffect
  <2>6. CASE FailShard(t, n)
    BY <1>12, <2>6 DEF FailShard, Settle, RecordEffect
  <2>7. CASE FailPlanTask(t, n)
    BY <1>12, <2>7 DEF FailPlanTask, Settle, RecordEffect
  <2>8. CASE ReportUnknown(t, n)
    BY <1>12, <2>8 DEF ReportUnknown, Settle, RecordEffect
  <2>9. CASE Defer(t, n)
    <3>1. used' \in [Run -> Nat]
      BY <2>9 DEF Defer
    <3>2. /\ taskState' \in [Task -> TaskStates] /\ dispatched' \subseteq Task
          /\ leaseOwner' \in [Task -> Worker \union {NoWorker}]
          /\ leaseExpired' \subseteq Task
          /\ attempt' \in [Task -> [Claims -> AttemptStates]]
      BY <1>12, <2>9 DEF Defer, Settle
    <3> QED
      BY <2>9, <3>1, <3>2 DEF Defer, Settle
  <2>10. CASE WaitForHuman(t, n)
    <3>1. /\ taskState' \in [Task -> TaskStates]
          /\ leaseOwner' \in [Task -> Worker \union {NoWorker}]
          /\ leaseExpired' \subseteq Task
          /\ attempt' \in [Task -> [Claims -> AttemptStates]]
          /\ escalated' \subseteq Run
      BY <1>12, <2>10 DEF WaitForHuman, Settle
    <3>2. /\ runState' \in [Run -> RunStates]
          /\ goalState' \in [Goal -> GoalStates]
          /\ candidateStatus' \in [Candidate -> CandidateStatuses]
      BY <2>10 DEF WaitForHuman
    <3>3. UNCHANGED <<leaseToken, attemptOwner, dispatched, effectVars, budgetVars, resuming, revoked,
                      archived, originVars, groupState>>
      BY <2>10 DEF WaitForHuman, Settle
    <3> QED
      BY <3>1, <3>2, <3>3
  <2> QED
    BY <1>12, <2>1, <2>2, <2>3, <2>4, <2>5, <2>6, <2>7, <2>8, <2>9, <2>10 DEF WorkerCommand
<1>13. ASSUME NEW g \in Group, MaterializeFanout(g) PROVE TypeOK'
  <2>1. taskState' \in [Task -> TaskStates]
    <3>1. PICK taken \in SUBSET ReusableShards(g) : taskState' = [t \in Task |->
              IF t \notin ShardsOf[g] THEN taskState[t]
              ELSE IF t \in taken THEN "SUCCEEDED" ELSE "PENDING"]
      BY <1>13 DEF MaterializeFanout
    <3> QED
      BY <3>1
  <2>2. groupState' \in [Group -> GroupStates]
    BY <1>13 DEF MaterializeFanout
  <2> QED
    BY <1>13, <2>1, <2>2 DEF MaterializeFanout
<1>14. ASSUME NEW g \in Group, CompleteFanout(g) PROVE TypeOK'
  BY <1>14 DEF CompleteFanout
<1>15. CASE ReadEscalations
  BY <1>15 DEF ReadEscalations
<1>16. ASSUME NEW c \in Candidate, Reprocess(c) PROVE TypeOK'
  BY <1>16 DEF Reprocess
<1>17. ASSUME NEW c \in Candidate, Archive(c) PROVE TypeOK'
  BY <1>17 DEF Archive
<1>18. ASSUME NEW c \in Candidate, Restore(c) PROVE TypeOK'
  BY <1>18 DEF Restore
<1>19. CASE RecoverStale
  <2>1. taskState' \in [Task -> TaskStates]
    BY <1>19 DEF RecoverStale, Recovered, Delivered
  <2>2. dispatched' \subseteq Task /\ leaseExpired' \subseteq Task
    BY <1>19 DEF RecoverStale, Stale, Live, Released
  <2>3. leaseOwner' \in [Task -> Worker \union {NoWorker}]
    BY <1>19 DEF RecoverStale
  <2>4. attempt' \in [Task -> [Claims -> AttemptStates]]
    <3>1. attempt' = [t \in Task |-> [n \in Claims |->
              IF t \in Stale /\ attempt[t][n] = "RUNNING"
              THEN IF t \in Uncertain THEN "UNKNOWN_OUTCOME" ELSE "FAILED"
              ELSE attempt[t][n]]]
      BY <1>19 DEF RecoverStale
    <3>2. ASSUME NEW t \in Task
          PROVE  [n \in Claims |->
                    IF t \in Stale /\ attempt[t][n] = "RUNNING"
                    THEN IF t \in Uncertain THEN "UNKNOWN_OUTCOME" ELSE "FAILED"
                    ELSE attempt[t][n]] \in [Claims -> AttemptStates]
      <4>1. attempt[t] \in [Claims -> AttemptStates]
        OBVIOUS
      <4> HIDE DEF TypeOK
      <4> QED
        BY <4>1
    <3> HIDE DEF TypeOK
    <3> QED
      BY <3>1, <3>2
  <2>5. runState' \in [Run -> RunStates]
    BY <1>19 DEF RecoverStale
  <2>6. goalState' \in [Goal -> GoalStates]
    BY <1>19 DEF RecoverStale
  <2>7. UNCHANGED <<leaseToken, attemptOwner, effectVars, budgetVars, humanVars, originVars,
                    groupState, candidateStatus>>
    BY <1>19 DEF RecoverStale
  <2> QED
    BY <2>1, <2>2, <2>3, <2>4, <2>5, <2>6, <2>7
<1>20. CASE UNCHANGED vars
  BY <1>20 DEF vars
<1> QED
  BY <1>1, <1>2, <1>3, <1>4, <1>5, <1>6, <1>7, <1>8, <1>9, <1>10, <1>11, <1>12, <1>13, <1>14,
     <1>15, <1>16, <1>17, <1>18, <1>19, <1>20 DEF Next

(* The rows of every table stay in the domains the schema gives them. *)
THEOREM TypeCorrect == Spec => []TypeOK
BY InitTyped, StepTyped, PTL DEF Spec

-----------------------------------------------------------------------------
(* Leases *)

LeaseInv == TypeOK /\ RowsExist /\ LeaseExclusive /\ FreshClaims

LEMMA InitLeased == Init => LeaseInv
<1> SUFFICES ASSUME Init PROVE LeaseInv
  OBVIOUS
<1>1. TypeOK
  BY InitTyped
<1>2. RowsExist
  BY ReferenceAssumption DEF ReferenceAssumption, Init, RowsExist
<1>3. LeaseExclusive /\ FreshClaims
  BY DEF Init, LeaseExclusive, FreshClaims
<1> QED
  BY <1>1, <1>2, <1>3 DEF LeaseInv

(* A row that exists is not removed, and rows are created in the order     *)
(* run, group, task.                                                       *)
LEMMA StepRowsExist == TypeOK /\ RowsExist /\ [Next]_vars => RowsExist'
<1> USE ReferenceAssumption, ShardAssumption
    DEF ReferenceAssumption, ShardAssumption, TypeOK, RowsExist, leaseVars, effectVars, budgetVars,
        humanVars, originVars, goalVars, TasksOf, PlanOf, Shard, CandidateRuns,
        Promotable, Promoted, Holds, HoldsAttempt
<1> SUFFICES ASSUME TypeOK, RowsExist, [Next]_vars PROVE RowsExist'
  OBVIOUS
<1>1. ASSUME NEW c \in Candidate,
             Observe(c) \/ RepeatEnqueue(c) \/ Reprocess(c) \/ Restore(c)
      PROVE  RowsExist'
  BY <1>1 DEF Observe, RepeatEnqueue, Reprocess, Restore
<1>2. ASSUME NEW r \in Run, CreateGoal(r) PROVE RowsExist'
  BY <1>2 DEF CreateGoal
<1>3. ASSUME NEW r \in Run, MarkAnalyzing(r) PROVE RowsExist'
  BY <1>3 DEF MarkAnalyzing
<1>4. CASE RestartDiscovery \/ ReadEscalations
  BY <1>4 DEF RestartDiscovery, ReadEscalations
<1>5. ASSUME NEW r \in Run, Promote(r) PROVE RowsExist'
  BY <1>5 DEF Promote
<1>6. ASSUME NEW r \in Run, ResumeRun(r) PROVE RowsExist'
  BY <1>6 DEF ResumeRun
<1>7. ASSUME NEW r \in Run, ResolveEscalation(r) PROVE RowsExist'
  BY <1>7 DEF ResolveEscalation
<1>8. ASSUME NEW t \in Task, NEW w \in Worker, Claim(t, w) PROVE RowsExist'
  BY <1>8 DEF Claim, Claimable, StartAttempt
<1>9. ASSUME NEW t \in Task, NEW w \in Worker, ClaimById(t, w) PROVE RowsExist'
  BY <1>9 DEF ClaimById, Claimable, StartAttempt
<1>10. ASSUME NEW t \in Task, LeaseExpires(t) PROVE RowsExist'
  BY <1>10 DEF LeaseExpires
<1>11. ASSUME NEW t \in Task, NEW n \in Claims, WorkerCommand(t, n) PROVE RowsExist'
  <2>1. CASE Heartbeat(t, n) \/ PrepareEffect(t, n) \/ PublishReport(t, n)
    BY <2>1 DEF Heartbeat, PrepareEffect, PublishReport
  <2>2. CASE Complete(t, n)
    BY <2>2 DEF Complete
  <2>3. CASE FailAndRetry(t, n) \/ ReportUnknown(t, n) \/ Defer(t, n)
    BY <2>3 DEF FailAndRetry, ReportUnknown, Defer
  <2>4. CASE FailShard(t, n)
    BY <2>4 DEF FailShard
  <2>5. CASE FailPlanTask(t, n)
    BY <2>5 DEF FailPlanTask
  <2>6. CASE WaitForHuman(t, n)
    BY <2>6 DEF WaitForHuman
  <2> QED
    BY <1>11, <2>1, <2>2, <2>3, <2>4, <2>5, <2>6 DEF WorkerCommand
<1>12. ASSUME NEW g \in Group, MaterializeFanout(g) PROVE RowsExist'
  BY <1>12 DEF MaterializeFanout
<1>13. ASSUME NEW g \in Group, CompleteFanout(g) PROVE RowsExist'
  BY <1>13 DEF CompleteFanout
<1>14. ASSUME NEW c \in Candidate, Archive(c) PROVE RowsExist'
  BY <1>14 DEF Archive
<1>15. CASE RecoverStale
  <2>1. \A t \in Task : taskState[t] = "ABSENT" => taskState'[t] = "ABSENT"
    <3>1. Notified \subseteq Task /\ \A t \in Notified : taskState[t] = "UNKNOWN_OUTCOME"
      BY DEF Notified, Live
    <3>2. \A t \in Task : taskState[t] = "ABSENT" => Delivered[t] = "ABSENT"
      BY <3>1 DEF Delivered
    <3>3. \A t \in Task : taskState[t] = "ABSENT" => Recovered[t] = "ABSENT"
      BY <3>2 DEF Recovered, Stale, Uncertain
    <3>4. \A t \in Task : taskState[t] = "ABSENT" => t \notin Released
      BY <3>3 DEF Released
    <3> QED
      BY <1>15, <3>3, <3>4 DEF RecoverStale
  <2>2. \A r \in Run : runState'[r] = "ABSENT" => runState[r] = "ABSENT"
    BY <1>15 DEF RecoverStale
  <2>3. groupState' = groupState
    BY <1>15 DEF RecoverStale
  <2> QED
    BY <2>1, <2>2, <2>3
<1>16. CASE UNCHANGED vars
  BY <1>16 DEF vars
<1> QED
  BY <1>1, <1>2, <1>3, <1>4, <1>5, <1>6, <1>7, <1>8, <1>9, <1>10, <1>11, <1>12, <1>13, <1>14,
     <1>15, <1>16 DEF Next

(* The leases after a step that leaves them and every running task alone.  *)
LEMMA UnmovedLeased ==
    ASSUME LeaseInv,
           \A u \in Task : \/ taskState'[u] = taskState[u]
                           \/ taskState[u] \notin {"RUNNING", "CANCELLED"} /\ taskState'[u] # "RUNNING",
           UNCHANGED <<leaseOwner, leaseToken, attempt, attemptOwner>>
    PROVE  LeaseExclusive' /\ FreshClaims'
BY DEF LeaseInv, LeaseExclusive, FreshClaims

(* The leases after task t has started an attempt. *)
LEMMA ClaimLeased ==
    ASSUME LeaseInv, NEW t \in Task, NEW w \in Worker, Claimable(t), StartAttempt(t, w)
    PROVE  LeaseExclusive' /\ FreshClaims'
<1> DEFINE n == leaseToken[t] + 1
<1>1. /\ leaseToken \in [Task -> 0..MaxClaims]
      /\ attempt \in [Task -> [Claims -> AttemptStates]]
      /\ attemptOwner \in [Task -> [Claims -> Worker \union {NoWorker}]]
      /\ leaseOwner \in [Task -> Worker \union {NoWorker}]
      /\ taskState \in [Task -> TaskStates]
  BY DEF LeaseInv, TypeOK
<1>2. n \in Claims /\ leaseToken[t] \in Nat /\ taskState[t] = "RUNNABLE"
  BY <1>1, LimitAssumption DEF LimitAssumption, Claimable, Claims
<1>3. \A m \in Claims : attempt[t][m] # "RUNNING" /\ (m > leaseToken[t] => attempt[t][m] = "NONE")
  BY <1>2 DEF LeaseInv, LeaseExclusive, FreshClaims
<1>4. /\ taskState' = [taskState EXCEPT ![t] = "RUNNING"]
      /\ leaseOwner' = [leaseOwner EXCEPT ![t] = w]
      /\ leaseToken' = [leaseToken EXCEPT ![t] = n]
      /\ attempt' = [attempt EXCEPT ![t][n] = "RUNNING"]
      /\ attemptOwner' = [attemptOwner EXCEPT ![t][n] = w]
  BY DEF StartAttempt
<1> HIDE DEF n
<1>5. /\ taskState'[t] = "RUNNING" /\ leaseOwner'[t] = w /\ leaseToken'[t] = n
      /\ attempt'[t][n] = "RUNNING" /\ attemptOwner'[t][n] = w
      /\ \A m \in Claims \ {n} : attempt'[t][m] = attempt[t][m]
  BY <1>1, <1>2, <1>4
<1>6. \A u \in Task \ {t} :
        /\ taskState'[u] = taskState[u] /\ leaseOwner'[u] = leaseOwner[u]
        /\ leaseToken'[u] = leaseToken[u] /\ attempt'[u] = attempt[u]
        /\ attemptOwner'[u] = attemptOwner[u]
  BY <1>1, <1>4
<1>7. \A m \in Claims : m > n => m # n /\ m > leaseToken[t]
  BY <1>2 DEF n, Claims
<1>8. LeaseExclusive'
  BY <1>2, <1>3, <1>5, <1>6 DEF LeaseInv, LeaseExclusive
<1>9. FreshClaims'
  BY <1>3, <1>5, <1>6, <1>7 DEF LeaseInv, FreshClaims
<1> QED
  BY <1>8, <1>9

(* The leases after claim n, under which t is held, has been settled. *)
LEMMA SettleLeased ==
    ASSUME LeaseInv, NEW t \in Task, NEW n \in Claims, NEW result,
           Holds(t, n), Settle(t, n, result), result # "RUNNING", taskState'[t] # "RUNNING",
           \A u \in Task \ {t} :
              \/ taskState'[u] = taskState[u]
              \/ taskState[u] \notin {"RUNNING", "CANCELLED"} /\ taskState'[u] # "RUNNING"
    PROVE  LeaseExclusive' /\ FreshClaims'
<1>1. /\ leaseToken \in [Task -> 0..MaxClaims]
      /\ attempt \in [Task -> [Claims -> AttemptStates]]
      /\ leaseOwner \in [Task -> Worker \union {NoWorker}]
      /\ leaseToken[t] = n
      /\ n \in Nat
  BY DEF LeaseInv, TypeOK, Holds, Claims
<1>2. \A m \in Claims : attempt[t][m] = "RUNNING" => m = n
  BY <1>1 DEF LeaseInv, LeaseExclusive
<1>3. /\ leaseToken' = leaseToken /\ attemptOwner' = attemptOwner
      /\ attempt'[t][n] = result
      /\ \A m \in Claims \ {n} : attempt'[t][m] = attempt[t][m]
      /\ \A u \in Task \ {t} : attempt'[u] = attempt[u] /\ leaseOwner'[u] = leaseOwner[u]
  BY <1>1 DEF Settle
<1>4. \A m \in Claims : attempt'[t][m] # "RUNNING"
  BY <1>2, <1>3
<1>5. \A m \in Claims : m > n => m # n
  BY <1>1 DEF Claims
<1>6. LeaseExclusive'
  BY <1>3, <1>4 DEF LeaseInv, LeaseExclusive
<1>7. FreshClaims'
  BY <1>1, <1>3, <1>5 DEF LeaseInv, FreshClaims
<1> QED
  BY <1>6, <1>7

(* Every command keeps one open attempt per lease, and none beyond it.     *)
LEMMA StepLeased == LeaseInv /\ [Next]_vars => LeaseExclusive' /\ FreshClaims'
<1> USE DEF leaseVars, effectVars, goalVars, Promotable, Promoted, TasksOf, PlanOf
<1> DEFINE Leased == LeaseExclusive' /\ FreshClaims'
           Still == \A u \in Task : \/ taskState'[u] = taskState[u]
                                    \/ /\ taskState[u] \notin {"RUNNING", "CANCELLED"}
                                       /\ taskState'[u] # "RUNNING"
           StillBut(t) == \A u \in Task \ {t} :
                             \/ taskState'[u] = taskState[u]
                             \/ /\ taskState[u] \notin {"RUNNING", "CANCELLED"}
                                /\ taskState'[u] # "RUNNING"
<1> SUFFICES ASSUME LeaseInv, [Next]_vars PROVE Leased
  OBVIOUS
<1>0. taskState \in [Task -> TaskStates]
  BY DEF LeaseInv, TypeOK
<1>1. ASSUME UNCHANGED <<taskState, leaseOwner, leaseToken, attempt, attemptOwner>> PROVE Leased
  BY <1>1, UnmovedLeased
<1>2. ASSUME NEW c \in Candidate,
             Observe(c) \/ RepeatEnqueue(c) \/ Reprocess(c) \/ Restore(c)
      PROVE  Leased
  BY <1>1, <1>2 DEF Observe, RepeatEnqueue, Reprocess, Restore
<1>3. ASSUME NEW r \in Run, CreateGoal(r) PROVE Leased
  <2>1. \A t \in PlanOf(r) : taskState[t] = "ABSENT"
    BY <1>3 DEF CreateGoal, LeaseInv, RowsExist
  <2>2. Still
    BY <1>3, <2>1 DEF CreateGoal
  <2>3. UNCHANGED <<leaseOwner, leaseToken, attempt, attemptOwner>>
    BY <1>3 DEF CreateGoal
  <2> QED
    BY <2>2, <2>3, UnmovedLeased
<1>4. ASSUME NEW r \in Run, MarkAnalyzing(r) \/ ResolveEscalation(r) PROVE Leased
  BY <1>1, <1>4 DEF MarkAnalyzing, ResolveEscalation
<1>5. CASE RestartDiscovery \/ ReadEscalations
  BY <1>1, <1>5 DEF RestartDiscovery, ReadEscalations
<1>6. ASSUME NEW r \in Run, Promote(r) PROVE Leased
  <2>1. Still
    BY <1>0, <1>6 DEF Promote
  <2> QED
    BY <1>6, <2>1, UnmovedLeased DEF Promote
<1>7. ASSUME NEW r \in Run, ResumeRun(r) PROVE Leased
  <2>1. Still
    BY <1>0, <1>7 DEF ResumeRun
  <2> QED
    BY <1>7, <2>1, UnmovedLeased DEF ResumeRun
<1>8. ASSUME NEW t \in Task, NEW w \in Worker, Claim(t, w) \/ ClaimById(t, w) PROVE Leased
  BY <1>8, ClaimLeased DEF Claim, ClaimById
<1>9. ASSUME NEW t \in Task, LeaseExpires(t) PROVE Leased
  BY <1>1, <1>9 DEF LeaseExpires
<1>10. ASSUME NEW t \in Task, NEW n \in Claims, WorkerCommand(t, n) PROVE Leased
  <2>1. CASE Heartbeat(t, n) \/ PrepareEffect(t, n) \/ PublishReport(t, n)
    BY <1>1, <2>1 DEF Heartbeat, PrepareEffect, PublishReport
  <2>2. ASSUME NEW result, Holds(t, n), Settle(t, n, result), result # "RUNNING",
               taskState'[t] # "RUNNING", StillBut(t)
        PROVE  Leased
    BY <1>10, <2>2, SettleLeased
  <2>3. CASE Complete(t, n)
    <3>1. taskState'[t] # "RUNNING" /\ StillBut(t)
      BY <1>0, <2>3 DEF Complete
    <3> QED
      BY <2>2, <2>3, <3>1 DEF Complete, HoldsAttempt
  <2>4. CASE FailAndRetry(t, n)
    <3>1. taskState'[t] # "RUNNING" /\ StillBut(t)
      BY <1>0, <2>4 DEF FailAndRetry
    <3> QED
      BY <2>2, <2>4, <3>1 DEF FailAndRetry, HoldsAttempt
  <2>5. CASE FailShard(t, n)
    <3>1. taskState'[t] # "RUNNING" /\ StillBut(t)
      BY <1>0, <2>5 DEF FailShard
    <3> QED
      BY <2>2, <2>5, <3>1 DEF FailShard, HoldsAttempt
  <2>6. CASE FailPlanTask(t, n)
    <3>1. taskState'[t] # "RUNNING" /\ StillBut(t)
      BY <1>0, <2>6 DEF FailPlanTask
    <3> QED
      BY <2>2, <2>6, <3>1 DEF FailPlanTask, HoldsAttempt
  <2>7. CASE ReportUnknown(t, n)
    <3>1. taskState'[t] # "RUNNING" /\ StillBut(t)
      BY <1>0, <2>7 DEF ReportUnknown
    <3> QED
      BY <2>2, <2>7, <3>1 DEF ReportUnknown, HoldsAttempt
  <2>8. CASE Defer(t, n)
    <3>1. taskState'[t] # "RUNNING" /\ StillBut(t)
      BY <1>0, <2>8 DEF Defer
    <3> QED
      BY <2>2, <2>8, <3>1 DEF Defer, HoldsAttempt
  <2>9. CASE WaitForHuman(t, n)
    <3>1. taskState'[t] # "RUNNING" /\ StillBut(t)
      BY <1>0, <2>9 DEF WaitForHuman
    <3> QED
      BY <2>2, <2>9, <3>1 DEF WaitForHuman
  <2> QED
    BY <1>10, <2>1, <2>3, <2>4, <2>5, <2>6, <2>7, <2>8, <2>9 DEF WorkerCommand
<1>11. ASSUME NEW g \in Group, MaterializeFanout(g) PROVE Leased
  <2>1. \A t \in ShardsOf[g] : taskState[t] = "ABSENT"
    BY <1>11 DEF MaterializeFanout, LeaseInv, RowsExist
  <2>2. Still
    BY <1>11, <2>1 DEF MaterializeFanout
  <2> QED
    BY <1>11, <2>2, UnmovedLeased DEF MaterializeFanout
<1>12. ASSUME NEW g \in Group, CompleteFanout(g) PROVE Leased
  BY <1>1, <1>12 DEF CompleteFanout
<1>13. ASSUME NEW c \in Candidate, Archive(c) PROVE Leased
  <2>1. PICK cancelled \in SUBSET Task :
          /\ taskState' = [t \in Task |-> IF t \in cancelled THEN "CANCELLED" ELSE taskState[t]]
          /\ leaseOwner' = [t \in Task |-> IF t \in cancelled THEN NoWorker ELSE leaseOwner[t]]
          /\ UNCHANGED <<leaseToken, attempt, attemptOwner>>
    BY <1>13 DEF Archive
  <2> QED
    BY <2>1 DEF LeaseInv, LeaseExclusive, FreshClaims
<1>14. CASE RecoverStale
  <2>1. Stale \subseteq Task /\ Notified \subseteq Task /\ Released \subseteq Task
    BY DEF Stale, Notified, Live, Released
  <2>2. \A t \in Task : Delivered[t] = IF t \in Notified THEN "SUCCEEDED" ELSE taskState[t]
    BY DEF Delivered
  <2>3. \A t \in Notified : taskState[t] = "UNKNOWN_OUTCOME"
    BY DEF Notified
  <2>4. \A t \in Stale : taskState[t] \in {"RUNNING", "UNKNOWN_OUTCOME"} /\ t \notin Notified
    BY <2>2 DEF Stale, Live
  <2>5. \A t \in Task : Recovered[t] = IF t \in Uncertain THEN "UNKNOWN_OUTCOME"
                                       ELSE IF t \in Stale THEN "RUNNABLE" ELSE Delivered[t]
    BY DEF Recovered
  <2>6. \A t \in Released : Recovered[t] = "PENDING"
    BY DEF Released
  <2>7. \A t \in Task : taskState'[t] = IF t \in Released THEN "RUNNABLE" ELSE Recovered[t]
    BY <1>14 DEF RecoverStale
  <2>8. /\ \A t \in Task : t \notin Stale =>
             taskState'[t] = taskState[t] \/ ( taskState[t] \notin {"RUNNING", "CANCELLED"}
                                               /\ taskState'[t] # "RUNNING")
        /\ \A t \in Stale : taskState'[t] # "RUNNING" /\ taskState[t] # "CANCELLED"
    BY <2>1, <2>2, <2>3, <2>4, <2>5, <2>6, <2>7 DEF Uncertain
  <2>9. /\ UNCHANGED <<leaseToken, attemptOwner>>
        /\ \A t \in Task, n \in Claims :
             /\ t \notin Stale => attempt'[t][n] = attempt[t][n]
             /\ t \in Stale => attempt'[t][n] # "RUNNING"
             /\ attempt[t][n] = "NONE" => attempt'[t][n] = "NONE"
        /\ \A t \in Task : t \notin Stale /\ taskState[t] = "RUNNING" => leaseOwner'[t] = leaseOwner[t]
    BY <1>14, <2>3 DEF RecoverStale
  <2>10. LeaseExclusive'
    <3>1. ASSUME NEW t \in Task, NEW n \in Claims, attempt'[t][n] = "RUNNING"
          PROVE  n = leaseToken'[t] /\ taskState'[t] \in {"RUNNING", "CANCELLED"}
      BY <2>8, <2>9, <3>1 DEF LeaseInv, LeaseExclusive
    <3>2. ASSUME NEW t \in Task, taskState'[t] = "RUNNING"
          PROVE  /\ leaseToken'[t] \in Claims
                 /\ attempt'[t][leaseToken'[t]] = "RUNNING"
                 /\ attemptOwner'[t][leaseToken'[t]] = leaseOwner'[t]
      <4>1. t \notin Stale /\ taskState[t] = "RUNNING"
        BY <2>8, <3>2
      <4> QED
        BY <2>9, <4>1 DEF LeaseInv, LeaseExclusive
    <3> QED
      BY <3>1, <3>2 DEF LeaseExclusive
  <2>11. FreshClaims'
    BY <2>9 DEF LeaseInv, FreshClaims
  <2> QED
    BY <2>10, <2>11
<1>15. CASE UNCHANGED vars
  BY <1>1, <1>15 DEF vars
<1> QED
  BY <1>2, <1>3, <1>4, <1>5, <1>6, <1>7, <1>8, <1>9, <1>10, <1>11, <1>12, <1>13, <1>14, <1>15
  DEF Next

LEMMA StepLeaseInv == LeaseInv /\ [Next]_vars => LeaseInv'
BY StepTyped, StepRowsExist, StepLeased DEF LeaseInv

(* At most one attempt of a task is open at any time, it is the one of the *)
(* task's lease, and it belongs to the worker that holds the lease.        *)
THEOREM LeasesAreExclusive == Spec => []LeaseExclusive
<1>1. LeaseInv => LeaseExclusive
  BY DEF LeaseInv
<1> QED
  BY <1>1, InitLeased, StepLeaseInv, PTL DEF Spec

-----------------------------------------------------------------------------
(* How the rows move *)

(* The moves of a task's state machine: a row that succeeded, failed or    *)
(* was cancelled moves no more.                                            *)
TaskMove(t) ==
    \/ taskState'[t] = taskState[t]
    \/ taskState[t] = "ABSENT" /\ taskState'[t] \in {"PENDING", "RUNNABLE", "SUCCEEDED"}
    \/ taskState[t] = "PENDING" /\ taskState'[t] = "RUNNABLE"
    \/ taskState[t] = "RUNNABLE" /\ taskState'[t] = "RUNNING"
    \/ /\ taskState[t] = "RUNNING"
       /\ taskState'[t] \in {"SUCCEEDED", "RUNNABLE", "FAILED", "UNKNOWN_OUTCOME", "WAITING"}
    \/ taskState[t] = "WAITING" /\ taskState'[t] \in {"RUNNABLE", "UNKNOWN_OUTCOME"}
    \/ taskState[t] = "UNKNOWN_OUTCOME" /\ taskState'[t] \in {"SUCCEEDED", "RUNNABLE"}
    \/ /\ taskState[t] \in {"PENDING", "RUNNABLE", "RUNNING", "WAITING", "UNKNOWN_OUTCOME"}
       /\ taskState'[t] = "CANCELLED"

(* What recoverStale does to each task, in one formula. *)
LEMMA RecoveredTasks ==
    ASSUME TypeOK, RecoverStale
    PROVE  /\ Notified \subseteq Task /\ Stale \subseteq Task /\ Released \subseteq Task
           /\ Uncertain \subseteq Stale
           /\ \A t \in Task : taskState'[t] =
                 IF t \in Released THEN "RUNNABLE"
                 ELSE IF t \in Uncertain THEN "UNKNOWN_OUTCOME"
                 ELSE IF t \in Stale THEN "RUNNABLE"
                 ELSE IF t \in Notified THEN "SUCCEEDED" ELSE taskState[t]
           /\ \A t \in Notified : /\ taskState[t] = "UNKNOWN_OUTCOME" /\ t \in NotificationTask
                                  /\ runState[RunOf[t]] = "ACTIVE"
           /\ \A t \in Stale : /\ runState[RunOf[t]] = "ACTIVE" /\ t \notin Notified
                               /\ \/ taskState[t] = "RUNNING" /\ t \in leaseExpired
                                  \/ taskState[t] = "UNKNOWN_OUTCOME" /\ effect[t] = "NONE"
           /\ \A t \in Uncertain : effect[t] = "UNKNOWN_OUTCOME" /\ taskState[t] = "RUNNING"
           /\ \A t \in Released : taskState[t] = "PENDING" /\ t \notin Stale /\ t \notin Notified
<1>1. Notified \subseteq Task /\ Stale \subseteq Task /\ Released \subseteq Task /\ Uncertain \subseteq Stale
  BY DEF Notified, Stale, Live, Released, Promotable, TasksOf, Uncertain
<1>2. \A t \in Notified : /\ taskState[t] = "UNKNOWN_OUTCOME" /\ t \in NotificationTask
                          /\ runState[RunOf[t]] = "ACTIVE"
  BY DEF Notified, Live
<1>3. \A t \in Task : Delivered[t] = IF t \in Notified THEN "SUCCEEDED" ELSE taskState[t]
  BY DEF Delivered
<1>4. \A t \in Stale : /\ runState[RunOf[t]] = "ACTIVE" /\ t \notin Notified
                       /\ \/ taskState[t] = "RUNNING" /\ t \in leaseExpired
                          \/ taskState[t] = "UNKNOWN_OUTCOME" /\ effect[t] = "NONE"
  BY <1>1, <1>3 DEF Stale, Live
<1>5. \A t \in Uncertain : effect[t] = "UNKNOWN_OUTCOME" /\ taskState[t] = "RUNNING"
  BY <1>4 DEF Uncertain
<1>6. \A t \in Task : Recovered[t] = IF t \in Uncertain THEN "UNKNOWN_OUTCOME"
                                     ELSE IF t \in Stale THEN "RUNNABLE" ELSE Delivered[t]
  BY DEF Recovered
<1>7. \A t \in Released : Recovered[t] = "PENDING"
  BY DEF Released, Promotable
<1>8. \A t \in Released : taskState[t] = "PENDING" /\ t \notin Stale /\ t \notin Notified
  BY <1>1, <1>3, <1>4, <1>6, <1>7
<1>9. \A t \in Task : taskState'[t] = IF t \in Released THEN "RUNNABLE" ELSE Recovered[t]
  BY DEF RecoverStale, Promoted
<1>10. \A t \in Task : taskState'[t] =
                 IF t \in Released THEN "RUNNABLE"
                 ELSE IF t \in Uncertain THEN "UNKNOWN_OUTCOME"
                 ELSE IF t \in Stale THEN "RUNNABLE"
                 ELSE IF t \in Notified THEN "SUCCEEDED" ELSE taskState[t]
  BY <1>3, <1>6, <1>9
<1> QED
  BY <1>1, <1>2, <1>4, <1>5, <1>8, <1>10

(* What createGoal does to the tables, for one choice of the source. *)
LEMMA CreatedRows ==
    ASSUME TypeOK, NEW r \in Run, CreateGoal(r)
    PROVE  \E src \in Run \union {NoRun} :
              /\ taskState' = [t \in Task |->
                    IF t \notin PlanOf(r) THEN taskState[t]
                    ELSE IF t \in ReusedPrefix(r, src) THEN "SUCCEEDED"
                    ELSE IF t \in InitiallyRunnable(r, src) THEN "RUNNABLE" ELSE "PENDING"]
              /\ dispatched' = dispatched \union InitiallyRunnable(r, src)
              /\ reused' = reused \union ReusedPrefix(r, src)
              /\ source' = [source EXCEPT ![r] = src]
              /\ runState[r] = "ABSENT"
              /\ runState' = [runState EXCEPT ![r] = "ACTIVE"]
              /\ groupState' = groupState
BY DEF CreateGoal, SettledRuns

(* No command moves a task's row otherwise. *)
LEMMA StepTasks == LeaseInv /\ [Next]_vars => \A t \in Task : TaskMove(t)
<1> USE DEF leaseVars, effectVars, goalVars, Promotable, Promoted, TasksOf, PlanOf, TaskMove
<1> DEFINE Moves == \A u \in Task : TaskMove(u)
<1> SUFFICES ASSUME LeaseInv, [Next]_vars PROVE Moves
  OBVIOUS
<1>0. taskState \in [Task -> TaskStates]
  BY DEF LeaseInv, TypeOK
<1>1. ASSUME UNCHANGED taskState PROVE Moves
  BY <1>1
<1>2. ASSUME NEW c \in Candidate,
             Observe(c) \/ RepeatEnqueue(c) \/ Reprocess(c) \/ Restore(c)
      PROVE  Moves
  BY <1>1, <1>2 DEF Observe, RepeatEnqueue, Reprocess, Restore
<1>3. ASSUME NEW r \in Run, CreateGoal(r) PROVE Moves
  <2>1. \A t \in PlanOf(r) : taskState[t] = "ABSENT"
    BY <1>3 DEF CreateGoal, LeaseInv, RowsExist
  <2> QED
    BY <1>3, <2>1 DEF CreateGoal
<1>4. ASSUME NEW r \in Run, MarkAnalyzing(r) \/ ResolveEscalation(r) PROVE Moves
  BY <1>1, <1>4 DEF MarkAnalyzing, ResolveEscalation
<1>5. CASE RestartDiscovery \/ ReadEscalations
  BY <1>1, <1>5 DEF RestartDiscovery, ReadEscalations
<1>6. ASSUME NEW r \in Run, Promote(r) PROVE Moves
  BY <1>0, <1>6 DEF Promote
<1>7. ASSUME NEW r \in Run, ResumeRun(r) PROVE Moves
  BY <1>0, <1>7 DEF ResumeRun
<1>8. ASSUME NEW t \in Task, NEW w \in Worker, Claim(t, w) \/ ClaimById(t, w) PROVE Moves
  BY <1>0, <1>8 DEF Claim, ClaimById, Claimable, StartAttempt
<1>9. ASSUME NEW t \in Task, LeaseExpires(t) PROVE Moves
  BY <1>1, <1>9 DEF LeaseExpires
<1>10. ASSUME NEW t \in Task, NEW n \in Claims, WorkerCommand(t, n) PROVE Moves
  <2>1. CASE Heartbeat(t, n) \/ PrepareEffect(t, n) \/ PublishReport(t, n)
    BY <1>1, <2>1 DEF Heartbeat, PrepareEffect, PublishReport
  <2>2. CASE Complete(t, n)
    BY <1>0, <2>2 DEF Complete, HoldsAttempt, Holds
  <2>3. CASE FailAndRetry(t, n)
    BY <1>0, <2>3 DEF FailAndRetry, HoldsAttempt, Holds
  <2>4. CASE FailShard(t, n)
    BY <1>0, <2>4 DEF FailShard, HoldsAttempt, Holds
  <2>5. CASE FailPlanTask(t, n)
    BY <1>0, <2>5 DEF FailPlanTask, HoldsAttempt, Holds
  <2>6. CASE ReportUnknown(t, n)
    BY <1>0, <2>6 DEF ReportUnknown, HoldsAttempt, Holds
  <2>7. CASE Defer(t, n)
    BY <1>0, <2>7 DEF Defer, HoldsAttempt, Holds
  <2>8. CASE WaitForHuman(t, n)
    BY <1>0, <2>8 DEF WaitForHuman, Holds
  <2> QED
    BY <1>10, <2>1, <2>2, <2>3, <2>4, <2>5, <2>6, <2>7, <2>8 DEF WorkerCommand
<1>11. ASSUME NEW g \in Group, MaterializeFanout(g) PROVE Moves
  <2>1. \A t \in ShardsOf[g] : taskState[t] = "ABSENT"
    BY <1>11 DEF MaterializeFanout, LeaseInv, RowsExist
  <2> QED
    BY <1>11, <2>1 DEF MaterializeFanout
<1>12. ASSUME NEW g \in Group, CompleteFanout(g) PROVE Moves
  BY <1>1, <1>12 DEF CompleteFanout
<1>13. ASSUME NEW c \in Candidate, Archive(c) PROVE Moves
  BY <1>0, <1>13 DEF Archive
<1>14. CASE RecoverStale
  BY <1>14, RecoveredTasks DEF LeaseInv
<1>15. CASE UNCHANGED vars
  BY <1>1, <1>15 DEF vars
<1> QED
  BY <1>2, <1>3, <1>4, <1>5, <1>6, <1>7, <1>8, <1>9, <1>10, <1>11, <1>12, <1>13, <1>14, <1>15
  DEF Next

(* The moves of a run: what has ended, or was paused by archiving, stays. *)
RunMove(r) ==
    \/ runState'[r] = runState[r]
    \/ runState[r] = "ABSENT" /\ runState'[r] = "ACTIVE" /\ CreateGoal(r)
    \/ /\ runState[r] = "ACTIVE"
       /\ runState'[r] \in {"SUCCEEDED", "FAILED", "WAITING_FOR_HUMAN", "PAUSED"}
    \/ runState[r] = "WAITING_FOR_HUMAN" /\ runState'[r] \in {"ACTIVE", "PAUSED"}

(* No command moves a run's row otherwise. *)
LEMMA StepRuns == TypeOK /\ [Next]_vars => \A r \in Run : RunMove(r)
<1> USE ReferenceAssumption DEF ReferenceAssumption, leaseVars, effectVars, goalVars, RunMove
<1> DEFINE Moves == \A s \in Run : RunMove(s)
<1> SUFFICES ASSUME TypeOK, [Next]_vars PROVE Moves
  OBVIOUS
<1>0. runState \in [Run -> RunStates]
  BY DEF TypeOK
<1>1. ASSUME UNCHANGED runState PROVE Moves
  BY <1>1
<1>2. ASSUME NEW c \in Candidate,
             Observe(c) \/ RepeatEnqueue(c) \/ Reprocess(c) \/ Restore(c)
      PROVE  Moves
  BY <1>1, <1>2 DEF Observe, RepeatEnqueue, Reprocess, Restore
<1>3. ASSUME NEW r \in Run, CreateGoal(r) PROVE Moves
  <2>1. runState[r] = "ABSENT" /\ runState' = [runState EXCEPT ![r] = "ACTIVE"]
    BY <1>3 DEF CreateGoal
  <2> QED
    BY <1>0, <1>3, <2>1
<1>4. ASSUME NEW r \in Run, MarkAnalyzing(r) \/ Promote(r) PROVE Moves
  BY <1>1, <1>4 DEF MarkAnalyzing, Promote
<1>5. CASE RestartDiscovery \/ ReadEscalations
  BY <1>1, <1>5 DEF RestartDiscovery, ReadEscalations
<1>6. ASSUME NEW r \in Run, ResumeRun(r) \/ ResolveEscalation(r) PROVE Moves
  BY <1>0, <1>6 DEF ResumeRun, ResolveEscalation
<1>7. ASSUME NEW t \in Task, NEW w \in Worker, Claim(t, w) \/ ClaimById(t, w) PROVE Moves
  BY <1>1, <1>7 DEF Claim, ClaimById, StartAttempt
<1>8. ASSUME NEW t \in Task, LeaseExpires(t) PROVE Moves
  BY <1>1, <1>8 DEF LeaseExpires
<1>9. ASSUME NEW t \in Task, NEW n \in Claims, WorkerCommand(t, n) PROVE Moves
  <2>1. CASE \/ Heartbeat(t, n) \/ PrepareEffect(t, n) \/ PublishReport(t, n) \/ FailAndRetry(t, n)
             \/ FailShard(t, n) \/ ReportUnknown(t, n) \/ Defer(t, n)
    BY <1>1, <2>1 DEF Heartbeat, PrepareEffect, PublishReport, FailAndRetry, FailShard,
                      ReportUnknown, Defer
  <2>2. CASE Complete(t, n)
    <3>1. \A r \in Run : \/ runState'[r] = runState[r]
                         \/ runState[r] = "ACTIVE" /\ runState'[r] = "SUCCEEDED"
      BY <1>0, <2>2 DEF Complete, Finished
    <3> QED
      BY <3>1
  <2>3. CASE FailPlanTask(t, n)
    BY <1>0, <2>3 DEF FailPlanTask
  <2>4. CASE WaitForHuman(t, n)
    BY <1>0, <2>4 DEF WaitForHuman
  <2> QED
    BY <1>9, <2>1, <2>2, <2>3, <2>4 DEF WorkerCommand
<1>10. ASSUME NEW g \in Group, MaterializeFanout(g) \/ CompleteFanout(g) PROVE Moves
  BY <1>1, <1>10 DEF MaterializeFanout, CompleteFanout
<1>11. ASSUME NEW c \in Candidate, Archive(c) PROVE Moves
  BY <1>0, <1>11 DEF Archive
<1>12. CASE RecoverStale
  <2>1. PICK finished : /\ \A r \in finished : runState[r] = "ACTIVE"
                        /\ runState' = [r \in Run |-> IF r \in finished THEN "SUCCEEDED" ELSE runState[r]]
    <3> DEFINE finished == {RunOf[t] : t \in {u \in Notified : Finished(RunOf[u], Delivered)}}
    <3>1. \A r \in finished : runState[r] = "ACTIVE"
      BY DEF Finished
    <3>2. runState' = [r \in Run |-> IF r \in finished THEN "SUCCEEDED" ELSE runState[r]]
      BY <1>12 DEF RecoverStale
    <3> QED
      BY <3>1, <3>2
  <2> QED
    BY <1>0, <2>1
<1>13. CASE UNCHANGED vars
  BY <1>1, <1>13 DEF vars
<1> QED
  BY <1>2, <1>3, <1>4, <1>5, <1>6, <1>7, <1>8, <1>9, <1>10, <1>11, <1>12, <1>13 DEF Next

(* The moves of a group.  It fails with a shard, and succeeds once every   *)
(* shard has.                                                              *)
GroupMove(g) ==
    \/ groupState'[g] = groupState[g]
    \/ groupState[g] = "ABSENT" /\ groupState'[g] = "PLANNED" /\ MaterializeFanout(g)
    \/ groupState[g] = "PLANNED" /\ groupState'[g] = "RUNNING"
    \/ /\ groupState[g] \in {"PLANNED", "RUNNING"} /\ groupState'[g] = "FAILED"
       /\ \E t \in ShardsOf[g], n \in Claims : FailShard(t, n)
    \/ /\ groupState[g] # "ABSENT" /\ groupState'[g] = "SUCCEEDED"
       /\ \A t \in ShardsOf[g] : taskState[t] = "SUCCEEDED" /\ taskState'[t] = "SUCCEEDED"

(* No command moves a group's row otherwise. *)
LEMMA StepGroups == TypeOK /\ [Next]_vars => \A g \in Group : GroupMove(g)
<1> USE DEF leaseVars, effectVars, goalVars, GroupMove
<1> DEFINE Moves == \A h \in Group : GroupMove(h)
<1> SUFFICES ASSUME TypeOK, [Next]_vars PROVE Moves
  OBVIOUS
<1>0. groupState \in [Group -> GroupStates]
  BY DEF TypeOK
<1>1. ASSUME UNCHANGED groupState PROVE Moves
  BY <1>1
<1>2. ASSUME NEW c \in Candidate,
             Observe(c) \/ RepeatEnqueue(c) \/ Reprocess(c) \/ Restore(c) \/ Archive(c)
      PROVE  Moves
  BY <1>1, <1>2 DEF Observe, RepeatEnqueue, Reprocess, Restore, Archive
<1>3. ASSUME NEW r \in Run,
             CreateGoal(r) \/ MarkAnalyzing(r) \/ Promote(r) \/ ResumeRun(r) \/ ResolveEscalation(r)
      PROVE  Moves
  BY <1>1, <1>3 DEF CreateGoal, MarkAnalyzing, Promote, ResumeRun, ResolveEscalation
<1>4. CASE RestartDiscovery \/ ReadEscalations \/ RecoverStale
  BY <1>1, <1>4 DEF RestartDiscovery, ReadEscalations, RecoverStale
<1>5. ASSUME NEW t \in Task, NEW w \in Worker, Claim(t, w) \/ ClaimById(t, w) PROVE Moves
  BY <1>0, <1>5 DEF Claim, ClaimById
<1>6. ASSUME NEW t \in Task, LeaseExpires(t) PROVE Moves
  BY <1>1, <1>6 DEF LeaseExpires
<1>7. ASSUME NEW t \in Task, NEW n \in Claims, WorkerCommand(t, n) PROVE Moves
  <2>1. CASE FailShard(t, n)
    <3>1. groupState' = [g \in Group |->
              IF t \in ShardsOf[g] /\ groupState[g] \in {"PLANNED", "RUNNING"}
              THEN "FAILED" ELSE groupState[g]]
      BY <2>1 DEF FailShard
    <3> QED
      BY <1>0, <1>7, <2>1, <3>1
  <2>2. CASE \/ Heartbeat(t, n) \/ PrepareEffect(t, n) \/ PublishReport(t, n) \/ FailAndRetry(t, n)
             \/ Complete(t, n) \/ FailPlanTask(t, n) \/ ReportUnknown(t, n) \/ Defer(t, n)
             \/ WaitForHuman(t, n)
    BY <1>1, <2>2 DEF Heartbeat, PrepareEffect, PublishReport, FailAndRetry, Complete,
                      FailPlanTask, ReportUnknown, Defer, WaitForHuman
  <2> QED
    BY <1>7, <2>1, <2>2 DEF WorkerCommand
<1>8. ASSUME NEW g \in Group, MaterializeFanout(g) PROVE Moves
  <2>1. groupState[g] = "ABSENT" /\ groupState' = [groupState EXCEPT ![g] = "PLANNED"]
    BY <1>8 DEF MaterializeFanout
  <2> QED
    BY <1>0, <1>8, <2>1
<1>9. ASSUME NEW g \in Group, CompleteFanout(g) PROVE Moves
  BY <1>0, <1>9 DEF CompleteFanout
<1>10. CASE UNCHANGED vars
  BY <1>1, <1>10 DEF vars
<1> QED
  BY <1>2, <1>3, <1>4, <1>5, <1>6, <1>7, <1>8, <1>9, <1>10 DEF Next

(* What is settled stays settled: no late, repeated or orphaned command    *)
(* makes a run go on that has ended or that archiving has paused.          *)
THEOREM EndedRunsStay == Spec => SettledRunsStay
<1>1. TypeOK /\ [Next]_vars =>
        \A r \in Run : runState[r] \in {"SUCCEEDED", "FAILED", "PAUSED"} => runState'[r] = runState[r]
  BY StepRuns DEF RunMove
<1> QED
  BY <1>1, TypeCorrect, PTL DEF Spec, SettledRunsStay

(* The moves of a task's attempts: one is opened under a fresh claim, and  *)
(* only an open one is closed.                                             *)
AttemptMove(t) ==
    \/ attempt'[t] = attempt[t]
    \/ /\ Claimable(t) /\ \E w \in Worker : StartAttempt(t, w)
       /\ attempt'[t] = [attempt[t] EXCEPT ![leaseToken[t] + 1] = "RUNNING"]
    \/ /\ taskState[t] = "RUNNING" /\ taskState'[t] # "RUNNING"
       /\ \E result \in AttemptStates \ {"NONE", "RUNNING"} :
             attempt'[t] = [attempt[t] EXCEPT ![leaseToken[t]] = result]

(* No command moves a task's attempts otherwise. *)
LEMMA StepAttempts == LeaseInv /\ [Next]_vars => \A t \in Task : AttemptMove(t)
<1> USE DEF leaseVars, effectVars, goalVars, AttemptMove
<1> DEFINE Moves == \A u \in Task : AttemptMove(u)
<1> SUFFICES ASSUME LeaseInv, [Next]_vars PROVE Moves
  OBVIOUS
<1>0. /\ attempt \in [Task -> [Claims -> AttemptStates]]
      /\ taskState \in [Task -> TaskStates]
  BY DEF LeaseInv, TypeOK
<1>1. ASSUME UNCHANGED attempt PROVE Moves
  BY <1>1
<1>2. ASSUME NEW c \in Candidate,
             Observe(c) \/ RepeatEnqueue(c) \/ Reprocess(c) \/ Restore(c) \/ Archive(c)
      PROVE  Moves
  BY <1>1, <1>2 DEF Observe, RepeatEnqueue, Reprocess, Restore, Archive
<1>3. ASSUME NEW r \in Run,
             CreateGoal(r) \/ MarkAnalyzing(r) \/ Promote(r) \/ ResumeRun(r) \/ ResolveEscalation(r)
      PROVE  Moves
  BY <1>1, <1>3 DEF CreateGoal, MarkAnalyzing, Promote, ResumeRun, ResolveEscalation
<1>4. CASE RestartDiscovery \/ ReadEscalations
  BY <1>1, <1>4 DEF RestartDiscovery, ReadEscalations
<1>5. ASSUME NEW t \in Task, NEW w \in Worker, Claim(t, w) \/ ClaimById(t, w) PROVE Moves
  <2>1. Claimable(t) /\ StartAttempt(t, w)
    BY <1>5 DEF Claim, ClaimById
  <2>2. attempt' = [attempt EXCEPT ![t] = [attempt[t] EXCEPT ![leaseToken[t] + 1] = "RUNNING"]]
    BY <2>1 DEF StartAttempt
  <2> QED
    BY <1>0, <2>1, <2>2
<1>6. ASSUME NEW t \in Task, LeaseExpires(t) PROVE Moves
  BY <1>1, <1>6 DEF LeaseExpires
<1>7. ASSUME NEW t \in Task, NEW n \in Claims, WorkerCommand(t, n) PROVE Moves
  <2>1. CASE Heartbeat(t, n) \/ PrepareEffect(t, n) \/ PublishReport(t, n)
    BY <1>1, <2>1 DEF Heartbeat, PrepareEffect, PublishReport
  <2>2. ASSUME NEW result \in AttemptStates \ {"NONE", "RUNNING"},
               Holds(t, n), Settle(t, n, result), taskState'[t] # "RUNNING"
        PROVE  Moves
    <3>1. taskState[t] = "RUNNING" /\ n = leaseToken[t]
      BY <2>2 DEF Holds
    <3>2. attempt' = [attempt EXCEPT ![t] = [attempt[t] EXCEPT ![n] = result]]
      BY <2>2 DEF Settle
    <3> QED
      BY <1>0, <2>2, <3>1, <3>2
  <2> USE <1>0, <2>2 DEF AttemptStates, HoldsAttempt
  <2>3. CASE Complete(t, n)
    BY <2>3 DEF Complete, Promoted, Promotable
  <2>4. CASE FailAndRetry(t, n)
    BY <2>4 DEF FailAndRetry
  <2>5. CASE FailShard(t, n)
    BY <2>5 DEF FailShard, Promoted, Promotable
  <2>6. CASE FailPlanTask(t, n)
    BY <2>6 DEF FailPlanTask
  <2>7. CASE ReportUnknown(t, n)
    BY <2>7 DEF ReportUnknown
  <2>8. CASE Defer(t, n)
    BY <2>8 DEF Defer
  <2>9. CASE WaitForHuman(t, n)
    BY <2>9 DEF WaitForHuman
  <2> QED
    BY <1>7, <2>1, <2>3, <2>4, <2>5, <2>6, <2>7, <2>8, <2>9 DEF WorkerCommand
<1>8. ASSUME NEW g \in Group, MaterializeFanout(g) \/ CompleteFanout(g) PROVE Moves
  BY <1>1, <1>8 DEF MaterializeFanout, CompleteFanout
<1>9. CASE RecoverStale
  <2>1. ASSUME NEW t \in Task PROVE AttemptMove(t)
    <3>1. attempt'[t] = [n \in Claims |->
              IF t \in Stale /\ attempt[t][n] = "RUNNING"
              THEN IF t \in Uncertain THEN "UNKNOWN_OUTCOME" ELSE "FAILED"
              ELSE attempt[t][n]]
      BY <1>9 DEF RecoverStale
    <3>2. CASE t \notin Stale
      BY <1>0, <3>1, <3>2
    <3>3. CASE t \in Stale /\ taskState[t] = "RUNNING"
      <4>1. /\ leaseToken[t] \in Claims
            /\ \A n \in Claims : attempt[t][n] = "RUNNING" <=> n = leaseToken[t]
        BY <3>3 DEF LeaseInv, LeaseExclusive
      <4>2. taskState'[t] # "RUNNING"
        BY <1>9, <3>3, RecoveredTasks DEF LeaseInv
      <4>3. \E result \in {"UNKNOWN_OUTCOME", "FAILED"} :
               attempt'[t] = [attempt[t] EXCEPT ![leaseToken[t]] = result]
        <5>1. CASE t \in Uncertain
          <6>1. attempt'[t] = [attempt[t] EXCEPT ![leaseToken[t]] = "UNKNOWN_OUTCOME"]
            BY <1>0, <3>1, <3>3, <4>1, <5>1
          <6> QED
            BY <6>1
        <5>2. CASE t \notin Uncertain
          <6>1. attempt'[t] = [attempt[t] EXCEPT ![leaseToken[t]] = "FAILED"]
            BY <1>0, <3>1, <3>3, <4>1, <5>2
          <6> QED
            BY <6>1
        <5> QED
          BY <5>1, <5>2
      <4> QED
        BY <3>3, <4>2, <4>3 DEF AttemptStates
    <3>4. CASE t \in Stale /\ taskState[t] # "RUNNING"
      <4>1. taskState[t] # "CANCELLED"
        BY <1>9, <3>4, RecoveredTasks DEF LeaseInv
      <4>2. \A n \in Claims : attempt[t][n] # "RUNNING"
        BY <3>4, <4>1 DEF LeaseInv, LeaseExclusive
      <4> QED
        BY <1>0, <3>1, <4>2
    <3> QED
      BY <3>2, <3>3, <3>4
  <2> QED
    BY <2>1
<1>10. CASE UNCHANGED vars
  BY <1>1, <1>10 DEF vars
<1> QED
  BY <1>2, <1>3, <1>4, <1>5, <1>6, <1>7, <1>8, <1>9, <1>10 DEF Next

(* Late, repeated and orphaned commands reopen neither a finished attempt  *)
(* nor a finished task.                                                    *)
THEOREM SettledTasksStay == Spec => SettledTasks
<1>1. LeaseInv /\ [Next]_vars =>
        \A t \in Task :
          /\ \A n \in Claims :
                attempt[t][n] \notin {"NONE", "RUNNING"} => attempt'[t][n] = attempt[t][n]
          /\ taskState[t] \in {"SUCCEEDED", "FAILED", "CANCELLED"} => taskState'[t] = taskState[t]
  <2> SUFFICES ASSUME LeaseInv, [Next]_vars, NEW t \in Task
               PROVE  /\ \A n \in Claims :
                            attempt[t][n] \notin {"NONE", "RUNNING"} => attempt'[t][n] = attempt[t][n]
                      /\ taskState[t] \in {"SUCCEEDED", "FAILED", "CANCELLED"} =>
                            taskState'[t] = taskState[t]
    OBVIOUS
  <2>1. attempt[t] \in [Claims -> AttemptStates] /\ leaseToken[t] \in 0..MaxClaims
    BY DEF LeaseInv, TypeOK
  <2>2. attempt[t][leaseToken[t] + 1] = "NONE" \/ leaseToken[t] + 1 \notin Claims
    BY <2>1, LimitAssumption DEF LimitAssumption, LeaseInv, FreshClaims, Claims
  <2>3. taskState[t] = "RUNNING" => attempt[t][leaseToken[t]] = "RUNNING"
    BY DEF LeaseInv, LeaseExclusive
  <2>4. \A n \in Claims :
           attempt[t][n] \notin {"NONE", "RUNNING"} => attempt'[t][n] = attempt[t][n]
    BY <2>1, <2>2, <2>3, StepAttempts DEF AttemptMove
  <2>5. TaskMove(t)
    BY StepTasks
  <2> QED
    BY <2>4, <2>5 DEF TaskMove
<1> QED
  BY <1>1, InitLeased, StepLeaseInv, PTL DEF Spec, SettledTasks

(* A task becomes runnable only together with a dispatch row of its        *)
(* current revision.                                                       *)
LEMMA StepDispatched == TypeOK /\ RunnableIsDispatched /\ [Next]_vars => RunnableIsDispatched'
<1> USE DEF RunnableIsDispatched, leaseVars, effectVars, goalVars, Promotable, Promoted
<1> SUFFICES ASSUME TypeOK, RunnableIsDispatched, [Next]_vars PROVE RunnableIsDispatched'
  OBVIOUS
<1>0. taskState \in [Task -> TaskStates]
  BY DEF TypeOK
<1>1. ASSUME NEW c \in Candidate,
             Observe(c) \/ RepeatEnqueue(c) \/ Reprocess(c) \/ Restore(c)
      PROVE  RunnableIsDispatched'
  BY <1>1 DEF Observe, RepeatEnqueue, Reprocess, Restore
<1>2. ASSUME NEW r \in Run, CreateGoal(r) PROVE RunnableIsDispatched'
  BY <1>2, CreatedRows
<1>3. ASSUME NEW r \in Run, MarkAnalyzing(r) \/ ResolveEscalation(r) PROVE RunnableIsDispatched'
  BY <1>3 DEF MarkAnalyzing, ResolveEscalation
<1>4. CASE RestartDiscovery \/ ReadEscalations
  BY <1>4 DEF RestartDiscovery, ReadEscalations
<1>5. ASSUME NEW r \in Run, Promote(r) PROVE RunnableIsDispatched'
  BY <1>5 DEF Promote
<1>6. ASSUME NEW r \in Run, ResumeRun(r) PROVE RunnableIsDispatched'
  BY <1>6 DEF ResumeRun
<1>7. ASSUME NEW t \in Task, NEW w \in Worker, Claim(t, w) \/ ClaimById(t, w)
      PROVE  RunnableIsDispatched'
  BY <1>0, <1>7 DEF Claim, ClaimById, StartAttempt
<1>8. ASSUME NEW t \in Task, LeaseExpires(t) PROVE RunnableIsDispatched'
  BY <1>8 DEF LeaseExpires
<1>9. ASSUME NEW t \in Task, NEW n \in Claims, WorkerCommand(t, n) PROVE RunnableIsDispatched'
  <2>1. CASE Heartbeat(t, n) \/ PrepareEffect(t, n) \/ PublishReport(t, n)
    BY <2>1 DEF Heartbeat, PrepareEffect, PublishReport
  <2>2. CASE Complete(t, n)
    BY <1>0, <2>2 DEF Complete
  <2>3. CASE FailAndRetry(t, n) \/ Defer(t, n)
    BY <1>0, <2>3 DEF FailAndRetry, Defer
  <2>4. CASE FailShard(t, n)
    BY <1>0, <2>4 DEF FailShard
  <2>5. CASE FailPlanTask(t, n) \/ ReportUnknown(t, n) \/ WaitForHuman(t, n)
    BY <1>0, <2>5 DEF FailPlanTask, ReportUnknown, WaitForHuman
  <2> QED
    BY <1>9, <2>1, <2>2, <2>3, <2>4, <2>5 DEF WorkerCommand
<1>10. ASSUME NEW g \in Group, MaterializeFanout(g) \/ CompleteFanout(g) PROVE RunnableIsDispatched'
  BY <1>10 DEF MaterializeFanout, CompleteFanout
<1>11. ASSUME NEW c \in Candidate, Archive(c) PROVE RunnableIsDispatched'
  BY <1>11 DEF Archive
<1>12. CASE RecoverStale
  <2>1. dispatched' = dispatched \union (Stale \ Uncertain) \union Released
    BY <1>12 DEF RecoverStale
  <2> QED
    BY <1>12, <2>1, RecoveredTasks
<1>13. CASE UNCHANGED vars
  BY <1>13 DEF vars
<1> QED
  BY <1>1, <1>2, <1>3, <1>4, <1>5, <1>6, <1>7, <1>8, <1>9, <1>10, <1>11, <1>12, <1>13 DEF Next

(* No runnable task is without a dispatch row: whichever of the commands   *)
(* made it runnable, a delivery will reach it.                             *)
THEOREM RunnableStaysDispatched == Spec => []RunnableIsDispatched
<1>1. Init => RunnableIsDispatched
  BY DEF Init, RunnableIsDispatched
<1> QED
  BY <1>1, TypeCorrect, StepDispatched, PTL DEF Spec

-----------------------------------------------------------------------------
(* Effects *)

(* A token grows only with a new attempt of its task. *)
TokenMove(t) ==
    \/ leaseToken'[t] = leaseToken[t]
    \/ /\ leaseToken'[t] = leaseToken[t] + 1
       /\ \E w \in Worker : Claim(t, w) \/ ClaimById(t, w)

(* No command changes a token otherwise. *)
LEMMA StepTokens == TypeOK /\ [Next]_vars => \A t \in Task : TokenMove(t)
<1> USE DEF leaseVars, TokenMove, Settle
<1> DEFINE Moves == \A u \in Task : TokenMove(u)
<1> SUFFICES ASSUME TypeOK, [Next]_vars PROVE Moves
  OBVIOUS
<1>0. leaseToken \in [Task -> 0..MaxClaims]
  BY DEF TypeOK
<1>1. ASSUME UNCHANGED leaseToken PROVE Moves
  BY <1>1
<1>2. ASSUME NEW c \in Candidate,
             Observe(c) \/ RepeatEnqueue(c) \/ Reprocess(c) \/ Restore(c) \/ Archive(c)
      PROVE  Moves
  BY <1>1, <1>2 DEF Observe, RepeatEnqueue, Reprocess, Restore, Archive
<1>3. ASSUME NEW r \in Run,
             CreateGoal(r) \/ MarkAnalyzing(r) \/ Promote(r) \/ ResumeRun(r) \/ ResolveEscalation(r)
      PROVE  Moves
  BY <1>1, <1>3 DEF CreateGoal, MarkAnalyzing, Promote, ResumeRun, ResolveEscalation
<1>4. CASE RestartDiscovery \/ ReadEscalations \/ RecoverStale
  BY <1>1, <1>4 DEF RestartDiscovery, ReadEscalations, RecoverStale
<1>5. ASSUME NEW t \in Task, NEW w \in Worker, Claim(t, w) \/ ClaimById(t, w) PROVE Moves
  <2>1. leaseToken' = [leaseToken EXCEPT ![t] = leaseToken[t] + 1]
    BY <1>5 DEF Claim, ClaimById, StartAttempt
  <2> QED
    BY <1>0, <1>5, <2>1
<1>6. ASSUME NEW t \in Task, LeaseExpires(t) PROVE Moves
  BY <1>1, <1>6 DEF LeaseExpires
<1>7. ASSUME NEW t \in Task, NEW n \in Claims, WorkerCommand(t, n) PROVE Moves
  BY <1>1, <1>7 DEF WorkerCommand, Heartbeat, PrepareEffect, PublishReport, Complete, FailAndRetry,
                    FailShard, FailPlanTask, ReportUnknown, Defer, WaitForHuman
<1>8. ASSUME NEW g \in Group, MaterializeFanout(g) \/ CompleteFanout(g) PROVE Moves
  BY <1>1, <1>8 DEF MaterializeFanout, CompleteFanout
<1>9. CASE UNCHANGED vars
  BY <1>1, <1>9 DEF vars
<1> QED
  BY <1>2, <1>3, <1>4, <1>5, <1>6, <1>7, <1>8, <1>9 DEF Next

(* How a task comes to have succeeded. *)
SuccessMove(t) ==
    taskState'[t] = "SUCCEEDED" =>
        \/ taskState[t] = "SUCCEEDED"
        \/ /\ taskState[t] = "ABSENT"
           /\ \/ \E r \in Run : CreateGoal(r) /\ t \in PlanOf(r) /\ t \in reused'
              \/ \E g \in Group : MaterializeFanout(g) /\ t \in ShardsOf[g]
        \/ taskState[t] = "RUNNING" /\ \E n \in Claims : Complete(t, n)
        \/ /\ taskState[t] = "UNKNOWN_OUTCOME" /\ t \in NotificationTask
           /\ effect'[t] = effect[t]

(* No other command makes a task succeed. *)
LEMMA StepSuccess == LeaseInv /\ [Next]_vars => \A t \in Task : SuccessMove(t)
<1> USE DEF leaseVars, effectVars, goalVars, Promotable, Promoted, TasksOf, SuccessMove
<1> DEFINE Moves == \A u \in Task : SuccessMove(u)
<1> SUFFICES ASSUME LeaseInv, [Next]_vars PROVE Moves
  OBVIOUS
<1>0. taskState \in [Task -> TaskStates]
  BY DEF LeaseInv, TypeOK
<1>1. ASSUME \A t \in Task : taskState'[t] = taskState[t] \/ taskState'[t] # "SUCCEEDED" PROVE Moves
  BY <1>1
<1>2. ASSUME NEW c \in Candidate,
             Observe(c) \/ RepeatEnqueue(c) \/ Reprocess(c) \/ Restore(c) \/ Archive(c)
      PROVE  Moves
  BY <1>0, <1>1, <1>2 DEF Observe, RepeatEnqueue, Reprocess, Restore, Archive
<1>3. ASSUME NEW r \in Run, CreateGoal(r) PROVE Moves
  <2>1. \A t \in Task : taskState'[t] = "SUCCEEDED" =>
           taskState[t] = "SUCCEEDED" \/ (t \in PlanOf(r) /\ t \in reused')
    <3>1. TypeOK
      BY DEF LeaseInv
    <3>2. PICK src \in Run \union {NoRun} :
             /\ taskState' = [t \in Task |->
                   IF t \notin PlanOf(r) THEN taskState[t]
                   ELSE IF t \in ReusedPrefix(r, src) THEN "SUCCEEDED"
                   ELSE IF t \in InitiallyRunnable(r, src) THEN "RUNNABLE" ELSE "PENDING"]
             /\ reused' = reused \union ReusedPrefix(r, src)
      BY <1>3, <3>1, CreatedRows
    <3> QED
      BY <3>2
  <2>2. \A t \in PlanOf(r) : taskState[t] = "ABSENT"
    BY <1>3 DEF CreateGoal, LeaseInv, RowsExist, PlanOf
  <2> QED
    BY <1>3, <2>1, <2>2
<1>4. ASSUME NEW r \in Run, MarkAnalyzing(r) \/ Promote(r) \/ ResumeRun(r) \/ ResolveEscalation(r)
      PROVE  Moves
  BY <1>0, <1>1, <1>4 DEF MarkAnalyzing, Promote, ResumeRun, ResolveEscalation
<1>5. CASE RestartDiscovery \/ ReadEscalations
  BY <1>1, <1>5 DEF RestartDiscovery, ReadEscalations
<1>6. ASSUME NEW t \in Task, NEW w \in Worker, Claim(t, w) \/ ClaimById(t, w) PROVE Moves
  BY <1>0, <1>1, <1>6 DEF Claim, ClaimById, StartAttempt
<1>7. ASSUME NEW t \in Task, LeaseExpires(t) PROVE Moves
  BY <1>1, <1>7 DEF LeaseExpires
<1>8. ASSUME NEW t \in Task, NEW n \in Claims, WorkerCommand(t, n) PROVE Moves
  <2>1. CASE Heartbeat(t, n) \/ PrepareEffect(t, n) \/ PublishReport(t, n)
    BY <1>1, <2>1 DEF Heartbeat, PrepareEffect, PublishReport
  <2>2. CASE Complete(t, n)
    <3>1. \A u \in Task \ {t} : taskState'[u] = taskState[u] \/ taskState'[u] = "RUNNABLE"
      BY <1>0, <2>2 DEF Complete
    <3>2. taskState[t] = "RUNNING"
      BY <2>2 DEF Complete, HoldsAttempt, Holds
    <3> QED
      BY <1>8, <2>2, <3>1, <3>2
  <2>3. CASE FailAndRetry(t, n) \/ FailPlanTask(t, n) \/ ReportUnknown(t, n) \/ Defer(t, n)
             \/ WaitForHuman(t, n)
    BY <1>0, <1>1, <2>3 DEF FailAndRetry, FailPlanTask, ReportUnknown, Defer, WaitForHuman
  <2>4. CASE FailShard(t, n)
    BY <1>0, <1>1, <2>4 DEF FailShard
  <2> QED
    BY <1>8, <2>1, <2>2, <2>3, <2>4 DEF WorkerCommand
<1>9. ASSUME NEW g \in Group, MaterializeFanout(g) PROVE Moves
  <2>1. \A t \in ShardsOf[g] : taskState[t] = "ABSENT"
    BY <1>9 DEF MaterializeFanout, LeaseInv, RowsExist
  <2>2. \A t \in Task \ ShardsOf[g] : taskState'[t] = taskState[t]
    BY <1>9 DEF MaterializeFanout
  <2> QED
    BY <1>9, <2>1, <2>2
<1>10. ASSUME NEW g \in Group, CompleteFanout(g) PROVE Moves
  BY <1>1, <1>10 DEF CompleteFanout
<1>11. CASE RecoverStale
  <2>1. effect' = effect
    BY <1>11 DEF RecoverStale
  <2>2. \A t \in Task : taskState'[t] = "SUCCEEDED" => taskState[t] = "SUCCEEDED" \/ t \in Notified
    BY <1>11, RecoveredTasks DEF LeaseInv
  <2> QED
    BY <1>11, <2>1, <2>2, RecoveredTasks DEF LeaseInv
<1>12. CASE UNCHANGED vars
  BY <1>1, <1>12 DEF vars
<1> QED
  BY <1>2, <1>3, <1>4, <1>5, <1>6, <1>7, <1>8, <1>9, <1>10, <1>11, <1>12 DEF Next

(* The moves of a task's outbox row, and of the task's state by it. *)
EffectMove(t) ==
    /\ effect'[t] # effect[t] => taskState[t] = "RUNNING" /\ effect'[t] # "NONE"
    /\ effect'[t] = "UNKNOWN_OUTCOME" => effect[t] = "UNKNOWN_OUTCOME" \/ t \in NotificationTask
    /\ prepared'[t] # prepared[t] /\ t \in EffectTask => effect'[t] # "NONE"
    /\ taskState'[t] = "UNKNOWN_OUTCOME" =>
          \/ taskState[t] = "UNKNOWN_OUTCOME"
          \/ effect'[t] = "UNKNOWN_OUTCOME"
          \/ t \in NotificationTask /\ prepared[t] # {} /\ effect[t] = "NONE"

(* No command changes an outbox row otherwise. *)
LEMMA StepEffects == TypeOK /\ [Next]_vars => \A t \in Task : EffectMove(t)
<1> USE DEF leaseVars, effectVars, goalVars, Promotable, Promoted, TasksOf, EffectMove
<1> DEFINE Moves == \A u \in Task : EffectMove(u)
<1> SUFFICES ASSUME TypeOK, [Next]_vars PROVE Moves
  OBVIOUS
<1>0. /\ taskState \in [Task -> TaskStates] /\ effect \in [Task -> EffectStates]
      /\ prepared \in [Task -> SUBSET Claims]
  BY DEF TypeOK
<1>1. ASSUME UNCHANGED effectVars,
             \A t \in Task : taskState'[t] = "UNKNOWN_OUTCOME" =>
                taskState[t] = "UNKNOWN_OUTCOME" \/ effect[t] = "UNKNOWN_OUTCOME"
      PROVE  Moves
  BY <1>1
<1>2. ASSUME NEW c \in Candidate,
             Observe(c) \/ RepeatEnqueue(c) \/ Reprocess(c) \/ Restore(c) \/ Archive(c)
      PROVE  Moves
  BY <1>0, <1>1, <1>2 DEF Observe, RepeatEnqueue, Reprocess, Restore, Archive
<1>3. ASSUME NEW r \in Run, CreateGoal(r) PROVE Moves
  BY <1>1, <1>3 DEF CreateGoal
<1>4. ASSUME NEW r \in Run, MarkAnalyzing(r) \/ Promote(r) \/ ResumeRun(r) \/ ResolveEscalation(r)
      PROVE  Moves
  BY <1>0, <1>1, <1>4 DEF MarkAnalyzing, Promote, ResumeRun, ResolveEscalation
<1>5. CASE RestartDiscovery \/ ReadEscalations
  BY <1>1, <1>5 DEF RestartDiscovery, ReadEscalations
<1>6. ASSUME NEW t \in Task, NEW w \in Worker, Claim(t, w) \/ ClaimById(t, w) PROVE Moves
  BY <1>0, <1>1, <1>6 DEF Claim, ClaimById, StartAttempt
<1>7. ASSUME NEW t \in Task, LeaseExpires(t) PROVE Moves
  BY <1>1, <1>7 DEF LeaseExpires
<1>8. ASSUME NEW t \in Task, NEW n \in Claims, WorkerCommand(t, n) PROVE Moves
  <2> USE DEF Holds, HoldsAttempt, RecordEffect
  <2>1. CASE Heartbeat(t, n)
    BY <1>1, <2>1 DEF Heartbeat
  <2>2. CASE PrepareEffect(t, n)
    BY <1>0, <2>2 DEF PrepareEffect
  <2>3. CASE PublishReport(t, n)
    BY <1>0, <2>3 DEF PublishReport
  <2>4. CASE Complete(t, n)
    BY <1>0, <2>4 DEF Complete
  <2>5. CASE FailAndRetry(t, n)
    BY <1>0, <2>5 DEF FailAndRetry
  <2>6. CASE FailShard(t, n)
    BY <1>0, <2>6 DEF FailShard
  <2>7. CASE FailPlanTask(t, n)
    BY <1>0, <2>7 DEF FailPlanTask
  <2>8. CASE ReportUnknown(t, n)
    BY <1>0, <2>8 DEF ReportUnknown
  <2>9. CASE Defer(t, n) \/ WaitForHuman(t, n)
    BY <1>0, <1>1, <2>9 DEF Defer, WaitForHuman
  <2> QED
    BY <1>8, <2>1, <2>2, <2>3, <2>4, <2>5, <2>6, <2>7, <2>8, <2>9 DEF WorkerCommand
<1>9. ASSUME NEW g \in Group, MaterializeFanout(g) \/ CompleteFanout(g) PROVE Moves
  BY <1>1, <1>9 DEF MaterializeFanout, CompleteFanout
<1>10. CASE RecoverStale
  <2>1. UNCHANGED effectVars
    BY <1>10 DEF RecoverStale
  <2> QED
    BY <1>1, <1>10, <2>1, RecoveredTasks
<1>11. CASE UNCHANGED vars
  BY <1>1, <1>11 DEF vars
<1> QED
  BY <1>2, <1>3, <1>4, <1>5, <1>6, <1>7, <1>8, <1>9, <1>10, <1>11 DEF Next

(* What makes SuccessHasEffect inductive: tasks without a row were never   *)
(* claimed; a prepared effect has its outbox row; and only a notification  *)
(* is ever uncertain, by its own outbox row if it has one.                 *)
AbsentFresh == \A t \in Task : taskState[t] = "ABSENT" => leaseToken[t] = 0

PreparedOnRecord == \A t \in EffectTask : prepared[t] # {} => effect[t] # "NONE"

UncertainOnRecord ==
    \A t \in Task :
        /\ effect[t] = "UNKNOWN_OUTCOME" \/ taskState[t] = "UNKNOWN_OUTCOME" => t \in NotificationTask
        /\ t \in EffectTask /\ taskState[t] = "UNKNOWN_OUTCOME" => effect[t] = "UNKNOWN_OUTCOME"

EffectInv == LeaseInv /\ AbsentFresh /\ PreparedOnRecord /\ UncertainOnRecord /\ SuccessHasEffect

LEMMA InitEffects == Init => EffectInv
<1> SUFFICES ASSUME Init PROVE EffectInv
  OBVIOUS
<1>1. AbsentFresh /\ UncertainOnRecord
  BY DEF Init, AbsentFresh, UncertainOnRecord
<1>2. PreparedOnRecord /\ SuccessHasEffect
  BY ReferenceAssumption DEF ReferenceAssumption, Init, PreparedOnRecord, SuccessHasEffect
<1> QED
  BY <1>1, <1>2, InitLeased DEF EffectInv

LEMMA StepAbsentFresh == LeaseInv /\ AbsentFresh /\ [Next]_vars => AbsentFresh'
<1> SUFFICES ASSUME LeaseInv, AbsentFresh, [Next]_vars, NEW t \in Task, taskState'[t] = "ABSENT"
             PROVE  leaseToken'[t] = 0
  BY DEF AbsentFresh
<1>1. taskState[t] = "ABSENT"
  BY StepTasks DEF TaskMove
<1>2. leaseToken'[t] = leaseToken[t]
  BY <1>1, StepTokens DEF LeaseInv, TokenMove, Claim, ClaimById, Claimable
<1> QED
  BY <1>1, <1>2 DEF AbsentFresh

LEMMA StepOnRecord ==
    EffectInv /\ [Next]_vars => PreparedOnRecord' /\ UncertainOnRecord'
<1> SUFFICES ASSUME EffectInv, [Next]_vars PROVE PreparedOnRecord' /\ UncertainOnRecord'
  OBVIOUS
<1>1. EffectTask \subseteq Task
  BY ReferenceAssumption DEF ReferenceAssumption
<1>2. \A t \in Task : EffectMove(t)
  BY StepEffects DEF EffectInv, LeaseInv
<1>3. \A t \in Task : TaskMove(t)
  BY StepTasks DEF EffectInv
<1>4. PreparedOnRecord'
  BY <1>1, <1>2 DEF EffectInv, PreparedOnRecord, EffectMove
<1>5. ASSUME NEW t \in Task, effect'[t] = "UNKNOWN_OUTCOME" \/ taskState'[t] = "UNKNOWN_OUTCOME"
      PROVE  t \in NotificationTask
  BY <1>2, <1>5 DEF EffectInv, UncertainOnRecord, EffectMove
<1>6. ASSUME NEW t \in EffectTask, taskState'[t] = "UNKNOWN_OUTCOME"
      PROVE  effect'[t] = "UNKNOWN_OUTCOME"
  <2>1. t \in Task /\ EffectMove(t)
    BY <1>1, <1>2
  <2>2. CASE taskState[t] = "UNKNOWN_OUTCOME"
    BY <2>1, <2>2 DEF EffectInv, UncertainOnRecord, EffectMove
  <2>3. CASE taskState[t] # "UNKNOWN_OUTCOME"
    BY <1>6, <2>1, <2>3 DEF EffectInv, PreparedOnRecord, EffectMove
  <2> QED
    BY <2>2, <2>3
<1> QED
  BY <1>1, <1>4, <1>5, <1>6 DEF UncertainOnRecord

LEMMA StepSuccessHasEffect == EffectInv /\ [Next]_vars => SuccessHasEffect'
<1> SUFFICES ASSUME EffectInv, [Next]_vars, NEW t \in EffectTask, taskState'[t] = "SUCCEEDED"
             PROVE  \/ effect'[t] = "SENT"
                    \/ t \in NotificationTask /\ effect'[t] = "UNKNOWN_OUTCOME"
                    \/ leaseToken'[t] = 0
  BY DEF SuccessHasEffect
<1>1. t \in Task
  BY ReferenceAssumption DEF ReferenceAssumption
<1>2. SuccessMove(t) /\ EffectMove(t) /\ TokenMove(t)
  BY <1>1, StepSuccess, StepEffects, StepTokens DEF EffectInv, LeaseInv
<1>3. taskState[t] # "RUNNABLE" => leaseToken'[t] = leaseToken[t]
  BY <1>2 DEF TokenMove, Claim, ClaimById, Claimable
<1>4. CASE taskState[t] = "SUCCEEDED"
  BY <1>2, <1>3, <1>4 DEF EffectInv, SuccessHasEffect, EffectMove
<1>5. CASE taskState[t] = "ABSENT"
  BY <1>1, <1>3, <1>5 DEF EffectInv, AbsentFresh
<1>6. ASSUME NEW n \in Claims, Complete(t, n) PROVE effect'[t] = "SENT"
  <2>1. effect[t] # "NONE" /\ effect \in [Task -> EffectStates]
    BY <1>6 DEF Complete, EffectInv, PreparedOnRecord, LeaseInv, TypeOK
  <2> QED
    BY <1>1, <1>6, <2>1 DEF Complete, RecordEffect
<1>7. CASE taskState[t] = "UNKNOWN_OUTCOME" /\ t \in NotificationTask /\ effect'[t] = effect[t]
  BY <1>1, <1>7 DEF EffectInv, UncertainOnRecord
<1> QED
  BY <1>2, <1>4, <1>5, <1>6, <1>7 DEF SuccessMove

LEMMA StepEffectInv == EffectInv /\ [Next]_vars => EffectInv'
BY StepLeaseInv, StepAbsentFresh, StepOnRecord, StepSuccessHasEffect DEF EffectInv

(* No task counts as succeeded while its external effect is on record as   *)
(* pending or failed: it was sent, or it is a notification of which nobody *)
(* knows, or the result was taken over without any attempt.                *)
THEOREM SuccessesHaveEffects == Spec => []SuccessHasEffect
<1>1. EffectInv => SuccessHasEffect
  BY DEF EffectInv
<1> QED
  BY <1>1, InitEffects, StepEffectInv, PTL DEF Spec

-----------------------------------------------------------------------------
(* Recovery *)

(* The source and the reused results of a run are settled at its creation. *)
LEMMA StepOrigin ==
    ASSUME [Next]_vars
    PROVE  UNCHANGED <<reused, source>> \/ \E r \in Run : CreateGoal(r)
<1> USE DEF originVars
<1> DEFINE Kept == UNCHANGED <<reused, source>>
<1>1. ASSUME NEW c \in Candidate,
             Observe(c) \/ RepeatEnqueue(c) \/ Reprocess(c) \/ Restore(c) \/ Archive(c)
      PROVE  Kept
  BY <1>1 DEF Observe, RepeatEnqueue, Reprocess, Restore, Archive
<1>2. ASSUME NEW r \in Run, MarkAnalyzing(r) \/ Promote(r) \/ ResumeRun(r) \/ ResolveEscalation(r)
      PROVE  Kept
  BY <1>2 DEF MarkAnalyzing, Promote, ResumeRun, ResolveEscalation
<1>3. ASSUME RestartDiscovery \/ ReadEscalations \/ RecoverStale PROVE Kept
  BY <1>3 DEF RestartDiscovery, ReadEscalations, RecoverStale
<1>4. ASSUME NEW t \in Task, NEW w \in Worker, Claim(t, w) \/ ClaimById(t, w)
      PROVE  Kept
  BY <1>4 DEF Claim, ClaimById, StartAttempt
<1>5. ASSUME NEW t \in Task, LeaseExpires(t) PROVE Kept
  BY <1>5 DEF LeaseExpires
<1>6. ASSUME NEW t \in Task, NEW n \in Claims, WorkerCommand(t, n) PROVE Kept
  BY <1>6 DEF WorkerCommand, Heartbeat, PrepareEffect, PublishReport, Complete, FailAndRetry,
              FailShard, FailPlanTask, ReportUnknown, Defer, WaitForHuman
<1>7. ASSUME NEW g \in Group, MaterializeFanout(g) \/ CompleteFanout(g) PROVE Kept
  BY <1>7 DEF MaterializeFanout, CompleteFanout
<1>8. ASSUME UNCHANGED vars PROVE Kept
  BY <1>8 DEF vars
<1> QED
  BY <1>1, <1>2, <1>3, <1>4, <1>5, <1>6, <1>7, <1>8 DEF Next

ReusedInv == LeaseInv /\ AbsentFresh /\ ReusedNeverRuns

LEMMA StepReused == ReusedInv /\ [Next]_vars => ReusedNeverRuns'
<1> SUFFICES ASSUME ReusedInv, [Next]_vars PROVE ReusedNeverRuns'
  OBVIOUS
<1>1. \/ reused' = reused
      \/ \E r \in Run : \E src : /\ runState[r] = "ABSENT"
                             /\ reused' = reused \union ReusedPrefix(r, src)
  BY StepOrigin, CreatedRows DEF ReusedInv, LeaseInv
<1>2. reused \subseteq Task
  BY DEF ReusedInv, LeaseInv, TypeOK
<1>3. \A t \in Task : taskState[t] # "RUNNABLE" => leaseToken'[t] = leaseToken[t]
  BY StepTokens DEF ReusedInv, LeaseInv, TokenMove, Claim, ClaimById, Claimable
<1>4. ASSUME NEW t \in reused
      PROVE  taskState'[t] = "SUCCEEDED" /\ leaseToken'[t] = 0 /\ \A u \in Before[t] : u \in reused
  BY <1>2, <1>3, StepTasks DEF ReusedInv, ReusedNeverRuns, TaskMove
<1>5. ASSUME NEW r \in Run, NEW src, NEW t \in ReusedPrefix(r, src), runState[r] = "ABSENT"
      PROVE  leaseToken'[t] = 0 /\ \A u \in Before[t] : u \in ReusedPrefix(r, src)
  <2>1. t \in Task /\ RunOf[t] = r /\ src # NoRun
        /\ \A u \in Before[t] \union {t} : Reusable(u, src)
    BY <1>5 DEF ReusedPrefix, PlanOf, TasksOf
  <2>2. leaseToken[t] = 0 /\ taskState[t] = "ABSENT"
    BY <1>5, <2>1 DEF ReusedInv, LeaseInv, RowsExist, AbsentFresh
  <2>3. ASSUME NEW u \in Before[t] PROVE u \in ReusedPrefix(r, src)
    <3>1. u \in Task /\ RunOf[u] = r /\ Before[u] \subseteq Before[t] /\ u \notin Shard
      BY <2>1, ReferenceAssumption, PlanAssumption DEF ReferenceAssumption, PlanAssumption, Shard
    <3> QED
      BY <2>1, <3>1 DEF ReusedPrefix, PlanOf, TasksOf
  <2> QED
    BY <1>3, <2>1, <2>2, <2>3
<1>6. \A t \in reused' : taskState'[t] = "SUCCEEDED"
  <2>1. ASSUME NEW r \in Run, CreateGoal(r) PROVE \A t \in reused' : taskState'[t] = "SUCCEEDED"
    <3>1. \A src : ReusedPrefix(r, src) \subseteq PlanOf(r) /\ PlanOf(r) \subseteq Task
      BY DEF ReusedPrefix, PlanOf, TasksOf
    <3> QED
      BY <1>4, <2>1, <3>1, CreatedRows DEF ReusedInv, LeaseInv
  <2> QED
    BY <1>4, <2>1, StepOrigin
<1> QED
  BY <1>1, <1>4, <1>5, <1>6 DEF ReusedNeverRuns

(* A result that a recovery run has taken over is never computed again,    *)
(* and everything before it in the plan has been taken over too.           *)
THEOREM ReusedStaysReused == Spec => []ReusedNeverRuns
<1>1. Init => ReusedInv
  BY InitLeased DEF Init, ReusedInv, AbsentFresh, ReusedNeverRuns
<1>2. ReusedInv /\ [Next]_vars => ReusedInv'
  BY StepReused, StepLeaseInv, StepAbsentFresh DEF ReusedInv
<1>3. ReusedInv => ReusedNeverRuns
  BY DEF ReusedInv
<1> QED
  BY <1>1, <1>2, <1>3, PTL DEF Spec

-----------------------------------------------------------------------------
(* Waiting for a human *)

WaitingInv == TypeOK /\ RowsExist /\ WaitingRunIsResumable

LEMMA StepWaiting == WaitingInv /\ [Next]_vars => WaitingRunIsResumable'
<1> USE DEF leaseVars, effectVars, goalVars, humanVars, Promotable, Promoted, TasksOf, PlanOf
<1> DEFINE Kept == /\ escalated \subseteq escalated'
                   /\ \A t \in Task : taskState[t] = "WAITING" => taskState'[t] = "WAITING"
           NoneNew == \A r \in Run : runState'[r] = "WAITING_FOR_HUMAN" =>
                         runState[r] = "WAITING_FOR_HUMAN"
<1> SUFFICES ASSUME WaitingInv, [Next]_vars PROVE WaitingRunIsResumable'
  OBVIOUS
<1>0. /\ taskState \in [Task -> TaskStates] /\ runState \in [Run -> RunStates]
      /\ \A t \in Task : RunOf[t] \in Run
  BY ReferenceAssumption DEF ReferenceAssumption, WaitingInv, TypeOK
<1>1. ASSUME Kept, NoneNew PROVE WaitingRunIsResumable'
  BY <1>1 DEF WaitingInv, WaitingRunIsResumable
<1>2. ASSUME NEW c \in Candidate,
             Observe(c) \/ RepeatEnqueue(c) \/ Reprocess(c) \/ Restore(c)
      PROVE  WaitingRunIsResumable'
  BY <1>1, <1>2 DEF Observe, RepeatEnqueue, Reprocess, Restore
<1>3. ASSUME NEW r \in Run, CreateGoal(r) PROVE WaitingRunIsResumable'
  <2>1. \A t \in PlanOf(r) : taskState[t] = "ABSENT"
    BY <1>3 DEF CreateGoal, WaitingInv, RowsExist
  <2> QED
    BY <1>0, <1>1, <1>3, <2>1 DEF CreateGoal
<1>4. ASSUME NEW r \in Run, MarkAnalyzing(r) \/ Promote(r) PROVE WaitingRunIsResumable'
  BY <1>0, <1>1, <1>4 DEF MarkAnalyzing, Promote
<1>5. CASE RestartDiscovery \/ ReadEscalations
  BY <1>1, <1>5 DEF RestartDiscovery, ReadEscalations
<1>6. ASSUME NEW r \in Run, ResumeRun(r) PROVE WaitingRunIsResumable'
  <2>1. /\ escalated' = escalated \ {r}
        /\ runState'[r] # "WAITING_FOR_HUMAN"
        /\ \A s \in Run \ {r} : runState'[s] = runState[s]
        /\ \A t \in Task : RunOf[t] # r => taskState'[t] = taskState[t]
    BY <1>0, <1>6 DEF ResumeRun
  <2> QED
    BY <2>1 DEF WaitingInv, WaitingRunIsResumable
<1>7. ASSUME NEW r \in Run, ResolveEscalation(r) PROVE WaitingRunIsResumable'
  <2>1. /\ escalated' = escalated \ {r}
        /\ runState'[r] # "WAITING_FOR_HUMAN"
        /\ \A s \in Run \ {r} : runState'[s] = runState[s]
        /\ taskState' = taskState
    BY <1>0, <1>7 DEF ResolveEscalation
  <2> QED
    BY <2>1 DEF WaitingInv, WaitingRunIsResumable
<1>8. ASSUME NEW t \in Task, NEW w \in Worker, Claim(t, w) \/ ClaimById(t, w)
      PROVE  WaitingRunIsResumable'
  BY <1>0, <1>1, <1>8 DEF Claim, ClaimById, Claimable, StartAttempt
<1>9. ASSUME NEW t \in Task, LeaseExpires(t) PROVE WaitingRunIsResumable'
  BY <1>1, <1>9 DEF LeaseExpires
<1>10. ASSUME NEW t \in Task, NEW n \in Claims, WorkerCommand(t, n) PROVE WaitingRunIsResumable'
  <2> USE DEF HoldsAttempt, Holds
  <2>1. CASE Heartbeat(t, n) \/ PrepareEffect(t, n) \/ PublishReport(t, n)
    BY <1>1, <2>1 DEF Heartbeat, PrepareEffect, PublishReport
  <2>2. CASE Complete(t, n)
    BY <1>0, <1>1, <2>2 DEF Complete
  <2>3. CASE FailAndRetry(t, n) \/ ReportUnknown(t, n) \/ Defer(t, n)
    BY <1>0, <1>1, <2>3 DEF FailAndRetry, ReportUnknown, Defer
  <2>4. CASE FailShard(t, n)
    BY <1>0, <1>1, <2>4 DEF FailShard
  <2>5. CASE FailPlanTask(t, n)
    BY <1>0, <1>1, <2>5 DEF FailPlanTask
  <2>6. CASE WaitForHuman(t, n)
    <3>1. /\ escalated' = escalated \union {RunOf[t]}
          /\ taskState'[t] = "WAITING"
          /\ \A u \in Task \ {t} : taskState'[u] = taskState[u]
          /\ \A s \in Run \ {RunOf[t]} : runState'[s] = runState[s]
      BY <1>0, <2>6 DEF WaitForHuman
    <3> QED
      BY <1>0, <3>1 DEF WaitingInv, WaitingRunIsResumable
  <2> QED
    BY <1>10, <2>1, <2>2, <2>3, <2>4, <2>5, <2>6 DEF WorkerCommand
<1>11. ASSUME NEW g \in Group, MaterializeFanout(g) PROVE WaitingRunIsResumable'
  <2>1. \A t \in ShardsOf[g] : taskState[t] = "ABSENT"
    BY <1>11 DEF MaterializeFanout, WaitingInv, RowsExist
  <2> QED
    BY <1>0, <1>1, <1>11, <2>1 DEF MaterializeFanout
<1>12. ASSUME NEW g \in Group, CompleteFanout(g) PROVE WaitingRunIsResumable'
  BY <1>1, <1>12 DEF CompleteFanout
<1>13. ASSUME NEW c \in Candidate, Archive(c) PROVE WaitingRunIsResumable'
  <2>1. /\ escalated' = escalated
        /\ \A r \in CandidateRuns(c) : runState'[r] # "WAITING_FOR_HUMAN"
        /\ \A r \in Run \ CandidateRuns(c) : runState'[r] = runState[r]
        /\ \A t \in Task : RunOf[t] \notin CandidateRuns(c) => taskState'[t] = taskState[t]
    BY <1>0, <1>13 DEF Archive, CandidateRuns
  <2> QED
    BY <2>1 DEF WaitingInv, WaitingRunIsResumable
<1>14. CASE RecoverStale
  <2>1. Kept
    BY <1>14, RecoveredTasks DEF RecoverStale, WaitingInv
  <2>2. NoneNew
    BY <1>14 DEF RecoverStale
  <2> QED
    BY <1>1, <2>1, <2>2
<1>15. CASE UNCHANGED vars
  BY <1>1, <1>15 DEF vars
<1> QED
  BY <1>2, <1>3, <1>4, <1>5, <1>6, <1>7, <1>8, <1>9, <1>10, <1>11, <1>12, <1>13, <1>14, <1>15 DEF Next

(* A run never waits for a human in vain: its escalation is open and one   *)
(* of its tasks is waiting, whatever its other tasks have done meanwhile.  *)
THEOREM WaitingStaysResumable == Spec => []WaitingRunIsResumable
<1>1. Init => WaitingInv
  BY InitTyped, InitLeased DEF LeaseInv, WaitingInv, Init, WaitingRunIsResumable
<1>2. WaitingInv /\ [Next]_vars => WaitingInv'
  BY StepWaiting, StepTyped, StepRowsExist DEF WaitingInv
<1>3. WaitingInv => WaitingRunIsResumable
  BY DEF WaitingInv
<1> QED
  BY <1>1, <1>2, <1>3, PTL DEF Spec

-----------------------------------------------------------------------------
(* Dependencies and joins *)

(* How a task's row is created, and how it comes to a bad end. *)
RowMove(t) ==
    /\ taskState[t] = "ABSENT" /\ taskState'[t] # "ABSENT" =>
          \/ \E r \in Run : CreateGoal(r) /\ t \in PlanOf(r)
          \/ \E g \in Group : MaterializeFanout(g) /\ t \in ShardsOf[g]
    /\ taskState'[t] = "FAILED" =>
          taskState[t] = "FAILED" \/ \E n \in Claims : FailShard(t, n) \/ FailPlanTask(t, n)
    /\ taskState'[t] = "CANCELLED" =>
          \/ taskState[t] = "CANCELLED"
          \/ taskState[t] # "ABSENT" /\ \E c \in Candidate : Archive(c) /\ RunOf[t] \in CandidateRuns(c)

(* No other command does that. *)
LEMMA StepRows == TypeOK /\ [Next]_vars => \A t \in Task : RowMove(t)
<1> USE DEF leaseVars, effectVars, goalVars, Promotable, Promoted, TasksOf, RowMove
<1> DEFINE Moves == \A u \in Task : RowMove(u)
           Quiet(u) == \/ taskState'[u] = taskState[u]
                       \/ /\ taskState[u] # "ABSENT"
                          /\ taskState'[u] \notin {"FAILED", "CANCELLED"}
<1> SUFFICES ASSUME TypeOK, [Next]_vars PROVE Moves
  OBVIOUS
<1>0. taskState \in [Task -> TaskStates]
  BY DEF TypeOK
<1>1. ASSUME \A u \in Task : Quiet(u) PROVE Moves
  BY <1>1
<1>2. ASSUME NEW c \in Candidate,
             Observe(c) \/ RepeatEnqueue(c) \/ Reprocess(c) \/ Restore(c)
      PROVE  Moves
  BY <1>1, <1>2 DEF Observe, RepeatEnqueue, Reprocess, Restore
<1>3. ASSUME NEW r \in Run, CreateGoal(r) PROVE Moves
  BY <1>0, <1>3, CreatedRows
<1>4. ASSUME NEW r \in Run, MarkAnalyzing(r) \/ Promote(r) \/ ResumeRun(r) \/ ResolveEscalation(r)
      PROVE  Moves
  BY <1>0, <1>1, <1>4 DEF MarkAnalyzing, Promote, ResumeRun, ResolveEscalation
<1>5. CASE RestartDiscovery \/ ReadEscalations
  BY <1>1, <1>5 DEF RestartDiscovery, ReadEscalations
<1>6. ASSUME NEW t \in Task, NEW w \in Worker, Claim(t, w) \/ ClaimById(t, w) PROVE Moves
  BY <1>0, <1>1, <1>6 DEF Claim, ClaimById, Claimable, StartAttempt
<1>7. ASSUME NEW t \in Task, LeaseExpires(t) PROVE Moves
  BY <1>1, <1>7 DEF LeaseExpires
<1>8. ASSUME NEW t \in Task, NEW n \in Claims, WorkerCommand(t, n) PROVE Moves
  <2> USE DEF HoldsAttempt, Holds
  <2>1. CASE Heartbeat(t, n) \/ PrepareEffect(t, n) \/ PublishReport(t, n)
    BY <1>1, <2>1 DEF Heartbeat, PrepareEffect, PublishReport
  <2>2. CASE Complete(t, n)
    BY <1>0, <1>1, <2>2 DEF Complete
  <2>3. CASE FailAndRetry(t, n) \/ ReportUnknown(t, n) \/ Defer(t, n) \/ WaitForHuman(t, n)
    BY <1>0, <1>1, <2>3 DEF FailAndRetry, ReportUnknown, Defer, WaitForHuman
  <2>4. CASE FailShard(t, n)
    <3>1. \A u \in Task \ {t} : Quiet(u)
      BY <1>0, <2>4 DEF FailShard
    <3>2. taskState[t] = "RUNNING" /\ taskState'[t] # "CANCELLED"
      BY <1>0, <2>4 DEF FailShard
    <3> QED
      BY <1>8, <2>4, <3>1, <3>2
  <2>5. CASE FailPlanTask(t, n)
    <3>1. \A u \in Task \ {t} : Quiet(u)
      BY <1>0, <2>5 DEF FailPlanTask
    <3>2. taskState[t] = "RUNNING" /\ taskState'[t] # "CANCELLED"
      BY <1>0, <2>5 DEF FailPlanTask
    <3> QED
      BY <1>8, <2>5, <3>1, <3>2
  <2> QED
    BY <1>8, <2>1, <2>2, <2>3, <2>4, <2>5 DEF WorkerCommand
<1>9. ASSUME NEW g \in Group, MaterializeFanout(g) PROVE Moves
  <2>1. PICK taken : taskState' = [t \in Task |->
              IF t \notin ShardsOf[g] THEN taskState[t]
              ELSE IF t \in taken THEN "SUCCEEDED" ELSE "PENDING"]
    BY <1>9 DEF MaterializeFanout
  <2> QED
    BY <1>9, <2>1
<1>10. ASSUME NEW g \in Group, CompleteFanout(g) PROVE Moves
  BY <1>1, <1>10 DEF CompleteFanout
<1>11. ASSUME NEW c \in Candidate, Archive(c) PROVE Moves
  <2>1. \A t \in Task : taskState'[t] = taskState[t] \/
           /\ taskState'[t] = "CANCELLED" /\ taskState[t] # "ABSENT"
           /\ RunOf[t] \in CandidateRuns(c)
    BY <1>0, <1>11 DEF Archive
  <2> QED
    BY <1>11, <2>1
<1>12. CASE RecoverStale
  BY <1>1, <1>12, RecoveredTasks
<1>13. CASE UNCHANGED vars
  BY <1>1, <1>13 DEF vars
<1> QED
  BY <1>2, <1>3, <1>4, <1>5, <1>6, <1>7, <1>8, <1>9, <1>10, <1>11, <1>12, <1>13 DEF Next

(* The state of a group follows from its shards: it has succeeded only if  *)
(* all of them have, and it has failed exactly if one of them has.         *)
GroupsFollowShards ==
    \A g \in Group :
        /\ groupState[g] = "SUCCEEDED" => \A t \in ShardsOf[g] : taskState[t] = "SUCCEEDED"
        /\ groupState[g] = "FAILED" <=> \E t \in ShardsOf[g] : taskState[t] = "FAILED"

JoinInv == LeaseInv /\ GroupsFollowShards /\ JoinCoversGroup

LEMMA StepGroupsFollow == LeaseInv /\ GroupsFollowShards /\ [Next]_vars => GroupsFollowShards'
<1> SUFFICES ASSUME LeaseInv, GroupsFollowShards, [Next]_vars, NEW g \in Group
             PROVE  /\ groupState'[g] = "SUCCEEDED" =>
                          \A t \in ShardsOf[g] : taskState'[t] = "SUCCEEDED"
                    /\ groupState'[g] = "FAILED" <=> \E t \in ShardsOf[g] : taskState'[t] = "FAILED"
  BY DEF GroupsFollowShards
<1>1. ShardsOf[g] \subseteq Task /\ ShardsOf[g] \subseteq Shard
  BY ReferenceAssumption DEF ReferenceAssumption, Shard
<1>2. GroupMove(g) /\ \A t \in Task : TaskMove(t) /\ RowMove(t)
  BY StepGroups, StepTasks, StepRows DEF LeaseInv
<1>3. /\ groupState[g] = "SUCCEEDED" => \A t \in ShardsOf[g] : taskState[t] = "SUCCEEDED"
      /\ groupState[g] = "FAILED" <=> \E t \in ShardsOf[g] : taskState[t] = "FAILED"
      /\ groupState[g] = "ABSENT" => \A t \in ShardsOf[g] : taskState[t] = "ABSENT"
      /\ groupState \in [Group -> GroupStates]
  BY DEF GroupsFollowShards, LeaseInv, RowsExist, TypeOK
<1>4. \A t \in ShardsOf[g] : taskState[t] \in {"SUCCEEDED", "FAILED"} => taskState'[t] = taskState[t]
  BY <1>1, <1>2 DEF TaskMove
<1>5. ASSUME NEW t \in ShardsOf[g], NEW n \in Claims, FailShard(t, n)
      PROVE  groupState'[g] = "FAILED" /\ taskState'[t] = "FAILED"
  <2>1. taskState[t] = "RUNNING" /\ taskState'[t] = "FAILED"
    BY <1>1, <1>5 DEF FailShard, HoldsAttempt, Holds, Promoted, Promotable, LeaseInv, TypeOK
  <2>2. groupState[g] \in {"PLANNED", "RUNNING", "FAILED"}
    BY <1>3, <2>1 DEF GroupStates
  <2>3. groupState'[g] = IF groupState[g] \in {"PLANNED", "RUNNING"} THEN "FAILED" ELSE groupState[g]
    BY <1>5 DEF FailShard
  <2> QED
    BY <2>1, <2>2, <2>3
<1>6. ASSUME NEW t \in ShardsOf[g], taskState'[t] = "FAILED" PROVE groupState'[g] = "FAILED"
  <2>1. CASE taskState[t] = "FAILED"
    BY <1>2, <1>3, <2>1 DEF GroupMove
  <2>2. CASE taskState[t] # "FAILED"
    BY <1>1, <1>2, <1>5, <1>6, <2>2 DEF RowMove, FailPlanTask
  <2> QED
    BY <2>1, <2>2
<1>7. ASSUME groupState'[g] = "FAILED" PROVE \E t \in ShardsOf[g] : taskState'[t] = "FAILED"
  BY <1>2, <1>3, <1>4, <1>5, <1>7 DEF GroupMove
<1>8. ASSUME groupState'[g] = "SUCCEEDED", NEW t \in ShardsOf[g] PROVE taskState'[t] = "SUCCEEDED"
  BY <1>2, <1>3, <1>4, <1>8 DEF GroupMove
<1> QED
  BY <1>6, <1>7, <1>8

LEMMA StepJoinCovers == JoinInv /\ [Next]_vars => JoinCoversGroup'
<1> SUFFICES ASSUME JoinInv, [Next]_vars, NEW g \in Group,
                    taskState'[JoinOf[g]] = "SUCCEEDED", JoinOf[g] \notin reused',
                    NEW s \in ShardsOf[g]
             PROVE  taskState'[s] = "SUCCEEDED"
  BY DEF JoinCoversGroup
<1> DEFINE t == JoinOf[g]
<1>1. t \in Task /\ s \in Task /\ t \notin NotificationTask /\ \A h \in Group : t \notin ShardsOf[h]
  BY ReferenceAssumption, FanoutAssumption DEF ReferenceAssumption, FanoutAssumption
<1>2. reused \subseteq reused'
  BY StepOrigin, CreatedRows DEF JoinInv, LeaseInv
<1>3. SuccessMove(t) /\ TaskMove(s)
  BY <1>1, StepSuccess, StepTasks DEF JoinInv
<1>4. taskState[s] = "SUCCEEDED"
  <2>1. CASE taskState[t] = "SUCCEEDED"
    BY <1>2, <2>1 DEF JoinInv, JoinCoversGroup
  <2>2. ASSUME NEW n \in Claims, Complete(t, n) PROVE taskState[s] = "SUCCEEDED"
    BY <2>2 DEF Complete, ToolFinished, JoinInv, GroupsFollowShards
  <2> QED
    BY <1>1, <1>3, <2>1, <2>2 DEF SuccessMove
<1> QED
  BY <1>3, <1>4 DEF TaskMove

(* A join that the run itself computed has all the shards of its group     *)
(* behind it, however they were retried, recovered or cancelled.           *)
THEOREM JoinsCoverGroups == Spec => []JoinCoversGroup
<1>1. Init => JoinInv
  BY InitLeased, ReferenceAssumption
  DEF ReferenceAssumption, Init, JoinInv, GroupsFollowShards, JoinCoversGroup
<1>2. JoinInv /\ [Next]_vars => JoinInv'
  BY StepLeaseInv, StepGroupsFollow, StepJoinCovers DEF JoinInv
<1>3. JoinInv => JoinCoversGroup
  BY DEF JoinInv
<1> QED
  BY <1>1, <1>2, <1>3, PTL DEF Spec

(* A task is cancelled only by archiving, which ends its run. *)
CancelledIsOver ==
    \A t \in Task : taskState[t] = "CANCELLED" =>
        runState[RunOf[t]] \in {"SUCCEEDED", "FAILED", "PAUSED"}

OrderInv ==
    /\ EffectInv
    /\ GroupsFollowShards
    /\ CancelledIsOver
    /\ StartedAfterDependencies

LEMMA StepCancelled == LeaseInv /\ CancelledIsOver /\ [Next]_vars => CancelledIsOver'
<1> SUFFICES ASSUME LeaseInv, CancelledIsOver, [Next]_vars, NEW t \in Task,
                    taskState'[t] = "CANCELLED"
             PROVE  runState'[RunOf[t]] \in {"SUCCEEDED", "FAILED", "PAUSED"}
  BY DEF CancelledIsOver
<1>1. RunOf[t] \in Run /\ runState \in [Run -> RunStates]
  BY ReferenceAssumption DEF ReferenceAssumption, LeaseInv, TypeOK
<1>2. RowMove(t) /\ RunMove(RunOf[t])
  BY <1>1, StepRows, StepRuns DEF LeaseInv
<1>3. CASE taskState[t] = "CANCELLED"
  BY <1>2, <1>3 DEF CancelledIsOver, RunMove
<1>4. ASSUME NEW c \in Candidate, Archive(c), RunOf[t] \in CandidateRuns(c), taskState[t] # "ABSENT"
      PROVE  runState'[RunOf[t]] \in {"SUCCEEDED", "FAILED", "PAUSED"}
  <2>1. runState'[RunOf[t]] = IF runState[RunOf[t]] \in {"ACTIVE", "WAITING_FOR_HUMAN"}
                              THEN "PAUSED" ELSE runState[RunOf[t]]
    BY <1>1, <1>4 DEF Archive
  <2>2. runState[RunOf[t]] # "ABSENT"
    BY <1>4 DEF LeaseInv, RowsExist
  <2> QED
    BY <1>1, <2>1, <2>2 DEF RunStates
<1> QED
  BY <1>2, <1>3, <1>4 DEF RowMove

(* What Blocked promises at the moment of a claim. *)
LEMMA ClaimedInOrder ==
    ASSUME OrderInv, NEW t \in Task, Claimable(t)
    PROVE  \/ \A d \in Requires[t] : taskState[d] \in {"ABSENT", "SUCCEEDED"}
           \/ \E g \in Joined(t, groupState) :
                 groupState[g] = "FAILED" \/ taskState[CoordinatorOf[g]] = "FAILED"
<1>1. /\ Requires[t] \subseteq Task
      /\ \A d \in Requires[t] : RunOf[d] = RunOf[t] /\ d \notin NotificationTask
  BY ReferenceAssumption, PlanAssumption DEF ReferenceAssumption, PlanAssumption
<1>2. CASE \E g \in Joined(t, groupState) : groupState[g] = "FAILED"
  BY <1>2
<1>3. CASE Joined(t, groupState) = {}
  BY <1>3 DEF Claimable, Blocked
<1>4. ASSUME NEW g \in Joined(t, groupState), \A h \in Joined(t, groupState) : groupState[h] # "FAILED",
             taskState[CoordinatorOf[g]] # "FAILED"
      PROVE  \A d \in Requires[t] : taskState[d] \in {"ABSENT", "SUCCEEDED"}
  <2>1. g \in Group /\ JoinOf[g] = t /\ groupState[g] # "FAILED"
    BY <1>4 DEF Joined
  <2>2. \A d \in Requires[t] : taskState[d] \in Terminal \union {"ABSENT"}
    BY <1>4 DEF Claimable, Blocked
  <2>3. ASSUME NEW d \in Requires[t] PROVE taskState[d] \notin {"CANCELLED", "UNKNOWN_OUTCOME"}
    BY <1>1 DEF OrderInv, EffectInv, UncertainOnRecord, CancelledIsOver, Claimable
  <2>4. ASSUME NEW d \in Requires[t] PROVE taskState[d] # "FAILED"
    <3>1. d = CoordinatorOf[g] \/ d \in ShardsOf[g]
      BY <2>1, FanoutAssumption DEF FanoutAssumption
    <3> QED
      BY <1>4, <2>1, <3>1 DEF OrderInv, GroupsFollowShards
  <2> QED
    BY <2>2, <2>3, <2>4 DEF Terminal
<1> QED
  BY <1>2, <1>3, <1>4

LEMMA StepOrdered == OrderInv /\ [Next]_vars => StartedAfterDependencies'
<1> SUFFICES ASSUME OrderInv, [Next]_vars, NEW t \in Task, leaseToken'[t] > 0
             PROVE  \/ \A d \in Requires[t] : taskState'[d] \in {"ABSENT", "SUCCEEDED"}
                    \/ \E g \in Joined(t, groupState') :
                          groupState'[g] = "FAILED" \/ taskState'[CoordinatorOf[g]] = "FAILED"
  BY DEF StartedAfterDependencies, Joined
<1> DEFINE Met == \/ \A d \in Requires[t] : taskState'[d] \in {"ABSENT", "SUCCEEDED"}
                  \/ \E g \in Joined(t, groupState') :
                        groupState'[g] = "FAILED" \/ taskState'[CoordinatorOf[g]] = "FAILED"
<1>1. /\ Requires[t] \subseteq Task
      /\ \A d \in Requires[t] : RunOf[d] = RunOf[t]
      /\ \A g \in Group : CoordinatorOf[g] \in Task
  BY ReferenceAssumption, PlanAssumption DEF ReferenceAssumption, PlanAssumption
<1>2. /\ \A d \in Task : TaskMove(d) /\ RowMove(d)
      /\ \A g \in Group : GroupMove(g)
      /\ TokenMove(t)
  BY StepTasks, StepRows, StepGroups, StepTokens DEF OrderInv, EffectInv, LeaseInv
<1>3. \A g \in Group : groupState[g] = "FAILED" => groupState'[g] = "FAILED"
  BY <1>2 DEF GroupMove, OrderInv, GroupsFollowShards
<1>4. \A g \in Joined(t, groupState) : g \in Joined(t, groupState')
  BY <1>2 DEF GroupMove, Joined
<1>5. ASSUME \A d \in Requires[t] : taskState[d] \in {"ABSENT", "SUCCEEDED"},
             taskState[t] # "ABSENT"
      PROVE  \A d \in Requires[t] : taskState'[d] \in {"ABSENT", "SUCCEEDED"}
  <2> SUFFICES ASSUME NEW d \in Requires[t], taskState[d] = "ABSENT", taskState'[d] # "ABSENT"
               PROVE  FALSE
    BY <1>1, <1>2, <1>5 DEF TaskMove
  <2>1. ASSUME NEW r \in Run, CreateGoal(r), d \in PlanOf(r) PROVE FALSE
    BY <1>1, <1>5, <2>1 DEF CreateGoal, PlanOf, TasksOf, OrderInv, EffectInv, LeaseInv, RowsExist
  <2>2. ASSUME NEW g \in Group, MaterializeFanout(g), d \in ShardsOf[g] PROVE FALSE
    <3>1. t = JoinOf[g] \/ t \in ShardsOf[g]
      BY <2>2, FanoutAssumption DEF FanoutAssumption
    <3>2. CASE t = JoinOf[g]
      <4>1. CoordinatorOf[g] \in Requires[t]
        BY <3>2, FanoutAssumption DEF FanoutAssumption
      <4> QED
        BY <1>5, <2>2, <4>1 DEF MaterializeFanout
    <3>3. CASE t \in ShardsOf[g]
      BY <1>5, <2>2, <3>3 DEF MaterializeFanout, OrderInv, EffectInv, LeaseInv, RowsExist
    <3> QED
      BY <3>1, <3>2, <3>3
  <2> QED
    BY <1>1, <1>2, <2>1, <2>2 DEF RowMove
<1>6. CASE leaseToken'[t] = leaseToken[t]
  <2>1. taskState[t] # "ABSENT"
    BY <1>6 DEF OrderInv, EffectInv, AbsentFresh
  <2>2. CASE \A d \in Requires[t] : taskState[d] \in {"ABSENT", "SUCCEEDED"}
    BY <1>5, <2>1, <2>2
  <2>3. ASSUME NEW g \in Joined(t, groupState),
               groupState[g] = "FAILED" \/ taskState[CoordinatorOf[g]] = "FAILED"
        PROVE  Met
    <3>1. g \in Group
      BY DEF Joined
    <3>2. taskState[CoordinatorOf[g]] = "FAILED" => taskState'[CoordinatorOf[g]] = "FAILED"
      BY <1>1, <1>2, <3>1 DEF TaskMove
    <3> QED
      BY <1>3, <1>4, <2>3, <3>1, <3>2
  <2> QED
    BY <1>6, <2>2, <2>3 DEF OrderInv, StartedAfterDependencies
<1>7. CASE Claimable(t)
  <2>1. taskState[t] # "ABSENT"
    BY <1>7 DEF Claimable
  <2>2. CASE \A d \in Requires[t] : taskState[d] \in {"ABSENT", "SUCCEEDED"}
    BY <1>5, <2>1, <2>2
  <2>3. ASSUME NEW g \in Joined(t, groupState),
               groupState[g] = "FAILED" \/ taskState[CoordinatorOf[g]] = "FAILED"
        PROVE  Met
    <3>1. g \in Group
      BY DEF Joined
    <3>2. taskState[CoordinatorOf[g]] = "FAILED" => taskState'[CoordinatorOf[g]] = "FAILED"
      BY <1>1, <1>2, <3>1 DEF TaskMove
    <3> QED
      BY <1>3, <1>4, <2>3, <3>1, <3>2
  <2> QED
    BY <1>7, <2>2, <2>3, ClaimedInOrder
<1> QED
  BY <1>2, <1>6, <1>7 DEF TokenMove, Claim, ClaimById

LEMMA StepOrderInv == OrderInv /\ [Next]_vars => OrderInv'
BY StepEffectInv, StepGroupsFollow, StepCancelled, StepOrdered DEF OrderInv, EffectInv

LEMMA InitOrdered == Init => OrderInv
<1>1. Init => GroupsFollowShards /\ CancelledIsOver /\ StartedAfterDependencies
  BY ReferenceAssumption
  DEF ReferenceAssumption, Init, GroupsFollowShards, CancelledIsOver, StartedAfterDependencies
<1> QED
  BY <1>1, InitEffects DEF OrderInv

(* Whatever happened since the eligibility was decided, a task that was    *)
(* started had its dependencies met and they stay met.                     *)
THEOREM StartedInOrder == Spec => []StartedAfterDependencies
<1>1. OrderInv => StartedAfterDependencies
  BY DEF OrderInv
<1> QED
  BY <1>1, InitOrdered, StepOrderInv, PTL DEF Spec

(* What makes NoLostPromotion inductive: groups belong to runs that exist, *)
(* and the promise holds while the run waits for a human as well.          *)
GroupsHaveRuns ==
    \A g \in Group : runState[RunOf[CoordinatorOf[g]]] = "ABSENT" => groupState[g] = "ABSENT"

Unbroken(r) == source[r] = NoRun /\ \A t \in PlanOf(r) : taskState[t] # "FAILED"

Awake ==
    \A r \in Run : runState[r] \in {"ACTIVE", "WAITING_FOR_HUMAN"} /\ Unbroken(r) =>
        Promotable(r, taskState, groupState) = {}

WakeInv == OrderInv /\ GroupsHaveRuns /\ Awake

LEMMA StepGroupsHaveRuns == LeaseInv /\ GroupsHaveRuns /\ [Next]_vars => GroupsHaveRuns'
<1> SUFFICES ASSUME LeaseInv, GroupsHaveRuns, [Next]_vars, NEW g \in Group,
                    runState'[RunOf[CoordinatorOf[g]]] = "ABSENT"
             PROVE  groupState'[g] = "ABSENT"
  BY DEF GroupsHaveRuns
<1>1. RunOf[CoordinatorOf[g]] \in Run
  BY ReferenceAssumption DEF ReferenceAssumption
<1>2. runState[RunOf[CoordinatorOf[g]]] = "ABSENT"
  BY <1>1, StepRuns DEF LeaseInv, RunMove
<1>3. groupState[g] = "ABSENT" /\ GroupMove(g)
  BY <1>2, StepGroups DEF LeaseInv, GroupsHaveRuns
<1> QED
  BY <1>2, <1>3 DEF GroupMove, MaterializeFanout

(* A command that promotes, promotes all that its own outcome released.    *)
LEMMA PromotionIsComplete ==
    ASSUME TypeOK, NEW r \in Run, NEW states \in [Task -> TaskStates],
           taskState' = Promoted(states, Promotable(r, states, groupState')),
           NEW t \in TasksOf(r), taskState'[t] = "PENDING"
    PROVE  Blocked(t, taskState', groupState')
<1>1. t \in Task /\ Requires[t] \subseteq Task
  BY ReferenceAssumption DEF ReferenceAssumption, TasksOf
<1>2. states[t] = "PENDING" /\ t \notin Promotable(r, states, groupState')
  BY <1>1 DEF Promoted
<1>3. Blocked(t, states, groupState')
  BY <1>1, <1>2 DEF Promotable
<1>4. \A d \in Task : \/ taskState'[d] = states[d]
                      \/ states[d] = "PENDING" /\ taskState'[d] = "RUNNABLE"
  BY DEF Promoted, Promotable
<1> QED
  BY <1>1, <1>3, <1>4 DEF Blocked, Terminal

LEMMA StepAwake == WakeInv /\ [Next]_vars => Awake'
<1> SUFFICES ASSUME WakeInv, [Next]_vars, NEW r \in Run,
                    runState'[r] \in {"ACTIVE", "WAITING_FOR_HUMAN"}, Unbroken(r)',
                    NEW t \in Promotable(r, taskState', groupState')
             PROVE  FALSE
  BY DEF Awake, Promotable
<1>1. /\ TypeOK /\ LeaseInv
      /\ taskState \in [Task -> TaskStates] /\ groupState \in [Group -> GroupStates]
      /\ runState \in [Run -> RunStates] /\ source \in [Run -> Run \union {NoRun}]
  BY DEF WakeInv, OrderInv, EffectInv, LeaseInv, TypeOK
<1>2. /\ t \in Task /\ RunOf[t] = r /\ taskState'[t] = "PENDING"
      /\ ~Blocked(t, taskState', groupState')
  BY DEF Promotable, TasksOf
<1>3. /\ Requires[t] \subseteq Task
      /\ \A d \in Requires[t] : RunOf[d] = r /\ d \notin NotificationTask
  BY <1>2, ReferenceAssumption, PlanAssumption DEF ReferenceAssumption, PlanAssumption
<1>4. /\ \A d \in Task : TaskMove(d) /\ RowMove(d) /\ SuccessMove(d)
      /\ \A g \in Group : GroupMove(g)
      /\ \A s \in Run : RunMove(s)
  BY <1>1, StepTasks, StepRows, StepSuccess, StepGroups, StepRuns
<1>5. \A g \in Group : \A s \in ShardsOf[g] :
         s \in Task /\ RunOf[s] = RunOf[JoinOf[g]] /\ RunOf[CoordinatorOf[g]] = RunOf[JoinOf[g]]
  BY ReferenceAssumption, ShardAssumption, FanoutAssumption
  DEF ReferenceAssumption, ShardAssumption, FanoutAssumption
<1>6. Joined(t, groupState) \subseteq Joined(t, groupState')
  BY <1>4 DEF GroupMove, Joined
<1>7. ~CreateGoal(r)
  <2> SUFFICES ASSUME CreateGoal(r) PROVE FALSE
    OBVIOUS
  <2>1. PICK src \in Run \union {NoRun} :
           /\ taskState' = [u \in Task |->
                 IF u \notin PlanOf(r) THEN taskState[u]
                 ELSE IF u \in ReusedPrefix(r, src) THEN "SUCCEEDED"
                 ELSE IF u \in InitiallyRunnable(r, src) THEN "RUNNABLE" ELSE "PENDING"]
           /\ source' = [source EXCEPT ![r] = src]
           /\ runState[r] = "ABSENT" /\ groupState' = groupState
    BY <1>1, CreatedRows
  <2>2. src = NoRun /\ ReusedPrefix(r, src) = {}
    BY <1>1, <2>1 DEF Unbroken, ReusedPrefix
  <2>3. t \in PlanOf(r)
    BY <1>1, <1>2, <2>1 DEF LeaseInv, RowsExist
  <2>4. PICK d \in Requires[t] : d \notin Shard
    BY <1>2, <2>1, <2>2, <2>3 DEF InitiallyRunnable
  <2>5. d \in PlanOf(r) /\ taskState'[d] \in {"RUNNABLE", "PENDING"}
    BY <1>3, <2>1, <2>2, <2>4 DEF PlanOf, TasksOf
  <2>6. Joined(t, groupState') = {}
    BY <1>2, <2>1, FanoutAssumption DEF FanoutAssumption, Joined, WakeInv, GroupsHaveRuns
  <2> QED
    BY <1>2, <2>4, <2>5, <2>6 DEF Blocked
<1>8. /\ runState[r] \in {"ACTIVE", "WAITING_FOR_HUMAN"}
      /\ Unbroken(r)
  <2>1. runState[r] \in {"ACTIVE", "WAITING_FOR_HUMAN"}
    BY <1>4, <1>7 DEF RunMove
  <2>2. source'[r] = source[r]
    <3>1. CASE \E s \in Run : CreateGoal(s)
      BY <1>1, <1>7, <3>1, CreatedRows
    <3> QED
      BY <3>1, StepOrigin
  <2>3. \A u \in PlanOf(r) : taskState[u] = "FAILED" => taskState'[u] = "FAILED"
    BY <1>4 DEF PlanOf, TasksOf, TaskMove
  <2> QED
    BY <2>1, <2>2, <2>3 DEF Unbroken
<1>9. \A u \in TasksOf(r), n \in Claims : ~Complete(u, n) /\ ~FailShard(u, n)
  <2>1. ASSUME NEW u \in TasksOf(r), NEW n \in Claims, Complete(u, n) PROVE FALSE
    <3>1. /\ taskState' = Promoted([taskState EXCEPT ![u] = "SUCCEEDED"],
                            Promotable(r, [taskState EXCEPT ![u] = "SUCCEEDED"], groupState'))
      BY <2>1 DEF Complete, TasksOf
    <3>2. [taskState EXCEPT ![u] = "SUCCEEDED"] \in [Task -> TaskStates]
      BY <1>1 DEF TaskStates
    <3> QED
      BY <1>1, <1>2, <3>1, <3>2, PromotionIsComplete DEF TasksOf
  <2>2. ASSUME NEW u \in TasksOf(r), NEW n \in Claims, FailShard(u, n) PROVE FALSE
    <3>1. /\ taskState' = Promoted([taskState EXCEPT ![u] = "FAILED"],
                            Promotable(r, [taskState EXCEPT ![u] = "FAILED"], groupState'))
      BY <2>2 DEF FailShard, TasksOf
    <3>2. [taskState EXCEPT ![u] = "FAILED"] \in [Task -> TaskStates]
      BY <1>1 DEF TaskStates
    <3> QED
      BY <1>1, <1>2, <3>1, <3>2, PromotionIsComplete DEF TasksOf
  <2> QED
    BY <2>1, <2>2
<1>10. \A g \in Group : MaterializeFanout(g) =>
          /\ CoordinatorOf[g] \notin ShardsOf[g] /\ CoordinatorOf[g] \in Task
          /\ taskState'[CoordinatorOf[g]] = "RUNNING"
  BY ReferenceAssumption, FanoutAssumption
  DEF ReferenceAssumption, FanoutAssumption, MaterializeFanout
<1>11. ASSUME NEW g \in Group, groupState'[g] = "FAILED", groupState[g] # "FAILED" PROVE JoinOf[g] # t
  <2>1. PICK s \in ShardsOf[g], n \in Claims : FailShard(s, n)
    BY <1>4, <1>11 DEF GroupMove
  <2>2. SUFFICES ASSUME JoinOf[g] = t PROVE s \in TasksOf(r)
    BY <1>9, <2>1
  <2> QED
    BY <1>2, <1>5, <2>2 DEF TasksOf
<1>12. ASSUME NEW g \in Group, MaterializeFanout(g), JoinOf[g] = t
       PROVE  Blocked(t, taskState', groupState')
  <2>1. /\ CoordinatorOf[g] \in Requires[t]
        /\ taskState'[CoordinatorOf[g]] = "RUNNING"
    BY <1>10, <1>12, FanoutAssumption DEF FanoutAssumption
  <2>2. groupState[g] = "ABSENT"
    BY <1>12 DEF MaterializeFanout
  <2>3. \A h \in Joined(t, groupState') : groupState'[h] # "FAILED"
    <3> SUFFICES ASSUME NEW h \in Group, JoinOf[h] = t, groupState'[h] = "FAILED" PROVE FALSE
      BY DEF Joined
    <3>1. groupState[h] = "FAILED"
      BY <1>11
    <3>2. taskState[t] = "PENDING"
      <4>1. taskState[t] \in {"PENDING", "RUNNABLE"}
        BY <1>12 DEF MaterializeFanout
      <4> QED
        BY <1>2, <1>4, <4>1 DEF TaskMove
    <3>3. Blocked(t, taskState, groupState)
      BY <1>2, <1>8, <3>2 DEF WakeInv, Awake, Promotable, TasksOf
    <3> QED
      BY <3>1, <3>3 DEF Blocked, Joined
  <2> QED
    BY <2>1, <2>3 DEF Blocked, Terminal
<1>13. taskState[t] = "PENDING"
  <2> SUFFICES ASSUME taskState[t] # "PENDING" PROVE FALSE
    OBVIOUS
  <2>1. taskState[t] = "ABSENT"
    BY <1>2, <1>4 DEF TaskMove
  <2>2. PICK g \in Group : MaterializeFanout(g) /\ t \in ShardsOf[g]
    <3>1. ASSUME NEW s \in Run, CreateGoal(s), t \in PlanOf(s) PROVE FALSE
      BY <1>2, <1>7, <3>1 DEF PlanOf, TasksOf
    <3> QED
      BY <1>2, <1>4, <2>1, <3>1 DEF RowMove
  <2>3. CoordinatorOf[g] \in Requires[t] /\ taskState'[CoordinatorOf[g]] = "RUNNING"
    BY <1>10, <2>2, FanoutAssumption DEF FanoutAssumption
  <2>4. Joined(t, groupState') = {}
    BY <2>2, FanoutAssumption DEF FanoutAssumption, Joined
  <2> QED
    BY <1>2, <2>3, <2>4 DEF Blocked
<1>14. Blocked(t, taskState, groupState)
  BY <1>2, <1>8, <1>13 DEF WakeInv, Awake, Promotable, TasksOf
<1>15. \A g \in Joined(t, groupState') : groupState'[g] # "FAILED"
  BY <1>11, <1>14 DEF Blocked, Joined
<1>16. PICK d \in Requires[t] :
          /\ taskState[d] # "ABSENT"
          /\ IF Joined(t, groupState) # {} THEN taskState[d] \notin Terminal
                                           ELSE taskState[d] # "SUCCEEDED"
  BY <1>14 DEF Blocked
<1>17. d \in TasksOf(r) /\ d \in Task /\ d \notin NotificationTask
  BY <1>3, <1>16 DEF TasksOf
<1>18. taskState'[d] # "SUCCEEDED"
  <2>1. taskState[d] # "SUCCEEDED"
    BY <1>16 DEF Terminal
  <2> QED
    BY <1>4, <1>9, <1>16, <1>17, <2>1 DEF SuccessMove
<1>19. taskState'[d] # "ABSENT"
  BY <1>4, <1>16, <1>17 DEF TaskMove
<1>20. CASE Joined(t, groupState') = {}
  BY <1>2, <1>16, <1>18, <1>19, <1>20 DEF Blocked
<1>21. CASE Joined(t, groupState') # {} /\ Joined(t, groupState) = {}
  <2>1. PICK g \in Group : JoinOf[g] = t /\ groupState'[g] # "ABSENT" /\ groupState[g] = "ABSENT"
    BY <1>21 DEF Joined
  <2>2. MaterializeFanout(g)
    BY <1>4, <2>1 DEF GroupMove
  <2> QED
    BY <1>2, <1>12, <2>1, <2>2
<1>22. CASE Joined(t, groupState) # {}
  <2>1. taskState[d] \notin Terminal
    BY <1>16, <1>22
  <2>2. taskState'[d] \in Terminal
    BY <1>2, <1>6, <1>15, <1>16, <1>19, <1>22 DEF Blocked
  <2>3. taskState'[d] # "FAILED"
    <3>1. ASSUME NEW n \in Claims, FailPlanTask(d, n), taskState'[d] = "FAILED" PROVE FALSE
      BY <1>17, <3>1 DEF FailPlanTask, Unbroken, PlanOf
    <3> QED
      BY <1>4, <1>9, <1>17, <2>1, <3>1 DEF RowMove, Terminal
  <2>4. taskState'[d] # "CANCELLED"
    <3>1. CancelledIsOver'
      BY <1>1, StepCancelled DEF WakeInv, OrderInv
    <3> QED
      BY <1>17, <3>1 DEF CancelledIsOver, TasksOf
  <2>5. taskState'[d] # "UNKNOWN_OUTCOME"
    <3>1. UncertainOnRecord'
      BY StepOnRecord DEF WakeInv, OrderInv
    <3> QED
      BY <1>17, <3>1 DEF UncertainOnRecord
  <2> QED
    BY <1>18, <2>2, <2>3, <2>4, <2>5 DEF Terminal
<1> QED
  BY <1>20, <1>21, <1>22

LEMMA StepWakeInv == WakeInv /\ [Next]_vars => WakeInv'
<1> SUFFICES ASSUME WakeInv, [Next]_vars PROVE WakeInv'
  OBVIOUS
<1>1. OrderInv'
  BY StepOrderInv DEF WakeInv
<1>2. GroupsHaveRuns'
  BY StepGroupsHaveRuns DEF WakeInv, OrderInv, EffectInv
<1> QED
  BY <1>1, <1>2, StepAwake DEF WakeInv

(* No wake-up is lost: whenever a dependency ends or a group is created or *)
(* fails, the very command that did it, or a later one of its transaction, *)
(* promotes every task of the run that nothing blocks any more.            *)
THEOREM NoWakeUpIsLost == Spec => []NoLostPromotion
<1>1. Init => WakeInv
  <2> SUFFICES ASSUME Init PROVE WakeInv
    OBVIOUS
  <2>1. Awake /\ GroupsHaveRuns
    BY DEF Init, Awake, GroupsHaveRuns, Promotable, TasksOf
  <2> QED
    BY <2>1, InitOrdered DEF WakeInv
<1>2. WakeInv => NoLostPromotion
  BY DEF WakeInv, Awake, Unbroken, NoLostPromotion
<1> QED
  BY <1>1, <1>2, StepWakeInv, PTL DEF Spec

-----------------------------------------------------------------------------
(* The ledger of task attempts *)

(* How the ledger moves: a claim enters its attempt and charges the run, a *)
(* deferral strikes its own attempt out and refunds the run.               *)
LedgerMove ==
    \/ UNCHANGED used /\ \A r \in Run : SpentAttempts(r)' = SpentAttempts(r)
    \/ \E t \in Task, n \in Claims :
          /\ Claimable(t) /\ <<t, n>> \notin SpentAttempts(RunOf[t])
          /\ used' = [used EXCEPT ![RunOf[t]] = @ + 1]
          /\ \A r \in Run : SpentAttempts(r)' =
                IF r = RunOf[t] THEN SpentAttempts(r) \union {<<t, n>>} ELSE SpentAttempts(r)
    \/ \E t \in Task, n \in Claims :
          /\ <<t, n>> \in SpentAttempts(RunOf[t])
          /\ used' = [used EXCEPT ![RunOf[t]] = IF @ > 0 THEN @ - 1 ELSE 0]
          /\ \A r \in Run : SpentAttempts(r)' =
                IF r = RunOf[t] THEN SpentAttempts(r) \ {<<t, n>>} ELSE SpentAttempts(r)

(* Membership in the ledger, one attempt at a time. *)
LEMMA SpentMembers ==
    ASSUME NEW r \in Run, NEW p
    PROVE  /\ p \in SpentAttempts(r) <=>
                 \E t \in Task, n \in Claims :
                    p = <<t, n>> /\ RunOf[t] = r /\ attempt[t][n] \notin {"NONE", "DEFERRED"}
           /\ p \in SpentAttempts(r)' <=>
                 \E t \in Task, n \in Claims :
                    p = <<t, n>> /\ RunOf[t] = r /\ attempt'[t][n] \notin {"NONE", "DEFERRED"}
BY DEF SpentAttempts, TasksOf

(* One attempt that changes state moves the ledger by that attempt only.   *)
LEMMA SpentByOne ==
    ASSUME TypeOK, NEW t \in Task, NEW n \in Claims, NEW result \in AttemptStates,
           attempt' = [attempt EXCEPT ![t][n] = result], NEW r \in Run
    PROVE  SpentAttempts(r)' =
              IF r # RunOf[t] THEN SpentAttempts(r)
              ELSE IF result \in {"NONE", "DEFERRED"} THEN SpentAttempts(r) \ {<<t, n>>}
              ELSE SpentAttempts(r) \union {<<t, n>>}
<1>1. \A u \in Task, m \in Claims :
         attempt'[u][m] = IF u = t /\ m = n THEN result ELSE attempt[u][m]
  BY DEF TypeOK
<1>2. \A p : p \in SpentAttempts(r)' <=>
                 \E u \in Task, m \in Claims :
                    p = <<u, m>> /\ RunOf[u] = r /\ attempt'[u][m] \notin {"NONE", "DEFERRED"}
  BY SpentMembers
<1>3. \A p : p \in SpentAttempts(r) <=>
                 \E u \in Task, m \in Claims :
                    p = <<u, m>> /\ RunOf[u] = r /\ attempt[u][m] \notin {"NONE", "DEFERRED"}
  BY SpentMembers
<1>4. CASE r # RunOf[t]
  <2>1. \A p : p \in SpentAttempts(r)' <=> p \in SpentAttempts(r)
    BY <1>1, <1>2, <1>3, <1>4
  <2> QED
    BY <1>4, <2>1
<1>5. CASE r = RunOf[t] /\ result \in {"NONE", "DEFERRED"}
  <2>1. \A p : p \in SpentAttempts(r)' <=> p \in SpentAttempts(r) \ {<<t, n>>}
    BY <1>1, <1>2, <1>3, <1>5
  <2> QED
    BY <1>5, <2>1
<1>6. CASE r = RunOf[t] /\ result \notin {"NONE", "DEFERRED"}
  <2>1. \A p : p \in SpentAttempts(r)' <=> p \in SpentAttempts(r) \union {<<t, n>>}
    BY <1>1, <1>2, <1>3, <1>6
  <2> QED
    BY <1>6, <2>1
<1> QED
  BY <1>4, <1>5, <1>6

LEMMA StepLedger == LeaseInv /\ [Next]_vars => LedgerMove
<1> USE DEF leaseVars, budgetVars
<1> SUFFICES ASSUME LeaseInv, [Next]_vars PROVE LedgerMove
  OBVIOUS
<1>0. TypeOK
  BY DEF LeaseInv
<1>1. ASSUME UNCHANGED used, \A t \in Task, n \in Claims :
             attempt'[t][n] \in {"NONE", "DEFERRED"} <=> attempt[t][n] \in {"NONE", "DEFERRED"}
      PROVE  LedgerMove
  <2>1. ASSUME NEW r \in Run PROVE SpentAttempts(r)' = SpentAttempts(r)
    <3>1. \A p : p \in SpentAttempts(r)' <=> p \in SpentAttempts(r)
      BY <1>1, SpentMembers
    <3> QED
      BY <3>1
  <2> QED
    BY <1>1, <2>1 DEF LedgerMove
<1>2. ASSUME NEW c \in Candidate,
             Observe(c) \/ RepeatEnqueue(c) \/ Reprocess(c) \/ Restore(c) \/ Archive(c)
      PROVE  LedgerMove
  BY <1>1, <1>2 DEF Observe, RepeatEnqueue, Reprocess, Restore, Archive
<1>3. ASSUME NEW r \in Run,
             CreateGoal(r) \/ MarkAnalyzing(r) \/ Promote(r) \/ ResumeRun(r) \/ ResolveEscalation(r)
      PROVE  LedgerMove
  BY <1>1, <1>3 DEF CreateGoal, MarkAnalyzing, Promote, ResumeRun, ResolveEscalation
<1>4. CASE RestartDiscovery \/ ReadEscalations
  BY <1>1, <1>4 DEF RestartDiscovery, ReadEscalations
<1>5. ASSUME NEW t \in Task, NEW w \in Worker, Claim(t, w) \/ ClaimById(t, w) PROVE LedgerMove
  <2> DEFINE n == leaseToken[t] + 1
  <2>1. Claimable(t) /\ StartAttempt(t, w)
    BY <1>5 DEF Claim, ClaimById
  <2>2. n \in Claims /\ n > leaseToken[t]
    BY <2>1, LimitAssumption DEF LimitAssumption, LeaseInv, TypeOK, Claimable, Claims
  <2>3. attempt[t][n] = "NONE"
    BY <2>2 DEF LeaseInv, FreshClaims
  <2>4. RunOf[t] \in Run
    BY ReferenceAssumption DEF ReferenceAssumption
  <2>5. <<t, n>> \notin SpentAttempts(RunOf[t])
    BY <2>2, <2>3, <2>4 DEF SpentAttempts
  <2>6. /\ attempt' = [attempt EXCEPT ![t][n] = "RUNNING"]
        /\ used' = [used EXCEPT ![RunOf[t]] = @ + 1]
    BY <2>1 DEF StartAttempt
  <2>7. \A r \in Run : SpentAttempts(r)' =
                IF r = RunOf[t] THEN SpentAttempts(r) \union {<<t, n>>} ELSE SpentAttempts(r)
    <3>1. "RUNNING" \in AttemptStates /\ "RUNNING" \notin {"NONE", "DEFERRED"}
      BY DEF AttemptStates
    <3> HIDE DEF n
    <3> QED
      BY <1>0, <2>2, <2>6, <3>1, SpentByOne
  <2> HIDE DEF n
  <2> QED
    BY <2>1, <2>2, <2>5, <2>6, <2>7 DEF LedgerMove
<1>6. ASSUME NEW t \in Task, LeaseExpires(t) PROVE LedgerMove
  BY <1>1, <1>6 DEF LeaseExpires
<1>7. ASSUME NEW t \in Task, NEW n \in Claims, WorkerCommand(t, n) PROVE LedgerMove
  <2>1. CASE Heartbeat(t, n) \/ PrepareEffect(t, n) \/ PublishReport(t, n)
    BY <1>1, <2>1 DEF Heartbeat, PrepareEffect, PublishReport
  <2>2. ASSUME NEW result \in AttemptStates \ {"NONE", "DEFERRED"},
               Holds(t, n), Settle(t, n, result), UNCHANGED used
        PROVE  LedgerMove
    <3>1. attempt[t][n] = "RUNNING"
      BY <2>2 DEF Holds, LeaseInv, LeaseExclusive
    <3>2. attempt' = [attempt EXCEPT ![t][n] = result]
      BY <2>2 DEF Settle
    <3>3. \A u \in Task, m \in Claims :
             attempt'[u][m] = IF u = t /\ m = n THEN result ELSE attempt[u][m]
      BY <1>0, <3>2 DEF TypeOK
    <3> QED
      BY <1>1, <2>2, <3>1, <3>3
  <2>3. CASE Complete(t, n)
    BY <2>2, <2>3 DEF Complete, HoldsAttempt, AttemptStates
  <2>4. CASE FailAndRetry(t, n)
    BY <2>2, <2>4 DEF FailAndRetry, HoldsAttempt, AttemptStates
  <2>5. CASE FailShard(t, n)
    BY <2>2, <2>5 DEF FailShard, HoldsAttempt, AttemptStates
  <2>6. CASE FailPlanTask(t, n)
    BY <2>2, <2>6 DEF FailPlanTask, HoldsAttempt, AttemptStates
  <2>7. CASE ReportUnknown(t, n)
    BY <2>2, <2>7 DEF ReportUnknown, HoldsAttempt, AttemptStates
  <2>8. CASE WaitForHuman(t, n)
    BY <2>2, <2>8 DEF WaitForHuman, AttemptStates
  <2>9. CASE Defer(t, n)
    <3>1. /\ attempt[t][n] = "RUNNING"
          /\ attempt' = [attempt EXCEPT ![t][n] = "DEFERRED"]
          /\ used' = [used EXCEPT ![RunOf[t]] = IF @ > 0 THEN @ - 1 ELSE 0]
      BY <2>9 DEF Defer, HoldsAttempt, Settle
    <3>2. RunOf[t] \in Run
      BY ReferenceAssumption DEF ReferenceAssumption
    <3>3. <<t, n>> \in SpentAttempts(RunOf[t])
      BY <3>1, <3>2 DEF SpentAttempts, TasksOf
    <3>4. \A r \in Run : SpentAttempts(r)' =
                IF r = RunOf[t] THEN SpentAttempts(r) \ {<<t, n>>} ELSE SpentAttempts(r)
      BY <1>0, <3>1, SpentByOne DEF AttemptStates
    <3> QED
      BY <3>1, <3>3, <3>4 DEF LedgerMove
  <2> QED
    BY <1>7, <2>1, <2>3, <2>4, <2>5, <2>6, <2>7, <2>8, <2>9 DEF WorkerCommand
<1>8. ASSUME NEW g \in Group, MaterializeFanout(g) \/ CompleteFanout(g) PROVE LedgerMove
  BY <1>1, <1>8 DEF MaterializeFanout, CompleteFanout
<1>9. CASE RecoverStale
  <2>1. \A t \in Task, n \in Claims : attempt'[t][n] =
              IF t \in Stale /\ attempt[t][n] = "RUNNING"
              THEN IF t \in Uncertain THEN "UNKNOWN_OUTCOME" ELSE "FAILED"
              ELSE attempt[t][n]
    BY <1>9 DEF RecoverStale
  <2>2. UNCHANGED used
    BY <1>9 DEF RecoverStale
  <2> QED
    BY <1>1, <2>1, <2>2
<1>10. CASE UNCHANGED vars
  BY <1>1, <1>10 DEF vars
<1> QED
  BY <1>2, <1>3, <1>4, <1>5, <1>6, <1>7, <1>8, <1>9, <1>10 DEF Next

(* What makes BudgetLedger inductive: the ledger is finite at any moment,  *)
(* however many tasks there are.                                           *)
LedgerInv == LeaseInv /\ BudgetLedger /\ \A r \in Run : IsFiniteSet(SpentAttempts(r))

LEMMA StepLedgerInv == LedgerInv /\ [Next]_vars => LedgerInv'
<1> SUFFICES ASSUME LedgerInv, [Next]_vars PROVE LedgerInv'
  OBVIOUS
<1>1. LeaseInv' /\ LedgerMove
  BY StepLeaseInv, StepLedger DEF LedgerInv
<1>2. /\ used \in [Run -> Nat] /\ AttemptLimit \in Nat /\ RunOf \in [Task -> Run]
      /\ \A r \in Run : /\ IsFiniteSet(SpentAttempts(r)) /\ used[r] <= AttemptLimit
                        /\ used[r] = Cardinality(SpentAttempts(r))
  BY LimitAssumption, ReferenceAssumption
  DEF LimitAssumption, ReferenceAssumption, LedgerInv, LeaseInv, TypeOK, BudgetLedger
<1> SUFFICES ASSUME NEW r \in Run
             PROVE  /\ IsFiniteSet(SpentAttempts(r)') /\ used'[r] <= AttemptLimit
                    /\ used'[r] = Cardinality(SpentAttempts(r)')
  BY <1>1 DEF LedgerInv, BudgetLedger
<1>3. CASE UNCHANGED used /\ SpentAttempts(r)' = SpentAttempts(r)
  BY <1>2, <1>3
<1>4. ASSUME NEW t \in Task, NEW n \in Claims, RunOf[t] = r,
             Claimable(t), <<t, n>> \notin SpentAttempts(r),
             used' = [used EXCEPT ![r] = @ + 1],
             SpentAttempts(r)' = SpentAttempts(r) \union {<<t, n>>}
      PROVE  /\ IsFiniteSet(SpentAttempts(r)') /\ used'[r] <= AttemptLimit
             /\ used'[r] = Cardinality(SpentAttempts(r)')
  <2>1. /\ IsFiniteSet(SpentAttempts(r) \union {<<t, n>>})
        /\ Cardinality(SpentAttempts(r) \union {<<t, n>>}) = Cardinality(SpentAttempts(r)) + 1
    BY <1>2, <1>4, FS_AddElement
  <2>2. used[r] < AttemptLimit
    BY <1>4 DEF Claimable
  <2> QED
    BY <1>2, <1>4, <2>1, <2>2
<1>5. ASSUME NEW t \in Task, NEW n \in Claims, <<t, n>> \in SpentAttempts(r),
             used' = [used EXCEPT ![r] = IF @ > 0 THEN @ - 1 ELSE 0],
             SpentAttempts(r)' = SpentAttempts(r) \ {<<t, n>>}
      PROVE  /\ IsFiniteSet(SpentAttempts(r)') /\ used'[r] <= AttemptLimit
             /\ used'[r] = Cardinality(SpentAttempts(r)')
  <2>1. /\ IsFiniteSet(SpentAttempts(r) \ {<<t, n>>})
        /\ Cardinality(SpentAttempts(r) \ {<<t, n>>}) = Cardinality(SpentAttempts(r)) - 1
    BY <1>2, <1>5, FS_RemoveElement
  <2>2. used[r] > 0
    BY <1>2, <1>5, FS_EmptySet
  <2> QED
    BY <1>2, <1>5, <2>1, <2>2
<1> QED
  BY <1>1, <1>2, <1>3, <1>4, <1>5 DEF LedgerMove

(* The ledger of a run is exactly its attempts that were not deferred, and *)
(* it never exceeds the limit, over all claims, refunds and recoveries.    *)
THEOREM LedgerIsExact == Spec => []BudgetLedger
<1>1. Init => LedgerInv
  <2> SUFFICES ASSUME Init PROVE LedgerInv
    OBVIOUS
  <2>1. \A r \in Run : SpentAttempts(r) = {}
    BY DEF Init, SpentAttempts, TasksOf
  <2>2. \A r \in Run : used[r] = 0
    BY DEF Init
  <2>3. BudgetLedger /\ \A r \in Run : IsFiniteSet(SpentAttempts(r))
    BY <2>1, <2>2, FS_EmptySet, LimitAssumption DEF LimitAssumption, BudgetLedger
  <2> QED
    BY <2>3, InitLeased DEF LedgerInv
<1>2. LedgerInv => BudgetLedger
  BY DEF LedgerInv
<1> QED
  BY <1>1, <1>2, StepLedgerInv, PTL DEF Spec

=============================================================================
