------------------------- MODULE WorkerLeaseProofs -------------------------
(***************************************************************************)
(* Proofs about WorkerLease.  What the worker may believe follows from a   *)
(* relation between three clocks: what is left of the lease, what is left  *)
(* of the time the worker counts, and the ages of the heartbeats that are  *)
(* under way.                                                              *)
(***************************************************************************)
EXTENDS WorkerLease, TLAPS

(* An execution that has not yet reported. *)
Working(n) == phase[n] \in {"claimed", "authorize", "prepare", "prepared", "execute"}

(* What is known of the parts of an execution whatever the clocks say.     *)
Untouched(n) == beats[n] = {} /\ pending[n] = NoBeat /\ answer[n] = "none" /\ command[n] = "none"

Part(n) ==
    /\ phase[n] \in {"none", "claimed"} => Untouched(n)
    /\ phase[n] = "none" => aborted[n] = "no"
    /\ phase[n] # "none" => n <= leaseToken
    /\ answer[n] # "none" => pending[n] # NoBeat
    /\ answer[n] = "stale" => ~Holds(n)
    /\ Working(n) => command[n] = "none"

ExecutionInv == TypeOK /\ \A n \in Token : Part(n)

(* A heartbeat under way was sent when the interval was started last, and  *)
(* the one that is waited for was not sent after it.                       *)
BeatInv ==
    \A n \in Token : \A a \in beats[n] :
        /\ a + interval[n] = HeartbeatEvery
        /\ pending[n] # NoBeat => a <= pending[n]

(* The repository's lease is as long as the worker will count once it has  *)
(* the answer.                                                             *)
AnswerInv ==
    \A n \in Token :
        Working(n) /\ answer[n] = "renewed" /\ pending[n] < Lease
            => Holds(n) /\ leaseLeft >= Lease - pending[n]

(* It is as long as the worker counts, and no heartbeat under way will     *)
(* make it shorter than that.                                              *)
BeliefInv ==
    \A n \in Token :
        Working(n) /\ Owns(n)
            => /\ Holds(n) /\ leaseLeft >= confirmed[n]
               /\ \A a \in beats[n] : a + confirmed[n] <= Lease

LeaseInv == ExecutionInv /\ BeatInv /\ AnswerInv /\ BeliefInv

(***************************************************************************)
(* The parts of an execution.                                              *)
(***************************************************************************)

LEMMA ExecutionInit == Init => ExecutionInv
  BY LeaseAssumption
  DEF LeaseAssumption, Init, ExecutionInv, Part, TypeOK, Untouched, Working, Holds, Token, NoBeat, Phase, Command

USE LeaseAssumption DEF LeaseAssumption, vars, task, heart, Open, Owns, Holds, NoBeat, Phase, Command

LEMMA TypeNext == TypeOK /\ (\A n \in Token : Part(n)) /\ [Next]_vars => TypeOK'
  <1> SUFFICES ASSUME TypeOK, \A n \in Token : Part(n), [Next]_vars PROVE TypeOK'
    OBVIOUS
  <1> USE DEF TypeOK
  <1>1. CASE Tick
    <2>1. ASSUME NEW n \in Token
          PROVE  pending'[n] \in {NoBeat} \union 0..Lease /\ beats'[n] \subseteq 0..HeartbeatDelay
      <3>1. pending[n] \in {NoBeat} \union 0..Lease /\ pending'[n] = Older(pending[n])
        BY <1>1 DEF Tick
      <3>2. pending'[n] \in {NoBeat} \union 0..Lease
        BY <3>1 DEF Older
      <3>3. beats'[n] = {age + 1 : age \in {a \in beats[n] : a < HeartbeatDelay}} /\ beats[n] \subseteq 0..HeartbeatDelay
        BY <1>1 DEF Tick
      <3> QED
        BY <3>2, <3>3
    <2>2. leaseLeft' \in 0..Lease /\ confirmed' \in [Token -> 0..Lease] /\ interval' \in [Token -> 0..HeartbeatEvery]
      BY <1>1 DEF Tick, Less
    <2>3. pending' \in [Token -> {NoBeat} \union 0..Lease] /\ beats' \in [Token -> SUBSET (0..HeartbeatDelay)]
      BY <1>1, <2>1 DEF Tick
    <2> QED
      BY <1>1, <2>2, <2>3 DEF Tick
  <1>2. CASE RecoverStale
    BY <1>2 DEF RecoverStale
  <1>3. ASSUME NEW n \in Token, Claim(n) PROVE TypeOK'
    BY <1>3 DEF Claim, Token
  <1>4. ASSUME NEW n \in Token, ServeOutcome(n) PROVE TypeOK'
    BY <1>4 DEF ServeOutcome, StateAfter
  <1>5. ASSUME NEW n \in Token, NEW age \in beats[n], ServeHeartbeat(n, age) PROVE TypeOK'
    BY <1>5 DEF ServeHeartbeat
  <1>6. ASSUME NEW n \in Token, StartExecution(n) PROVE TypeOK'
    BY <1>6 DEF StartExecution
  <1>7. ASSUME NEW n \in Token, Authorize(n) \/ PrepareEffect(n) \/ ExecuteTool(n) \/ ToolAnswers(n) PROVE TypeOK'
    BY <1>7 DEF Authorize, PrepareEffect, ExecuteTool, ToolAnswers, Goto, Report
  <1>8. ASSUME NEW n \in Token, Return(n) \/ Abandon(n) \/ Vanish(n) PROVE TypeOK'
    BY <1>8 DEF Return, Abandon, Vanish, Close
  <1>9. ASSUME NEW n \in Token, Expire(n) \/ Stop(n) PROVE TypeOK'
    BY <1>9 DEF Expire, Stop
  <1>10. ASSUME NEW n \in Token, Beat(n) PROVE TypeOK'
    BY <1>10 DEF Beat
  <1>11. ASSUME NEW n \in Token, Renewed(n) PROVE TypeOK'
    <2>1. pending[n] \in 0..Lease
      BY <1>11 DEF Renewed, Part
    <2>2. Lease - pending[n] \in 0..Lease
      BY <2>1
    <2> QED
      BY <1>11, <2>2 DEF Renewed
  <1>12. ASSUME NEW n \in Token, LeaseLost(n) \/ HeartbeatFails(n) PROVE TypeOK'
    BY <1>12 DEF LeaseLost, HeartbeatFails
  <1>13. CASE UNCHANGED vars
    BY <1>13
  <1> QED
    BY <1>1, <1>2, <1>3, <1>4, <1>5, <1>6, <1>7, <1>8, <1>9, <1>10, <1>11, <1>12, <1>13 DEF Next, Execution

LEMMA PartNext ==
    ASSUME TypeOK, \A n \in Token : Part(n), [Next]_vars, NEW m \in Token
    PROVE  Part(m)'
  <1> USE DEF Part, Untouched, Working
  <1>0. TypeOK /\ Part(m) /\ m \in Nat /\ leaseToken \in Nat
    BY DEF TypeOK, Token
  <1>1. CASE Tick
    BY <1>1, <1>0 DEF Tick, Less, Older, TypeOK
  <1>2. CASE RecoverStale
    BY <1>2, <1>0 DEF RecoverStale, TypeOK
  <1>3. ASSUME NEW n \in Token, Claim(n) PROVE Part(m)'
    BY <1>3, <1>0 DEF Claim, Token, TypeOK
  <1>4. ASSUME NEW n \in Token, ServeOutcome(n) PROVE Part(m)'
    BY <1>4, <1>0 DEF ServeOutcome, StateAfter, TypeOK
  <1>5. ASSUME NEW n \in Token, NEW age \in beats[n], ServeHeartbeat(n, age) PROVE Part(m)'
    BY <1>5, <1>0 DEF ServeHeartbeat, TypeOK
  <1>6. ASSUME NEW n \in Token, StartExecution(n) PROVE Part(m)'
    BY <1>6, <1>0 DEF StartExecution, TypeOK
  <1>7. ASSUME NEW n \in Token, Authorize(n) \/ PrepareEffect(n) \/ ExecuteTool(n) \/ ToolAnswers(n) PROVE Part(m)'
    BY <1>7, <1>0 DEF Authorize, PrepareEffect, ExecuteTool, ToolAnswers, Goto, Report, TypeOK
  <1>8. ASSUME NEW n \in Token, Return(n) \/ Abandon(n) \/ Vanish(n) PROVE Part(m)'
    BY <1>8, <1>0 DEF Return, Abandon, Vanish, Close, TypeOK
  <1>9. ASSUME NEW n \in Token, Expire(n) \/ Stop(n) PROVE Part(m)'
    BY <1>9, <1>0 DEF Expire, Stop, TypeOK
  <1>10. ASSUME NEW n \in Token, Beat(n) PROVE Part(m)'
    BY <1>10, <1>0 DEF Beat, TypeOK
  <1>11. ASSUME NEW n \in Token, Renewed(n) PROVE Part(m)'
    BY <1>11, <1>0 DEF Renewed, TypeOK
  <1>12. ASSUME NEW n \in Token, LeaseLost(n) \/ HeartbeatFails(n) PROVE Part(m)'
    BY <1>12, <1>0 DEF LeaseLost, HeartbeatFails, TypeOK
  <1>13. CASE UNCHANGED vars
    BY <1>13, <1>0 DEF TypeOK
  <1> QED
    BY <1>1, <1>2, <1>3, <1>4, <1>5, <1>6, <1>7, <1>8, <1>9, <1>10, <1>11, <1>12, <1>13 DEF Next, Execution

LEMMA ExecutionNext == ExecutionInv /\ [Next]_vars => ExecutionInv'
  BY TypeNext, PartNext DEF ExecutionInv, Token

LEMMA BeatNext ==
    ASSUME ExecutionInv, HeartbeatDelay < HeartbeatEvery, BeatInv, [Next]_vars
    PROVE  BeatInv'
  <1> USE DEF ExecutionInv, TypeOK, Part, Untouched, Working, BeatInv
  <1>1. CASE Tick
    <2> SUFFICES ASSUME NEW n \in Token, NEW a \in beats'[n]
                 PROVE  a + interval'[n] = HeartbeatEvery /\ (pending'[n] # NoBeat => a <= pending'[n])
      OBVIOUS
    <2>1. PICK b \in beats[n] : b < HeartbeatDelay /\ a = b + 1
      BY <1>1 DEF Tick
    <2>2. /\ b \in Nat /\ b + interval[n] = HeartbeatEvery /\ interval[n] \in Nat
          /\ interval'[n] = Less(interval[n])
      BY <1>1 DEF Tick
    <2>3. a + interval'[n] = HeartbeatEvery
      <3>1. interval[n] > 0
        BY <2>1, <2>2
      <3>2. interval'[n] = interval[n] - 1
        BY <2>2, <3>1 DEF Less
      <3> QED
        BY <2>1, <2>2, <3>2
    <2>4. /\ pending[n] \in {NoBeat} \union 0..Lease /\ pending'[n] = Older(pending[n])
          /\ pending[n] # NoBeat => b <= pending[n]
      BY <1>1 DEF Tick
    <2> QED
      BY <2>1, <2>2, <2>3, <2>4 DEF Older
  <1>2. CASE RecoverStale
    BY <1>2 DEF RecoverStale
  <1>3. ASSUME NEW n \in Token, Claim(n) PROVE BeatInv'
    BY <1>3 DEF Claim, Token
  <1>4. ASSUME NEW n \in Token, ServeOutcome(n) PROVE BeatInv'
    BY <1>4 DEF ServeOutcome, StateAfter
  <1>5. ASSUME NEW n \in Token, NEW age \in beats[n], ServeHeartbeat(n, age) PROVE BeatInv'
    BY <1>5 DEF ServeHeartbeat
  <1>6. ASSUME NEW n \in Token, StartExecution(n) PROVE BeatInv'
    BY <1>6 DEF StartExecution
  <1>7. ASSUME NEW n \in Token, Authorize(n) \/ PrepareEffect(n) \/ ExecuteTool(n) \/ ToolAnswers(n) PROVE BeatInv'
    BY <1>7 DEF Authorize, PrepareEffect, ExecuteTool, ToolAnswers, Goto, Report
  <1>8. ASSUME NEW n \in Token, Return(n) \/ Abandon(n) \/ Vanish(n) PROVE BeatInv'
    BY <1>8 DEF Return, Abandon, Vanish, Close
  <1>9. ASSUME NEW n \in Token, Expire(n) \/ Stop(n) PROVE BeatInv'
    BY <1>9 DEF Expire, Stop
  <1>10. ASSUME NEW n \in Token, Beat(n) PROVE BeatInv'
    <2>1. \A a \in beats[n] : FALSE
      BY <1>10 DEF Beat
    <2>2. beats[n] = {} /\ interval' = [interval EXCEPT ![n] = HeartbeatEvery]
      BY <1>10, <2>1 DEF Beat
    <2> QED
      BY <1>10, <2>2 DEF Beat
  <1>11. ASSUME NEW n \in Token, Renewed(n) PROVE BeatInv'
    BY <1>11 DEF Renewed
  <1>12. ASSUME NEW n \in Token, LeaseLost(n) \/ HeartbeatFails(n) PROVE BeatInv'
    BY <1>12 DEF LeaseLost, HeartbeatFails
  <1>13. CASE UNCHANGED vars
    BY <1>13
  <1> QED
    BY <1>1, <1>2, <1>3, <1>4, <1>5, <1>6, <1>7, <1>8, <1>9, <1>10, <1>11, <1>12, <1>13 DEF Next, Execution

LEMMA AnswerNext ==
    ASSUME ExecutionInv, BeatInv, AnswerInv, [Next]_vars
    PROVE  AnswerInv'
  <1> USE DEF ExecutionInv, TypeOK, Part, Untouched, Working, BeatInv, AnswerInv
  <1>1. CASE Tick
    BY <1>1 DEF Tick, Less, Older
  <1>2. CASE RecoverStale
    BY <1>2 DEF RecoverStale
  <1>3. ASSUME NEW n \in Token, Claim(n) PROVE AnswerInv'
    BY <1>3 DEF Claim, Token
  <1>4. ASSUME NEW n \in Token, ServeOutcome(n) PROVE AnswerInv'
    BY <1>4 DEF ServeOutcome, StateAfter
  <1>5. ASSUME NEW n \in Token, NEW age \in beats[n], ServeHeartbeat(n, age) PROVE AnswerInv'
    BY <1>5 DEF ServeHeartbeat
  <1>6. ASSUME NEW n \in Token, StartExecution(n) PROVE AnswerInv'
    BY <1>6 DEF StartExecution
  <1>7. ASSUME NEW n \in Token, Authorize(n) \/ PrepareEffect(n) \/ ExecuteTool(n) \/ ToolAnswers(n) PROVE AnswerInv'
    BY <1>7 DEF Authorize, PrepareEffect, ExecuteTool, ToolAnswers, Goto, Report
  <1>8. ASSUME NEW n \in Token, Return(n) \/ Abandon(n) \/ Vanish(n) PROVE AnswerInv'
    BY <1>8 DEF Return, Abandon, Vanish, Close
  <1>9. ASSUME NEW n \in Token, Expire(n) \/ Stop(n) PROVE AnswerInv'
    BY <1>9 DEF Expire, Stop
  <1>10. ASSUME NEW n \in Token, Beat(n) PROVE AnswerInv'
    BY <1>10 DEF Beat
  <1>11. ASSUME NEW n \in Token, Renewed(n) PROVE AnswerInv'
    BY <1>11 DEF Renewed
  <1>12. ASSUME NEW n \in Token, LeaseLost(n) \/ HeartbeatFails(n) PROVE AnswerInv'
    BY <1>12 DEF LeaseLost, HeartbeatFails
  <1>13. CASE UNCHANGED vars
    BY <1>13
  <1> QED
    BY <1>1, <1>2, <1>3, <1>4, <1>5, <1>6, <1>7, <1>8, <1>9, <1>10, <1>11, <1>12, <1>13 DEF Next, Execution

LEMMA BeliefNext ==
    ASSUME ExecutionInv, BeatInv, AnswerInv, BeliefInv, [Next]_vars
    PROVE  BeliefInv'
  <1> USE DEF ExecutionInv, TypeOK, Part, Untouched, Working, BeatInv, AnswerInv, BeliefInv
  <1>1. CASE Tick
    BY <1>1 DEF Tick, Less, Older
  <1>2. CASE RecoverStale
    BY <1>2 DEF RecoverStale
  <1>3. ASSUME NEW n \in Token, Claim(n) PROVE BeliefInv'
    BY <1>3 DEF Claim, Token
  <1>4. ASSUME NEW n \in Token, ServeOutcome(n) PROVE BeliefInv'
    BY <1>4 DEF ServeOutcome, StateAfter
  <1>5. ASSUME NEW n \in Token, NEW age \in beats[n], ServeHeartbeat(n, age) PROVE BeliefInv'
    BY <1>5 DEF ServeHeartbeat
  <1>6. ASSUME NEW n \in Token, StartExecution(n) PROVE BeliefInv'
    BY <1>6 DEF StartExecution
  <1>7. ASSUME NEW n \in Token, Authorize(n) \/ PrepareEffect(n) \/ ExecuteTool(n) \/ ToolAnswers(n) PROVE BeliefInv'
    BY <1>7 DEF Authorize, PrepareEffect, ExecuteTool, ToolAnswers, Goto, Report
  <1>8. ASSUME NEW n \in Token, Return(n) \/ Abandon(n) \/ Vanish(n) PROVE BeliefInv'
    BY <1>8 DEF Return, Abandon, Vanish, Close
  <1>9. ASSUME NEW n \in Token, Expire(n) \/ Stop(n) PROVE BeliefInv'
    BY <1>9 DEF Expire, Stop
  <1>10. ASSUME NEW n \in Token, Beat(n) PROVE BeliefInv'
    <2> SUFFICES ASSUME NEW m \in Token, Working(m), Owns(m)
                 PROVE  Holds(m) /\ leaseLeft >= confirmed[m] /\ \A a \in beats'[m] : a + confirmed[m] <= Lease
      BY <1>10 DEF Beat
    <2>1. Holds(m) /\ leaseLeft >= confirmed[m] /\ (\A a \in beats[m] : a + confirmed[m] <= Lease) /\ confirmed[m] <= Lease
      OBVIOUS
    <2>2. beats'[m] \subseteq beats[m] \union {0}
      BY <1>10 DEF Beat
    <2> QED
      BY <2>1, <2>2
  <1>11. ASSUME NEW n \in Token, Renewed(n) PROVE BeliefInv'
    BY <1>11 DEF Renewed
  <1>12. ASSUME NEW n \in Token, LeaseLost(n) \/ HeartbeatFails(n) PROVE BeliefInv'
    BY <1>12 DEF LeaseLost, HeartbeatFails
  <1>13. CASE UNCHANGED vars
    BY <1>13
  <1> QED
    BY <1>1, <1>2, <1>3, <1>4, <1>5, <1>6, <1>7, <1>8, <1>9, <1>10, <1>11, <1>12, <1>13 DEF Next, Execution

-----------------------------------------------------------------------------
(* Theorems *)

(* Every variable holds a value of its kind, for any periods and any       *)
(* number of claims.                                                       *)
THEOREM TypeCorrect == Spec => []TypeOK
  <1>1. ExecutionInv => TypeOK
    BY DEF ExecutionInv
  <1> QED
    BY ExecutionInit, ExecutionNext, <1>1, PTL DEF Spec

(* An execution is told that its lease is lost only when the time it       *)
(* counts is over or the repository has given the lease away, whatever     *)
(* becomes of its heartbeats (consumer.ts:102).                            *)
THEOREM AbortIsJustified == Spec => NoSpuriousAbort
  <1>1. ASSUME ExecutionInv, [Next]_vars
        PROVE  [\A n \in Token :
                  aborted[n] = "no" /\ aborted'[n] = "LEASE_LOST" => confirmed[n] = 0 \/ ~Holds(n)]_vars
    <2> SUFFICES ASSUME NEW n \in Token, aborted[n] = "no", aborted'[n] = "LEASE_LOST", Next
                 PROVE  confirmed[n] = 0 \/ ~Holds(n)
      BY <1>1
    <2>1. TypeOK /\ Part(n)
      BY <1>1 DEF ExecutionInv
    <2>2. PICK m \in Token : Expire(m) \/ LeaseLost(m)
      BY <2>1 DEF Next, Execution, TypeOK, Tick, RecoverStale, Claim, ServeOutcome, ServeHeartbeat, StartExecution,
                  Authorize, PrepareEffect, ExecuteTool, ToolAnswers, Goto, Report, Return, Abandon, Vanish, Close,
                  Stop, Beat, Renewed, HeartbeatFails
    <2>3. m = n
      BY <2>1, <2>2 DEF Expire, LeaseLost, TypeOK
    <2> QED
      BY <2>1, <2>2, <2>3 DEF Expire, LeaseLost, Part
  <1> QED
    BY ExecutionInit, ExecutionNext, <1>1, PTL DEF Spec, NoSpuriousAbort

(* When a heartbeat arrives before the next one is sent, an execution that *)
(* passes assertOwnership and has not reported yet holds the lease         *)
(* (consumer.ts:59).                                                       *)
THEOREM BelieversHold == ASSUME HeartbeatDelay < HeartbeatEvery PROVE Spec => []LiveExecutionHoldsLease
  <1>1. Init => LeaseInv
    BY ExecutionInit DEF Init, LeaseInv, BeatInv, AnswerInv, BeliefInv, Working
  <1>2. LeaseInv /\ [Next]_vars => LeaseInv'
    BY ExecutionNext, BeatNext, AnswerNext, BeliefNext DEF LeaseInv
  <1>3. LeaseInv => LiveExecutionHoldsLease
    BY DEF LeaseInv, BeliefInv, LiveExecutionHoldsLease, Believes, Working
  <1> QED
    BY <1>1, <1>2, <1>3, PTL DEF Spec

=============================================================================
