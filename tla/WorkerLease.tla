---------------------------- MODULE WorkerLease ----------------------------
(***************************************************************************)
(* What a worker knows of the lease under which it executes a task         *)
(* (agent-runtime/consumer.ts) and what the repository knows.  The worker  *)
(* measures its own time since the requests it sent; heartbeats are lost,  *)
(* late and answered late; a lease may be recovered and claimed again      *)
(* while the first execution still runs.                                   *)
(*                                                                         *)
(* There is one task.  An execution is named by the fencing token of its   *)
(* claim.  Time is kept as what is left of a period, and Tick lets one     *)
(* unit of it pass for everybody.                                          *)
(***************************************************************************)
EXTENDS Integers, FiniteSets

CONSTANTS Lease,          \* leaseMs, in ticks
          HeartbeatEvery, \* heartbeatMs, in ticks
          HeartbeatDelay, \* after how many ticks a heartbeat has reached the repository or never will
          MaxToken        \* claims of the task that are looked at

ASSUME LeaseAssumption ==
    /\ Lease \in Nat /\ HeartbeatEvery \in Nat /\ HeartbeatDelay \in Nat /\ MaxToken \in Nat
    /\ 0 < HeartbeatEvery /\ HeartbeatEvery <= Lease /\ HeartbeatDelay <= Lease

Token == 1..MaxToken
NoBeat == -1
Phase == {"none", "claimed", "authorize", "prepare", "prepared", "execute", "report", "answered", "closed"}
Command == {"complete", "fail", "unknown", "wait-for-human", "defer"}

VARIABLES
    taskState,  \* agent_tasks.state
    leaseToken, \* agent_tasks.lease_token
    leaseLeft,  \* time until agent_tasks.lease_expires_at
    phase,      \* where executeClaimedTask of an execution is
    aborted,    \* the reason its AbortController was aborted with, or "no"
    confirmed,  \* time until confirmedUntil
    interval,   \* time until the heartbeat interval fires
    pending,    \* age of the request in pendingHeartbeat, or NoBeat
    answer,     \* what the repository has answered to that request
    beats,      \* ages of the heartbeats on their way to the repository
    command     \* the outcome on its way to the repository, or "none"

vars == <<taskState, leaseToken, leaseLeft, phase, aborted, confirmed, interval, pending, answer, beats, command>>
task == <<taskState, leaseToken, leaseLeft>>
heart == <<interval, pending, answer, beats>>

Init ==
    /\ taskState = "RUNNABLE" /\ leaseToken = 0 /\ leaseLeft = 0
    /\ phase = [n \in Token |-> "none"]
    /\ aborted = [n \in Token |-> "no"]
    /\ confirmed = [n \in Token |-> 0]
    /\ interval = [n \in Token |-> 0]
    /\ pending = [n \in Token |-> NoBeat]
    /\ answer = [n \in Token |-> "none"]
    /\ beats = [n \in Token |-> {}]
    /\ command = [n \in Token |-> "none"]

(***************************************************************************)
(* The repository.                                                         *)
(***************************************************************************)

(* Mutant: the fencing token is not compared. *)
HoldsMut(n) == taskState = "RUNNING" /\ leaseToken >= n

Holds(n) == taskState = "RUNNING" /\ leaseToken = n

(* The worker takes confirmedUntil from the claim.                         *)
Claim(n) ==
    /\ taskState = "RUNNABLE" /\ n = leaseToken + 1
    /\ taskState' = "RUNNING"
    /\ leaseToken' = n
    /\ leaseLeft' = Lease
    /\ phase' = [phase EXCEPT ![n] = "claimed"]
    /\ confirmed' = [confirmed EXCEPT ![n] = Lease]
    /\ UNCHANGED <<aborted, heart, command>>

RecoverStale ==
    /\ taskState = "RUNNING" /\ leaseLeft = 0
    /\ taskState' = "RUNNABLE"
    /\ UNCHANGED <<leaseToken, leaseLeft, phase, aborted, confirmed, heart, command>>

(* A heartbeat renews the lease from the time at which it was sent.  Its   *)
(* answer reaches the worker only while the request is pending.            *)
ServeHeartbeat(n, age) ==
    /\ age \in beats[n]
    /\ beats' = [beats EXCEPT ![n] = @ \ {age}]
    /\ leaseLeft' = IF Holds(n) THEN Lease - age ELSE leaseLeft
    /\ answer' = IF pending[n] = age
                 THEN [answer EXCEPT ![n] = IF Holds(n) THEN "renewed" ELSE "stale"]
                 ELSE answer
    /\ UNCHANGED <<taskState, leaseToken, phase, aborted, confirmed, interval, pending, command>>

(* fail leaves the task RUNNABLE when the failure policy retries, defer    *)
(* always does.                                                            *)
StateAfter(c) ==
    CASE c = "complete" -> {"SUCCEEDED"}
      [] c = "fail" -> {"FAILED", "RUNNABLE"}
      [] c = "unknown" -> {"UNKNOWN_OUTCOME"}
      [] c = "wait-for-human" -> {"WAITING"}
      [] c = "defer" -> {"RUNNABLE"}

(* An outcome is accepted from the holder of the lease and refused         *)
(* otherwise.                                                              *)
ServeOutcome(n) ==
    /\ command[n] # "none"
    /\ command' = [command EXCEPT ![n] = "none"]
    /\ IF Holds(n) THEN taskState' \in StateAfter(command[n]) ELSE UNCHANGED taskState
    /\ phase' = IF phase[n] = "report" THEN [phase EXCEPT ![n] = "answered"] ELSE phase
    /\ UNCHANGED <<leaseToken, leaseLeft, aborted, confirmed, heart>>

(***************************************************************************)
(* The execution.                                                          *)
(***************************************************************************)

Open(n) == phase[n] \notin {"none", "closed"}

(* assertOwnership *)
Owns(n) == aborted[n] = "no" /\ confirmed[n] > 0

(* The finally block: nothing is sent any more, and the request under way  *)
(* is given up.                                                            *)
Close(n) ==
    /\ phase' = [phase EXCEPT ![n] = "closed"]
    /\ pending' = [pending EXCEPT ![n] = NoBeat]
    /\ answer' = [answer EXCEPT ![n] = "none"]
    /\ UNCHANGED <<task, aborted, confirmed, interval, beats, command>>

Goto(n, next) ==
    /\ phase' = [phase EXCEPT ![n] = next]
    /\ UNCHANGED <<task, aborted, confirmed, heart, command>>

Report(n, c) ==
    /\ phase' = [phase EXCEPT ![n] = "report"]
    /\ command' = [command EXCEPT ![n] = c]
    /\ UNCHANGED <<task, aborted, confirmed, heart>>

(* The interval starts; then comes the first assertOwnership, and a tool   *)
(* is looked up and its use authorized.                                    *)
StartExecution(n) ==
    /\ phase[n] = "claimed" /\ Owns(n)
    /\ interval' = [interval EXCEPT ![n] = HeartbeatEvery]
    /\ \/ /\ phase' = [phase EXCEPT ![n] = "authorize"]
          /\ UNCHANGED command
       \/ /\ phase' = [phase EXCEPT ![n] = "report"]
          /\ command' = [command EXCEPT ![n] = "fail"]
    /\ UNCHANGED <<task, aborted, confirmed, pending, answer, beats>>

Authorize(n) ==
    /\ phase[n] = "authorize" /\ Owns(n)
    /\ \/ Goto(n, "prepare")
       \/ Report(n, "fail")

PrepareEffect(n) ==
    /\ phase[n] = "prepare" /\ aborted[n] = "no"
    /\ Holds(n)
    /\ Goto(n, "prepared")

ExecuteTool(n) ==
    /\ phase[n] = "prepared" /\ Owns(n)
    /\ Goto(n, "execute")

(* The tool may answer anything; an aborted or unreachable one has FAILED, *)
(* but then assertOwnership lets nothing be reported.                      *)
ToolAnswers(n) ==
    /\ phase[n] = "execute" /\ Owns(n)
    /\ \E c \in Command : Report(n, c)

(* After a success the successors are promoted, which changes nothing here. *)
Return(n) == phase[n] = "answered" /\ Close(n)

(* An await throws: the signal is aborted, or assertOwnership finds the    *)
(* confirmed time over.                                                    *)
Abandon(n) == Open(n) /\ ~Owns(n) /\ Close(n)

(* A command fails or times out, or the process dies.                      *)
Vanish(n) == Open(n) /\ Close(n)

(* The expiry timer, the interval or assertOwnership notices that the      *)
(* confirmed time is over.                                                 *)
Expire(n) ==
    /\ Open(n) /\ aborted[n] = "no" /\ confirmed[n] = 0
    /\ aborted' = [aborted EXCEPT ![n] = "LEASE_LOST"]
    /\ pending' = [pending EXCEPT ![n] = NoBeat]
    /\ answer' = [answer EXCEPT ![n] = "none"]
    /\ UNCHANGED <<task, phase, confirmed, interval, beats, command>>

(* stop() aborts the executions of a worker.                               *)
Stop(n) ==
    /\ Open(n) /\ aborted[n] = "no"
    /\ aborted' = [aborted EXCEPT ![n] = "WORKER_GRACEFUL_SHUTDOWN"]
    /\ pending' = [pending EXCEPT ![n] = NoBeat]
    /\ answer' = [answer EXCEPT ![n] = "none"]
    /\ UNCHANGED <<task, phase, confirmed, interval, beats, command>>

(***************************************************************************)
(* Heartbeats.                                                             *)
(***************************************************************************)

(* The interval fires; it sends nothing while a request is under way.      *)
Beat(n) ==
    /\ Open(n) /\ phase[n] # "claimed" /\ interval[n] = 0 /\ Owns(n)
    /\ interval' = [interval EXCEPT ![n] = HeartbeatEvery]
    /\ IF pending[n] = NoBeat
       THEN /\ pending' = [pending EXCEPT ![n] = 0]
            /\ beats' = [beats EXCEPT ![n] = @ \union {0}]
       ELSE UNCHANGED <<pending, beats>>
    /\ UNCHANGED <<task, phase, aborted, confirmed, answer, command>>

(* Mutant: the lease is renewed from the receipt of the answer. *)
RenewedMut(n) ==
    /\ Open(n) /\ aborted[n] = "no" /\ answer[n] = "renewed"
    /\ confirmed' = [confirmed EXCEPT ![n] = Lease]
    /\ pending' = [pending EXCEPT ![n] = NoBeat]
    /\ answer' = [answer EXCEPT ![n] = "none"]
    /\ UNCHANGED <<task, phase, aborted, interval, beats, command>>

(* The server renewed from the time of the request, not of its answer.     *)
Renewed(n) ==
    /\ Open(n) /\ aborted[n] = "no" /\ answer[n] = "renewed"
    /\ confirmed' = [confirmed EXCEPT ![n] = Lease - pending[n]]
    /\ pending' = [pending EXCEPT ![n] = NoBeat]
    /\ answer' = [answer EXCEPT ![n] = "none"]
    /\ UNCHANGED <<task, phase, aborted, interval, beats, command>>

(* The explicit loss of the lease, STALE_LEASE_TOKEN, aborts at once.      *)
LeaseLost(n) ==
    /\ Open(n) /\ aborted[n] = "no" /\ answer[n] = "stale"
    /\ aborted' = [aborted EXCEPT ![n] = "LEASE_LOST"]
    /\ pending' = [pending EXCEPT ![n] = NoBeat]
    /\ answer' = [answer EXCEPT ![n] = "none"]
    /\ UNCHANGED <<task, phase, confirmed, interval, beats, command>>

(* Mutant: every failed heartbeat is taken for a lost lease. *)
HeartbeatFailsMut(n) ==
    /\ Open(n) /\ pending[n] # NoBeat
    /\ aborted' = [aborted EXCEPT ![n] = "LEASE_LOST"]
    /\ pending' = [pending EXCEPT ![n] = NoBeat]
    /\ answer' = [answer EXCEPT ![n] = "none"]
    /\ UNCHANGED <<task, phase, confirmed, interval, beats, command>>

(* Any other failure, a timeout among them, is only counted.               *)
HeartbeatFails(n) ==
    /\ Open(n) /\ pending[n] # NoBeat
    /\ pending' = [pending EXCEPT ![n] = NoBeat]
    /\ answer' = [answer EXCEPT ![n] = "none"]
    /\ UNCHANGED <<task, phase, aborted, confirmed, interval, beats, command>>

(***************************************************************************)
(* Time.                                                                   *)
(***************************************************************************)

Less(t) == IF t > 0 THEN t - 1 ELSE 0
Older(age) == IF age = NoBeat \/ age = Lease THEN age ELSE age + 1

Tick ==
    /\ leaseLeft' = Less(leaseLeft)
    /\ confirmed' = [n \in Token |-> Less(confirmed[n])]
    /\ interval' = [n \in Token |-> Less(interval[n])]
    /\ pending' = [n \in Token |-> Older(pending[n])]
    /\ beats' = [n \in Token |-> {age + 1 : age \in {a \in beats[n] : a < HeartbeatDelay}}]
    /\ UNCHANGED <<taskState, leaseToken, phase, aborted, answer, command>>

Execution(n) ==
    \/ StartExecution(n) \/ Authorize(n) \/ PrepareEffect(n) \/ ExecuteTool(n) \/ ToolAnswers(n)
    \/ Return(n) \/ Abandon(n) \/ Vanish(n) \/ Expire(n) \/ Stop(n)
    \/ Beat(n) \/ Renewed(n) \/ LeaseLost(n) \/ HeartbeatFails(n)

Next ==
    \/ Tick
    \/ RecoverStale
    \/ \E n \in Token : \/ Claim(n)
                        \/ ServeOutcome(n)
                        \/ \E age \in beats[n] : ServeHeartbeat(n, age)
                        \/ Execution(n)

Spec == Init /\ [][Next]_vars

(* Time passes and the timers of a process that runs fire; an await whose  *)
(* signal is aborted throws.  Nothing is assumed of the tool, the network  *)
(* and the repository.                                                     *)
FairSpec ==
    /\ Spec
    /\ WF_vars(Tick)
    /\ \A n \in Token : WF_vars(Expire(n)) /\ WF_vars(Abandon(n))

(***************************************************************************)
(* Properties.                                                             *)
(***************************************************************************)

(* Every variable holds a value of its kind.                               *)
TypeOK ==
    /\ taskState \in {"RUNNABLE", "RUNNING", "SUCCEEDED", "FAILED", "UNKNOWN_OUTCOME", "WAITING"}
    /\ leaseToken \in 0..MaxToken
    /\ leaseLeft \in 0..Lease
    /\ phase \in [Token -> Phase]
    /\ aborted \in [Token -> {"no", "LEASE_LOST", "WORKER_GRACEFUL_SHUTDOWN"}]
    /\ confirmed \in [Token -> 0..Lease]
    /\ interval \in [Token -> 0..HeartbeatEvery]
    /\ pending \in [Token -> {NoBeat} \union 0..Lease]
    /\ answer \in [Token -> {"none", "renewed", "stale"}]
    /\ beats \in [Token -> SUBSET (0..HeartbeatDelay)]
    /\ command \in [Token -> Command \union {"none"}]

(* An execution that would pass assertOwnership and that has not reported  *)
(* yet (before consumer.ts:149) is the one the repository holds the lease  *)
(* for, so no other worker can have claimed the task meanwhile: two tools  *)
(* are never under way on behalf of two workers that both believe in their *)
(* lease.  It needs heartbeats that arrive before the next one is sent:    *)
(* an older one that arrives later takes back what the newer one renewed.  *)
Believes(n) == phase[n] \in {"claimed", "authorize", "prepare", "prepared", "execute"} /\ Owns(n)

LiveExecutionHoldsLease == \A n \in Token : Believes(n) => Holds(n)

(* An execution is told that its lease is lost only when it is: a failed   *)
(* or late heartbeat alone, as long as the confirmed time is not over,     *)
(* does not abort a tool (consumer.ts:102).                                *)
NoSpuriousAbort ==
    [][\A n \in Token :
        aborted[n] = "no" /\ aborted'[n] = "LEASE_LOST" => confirmed[n] = 0 \/ ~Holds(n)]_vars

(* An execution whose task was claimed by another worker ends by itself,   *)
(* however long its tool takes and whatever happens to its heartbeats      *)
(* (consumer.ts:71).                                                       *)
ZombieStops == \A n \in Token : (Open(n) /\ leaseToken > n) ~> ~Open(n)

=============================================================================
