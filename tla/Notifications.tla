--------------------------- MODULE Notifications ---------------------------
(***************************************************************************)
(* Telegram notifications (candidate-pipeline/notifications.ts and the     *)
(* tool candidate.telegram/v1): an event is announced to every recipient.  *)
(* An execution of the tool dispatches whatever is due, also what belongs  *)
(* to other events, so that executions meet at a delivery; one may crash   *)
(* between sending and recording, or go on after its lease was lost.       *)
(*                                                                         *)
(* Of next_attempt_at_utc only this matters: whether it is reached.        *)
(***************************************************************************)
EXTENDS Integers, FiniteSets

CONSTANTS Event,     \* logical keys: ready reports, each with a task that announces it
          Recipient, \* TELEGRAM_RECIPIENT_REFS_JSON
          Sender,    \* slots for executions of the tool
          MaxAttempts, \* three attempts are made
          None

ASSUME NotificationsAssumption == None \notin Sender /\ MaxAttempts \in Nat \ {0}

Delivery == Event \X Recipient

VARIABLES
    taskState, \* agent_tasks.state of the task that announces an event
    lease,     \* the execution that holds the task's lease, or None
    step,      \* where an execution is
    event,     \* what it announces
    recipient, \* to whom
    todo,      \* to whom it has still to announce it
    due,       \* deliveries that it has still to dispatch
    result,    \* the delivery it sends, and the answer of Telegram
    state,     \* candidate_notification_deliveries.state
    attempts,  \* .attempts
    later,     \* deliveries whose next attempt, or reconciliation, is not due yet
    accepted   \* messages that Telegram has accepted for a delivery

task == <<taskState, lease>>
executions == <<step, event, recipient, todo, due, result>>
deliveries == <<state, attempts, later>>
vars == <<task, executions, deliveries, accepted>>

NoResult == [delivery |-> <<>>, kind |-> "none"]

Init ==
    /\ taskState = [v \in Event |-> "RUNNABLE"] /\ lease = [v \in Event |-> None]
    /\ step = [s \in Sender |-> "idle"]
    /\ event = [s \in Sender |-> None] /\ recipient = [s \in Sender |-> None]
    /\ todo = [s \in Sender |-> {}] /\ due = [s \in Sender |-> {}]
    /\ result = [s \in Sender |-> NoResult]
    /\ state = [d \in Delivery |-> "NONE"] /\ attempts = [d \in Delivery |-> 0]
    /\ later = {}
    /\ accepted = [d \in Delivery |-> 0]

At(s, where) == step[s] = where
Goto(s, where) == step' = [step EXCEPT ![s] = where]

(***************************************************************************)
(* The task of an event.                                                   *)
(***************************************************************************)

Claim(s, v) ==
    /\ At(s, "idle") /\ taskState[v] = "RUNNABLE" /\ lease[v] = None
    /\ lease' = [lease EXCEPT ![v] = s]
    /\ event' = [event EXCEPT ![s] = v] /\ todo' = [todo EXCEPT ![s] = Recipient]
    /\ Goto(s, "next")
    /\ UNCHANGED <<taskState, recipient, due, result, deliveries, accepted>>

Expire(v) ==
    /\ lease[v] # None
    /\ lease' = [lease EXCEPT ![v] = None]
    /\ UNCHANGED <<taskState, executions, deliveries, accepted>>

Idle(s) ==
    /\ Goto(s, "idle")
    /\ event' = [event EXCEPT ![s] = None] /\ recipient' = [recipient EXCEPT ![s] = None]
    /\ todo' = [todo EXCEPT ![s] = {}] /\ due' = [due EXCEPT ![s] = {}]
    /\ result' = [result EXCEPT ![s] = NoResult]

(* The process dies, or the execution is aborted.                          *)
Crash(s) ==
    /\ ~At(s, "idle")
    /\ Idle(s)
    /\ UNCHANGED <<task, deliveries, accepted>>

(* An outcome without the lease is refused.                                *)
ReportOutcome(s, outcome) ==
    /\ IF lease[event[s]] = s
       THEN /\ lease' = [lease EXCEPT ![event[s]] = None]
            /\ taskState' = [taskState EXCEPT ![event[s]] = outcome]
       ELSE UNCHANGED task
    /\ Idle(s)

(***************************************************************************)
(* telegram.send of an execution, for one recipient after the other.       *)
(***************************************************************************)

(* Mutant: a delivery whose outcome is unknown is tried again. *)
ReconciledMut(d) == IF state[d] = "SENDING" /\ d \notin later THEN "PENDING" ELSE state[d]

(* reconcileUnknown: a delivery whose outcome has stayed unknown fails.    *)
Reconciled(d) == IF state[d] = "SENDING" /\ d \notin later THEN "FAILED" ELSE state[d]

(* register: the first execution inserts the delivery.                     *)
Registered(s, r, d) == IF d = <<event[s], r>> /\ state[d] = "NONE" THEN "PENDING" ELSE Reconciled(d)

(* The statements before the first delivery is claimed, at one moment.     *)
NextRecipient(s) ==
    /\ At(s, "next")
    /\ \E r \in todo[s] :
        /\ recipient' = [recipient EXCEPT ![s] = r]
        /\ todo' = [todo EXCEPT ![s] = @ \ {r}]
        /\ state' = [d \in Delivery |-> Registered(s, r, d)]
    /\ due' = [due EXCEPT ![s] = {d \in Delivery : state'[d] = "PENDING" /\ d \notin later}]
    /\ Goto(s, "dispatch")
    /\ UNCHANGED <<task, event, result, attempts, later, accepted>>

Own(s) == <<event[s], recipient[s]>>

(* Telegram: what it refuses (429, 5xx, 4xx) it has not accepted; without  *)
(* an answer nobody knows.  The answer is recorded by a later step.        *)
Send(s, d) ==
    /\ \E kind \in {"sent", "retryable", "permanent", "unknown"} :
        /\ result' = [result EXCEPT ![s] = [delivery |-> d, kind |-> kind]]
        /\ \/ kind \in {"sent", "unknown"} /\ accepted' = [accepted EXCEPT ![d] = @ + 1]
           \/ kind # "sent" /\ UNCHANGED accepted
    /\ Goto(s, "store")

(* claim and send: somebody else may have the delivery by now.  Until the  *)
(* answer is recorded it looks like one of unknown outcome that is overdue.*)
ClaimDelivery(s, d) ==
    /\ At(s, "dispatch") /\ d \in due[s]
    /\ due' = [due EXCEPT ![s] = @ \ {d}]
    /\ IF state[d] = "PENDING" /\ d \notin later
       THEN /\ state' = [state EXCEPT ![d] = "SENDING"]
            /\ attempts' = [attempts EXCEPT ![d] = @ + 1]
            /\ Send(s, d)
       ELSE UNCHANGED <<state, attempts, step, result, accepted>>
    /\ UNCHANGED <<task, event, recipient, todo, later>>

Retryable(s) == result[s].kind = "retryable" /\ attempts[result[s].delivery] < MaxAttempts

Recorded(s) ==
    CASE result[s].kind = "sent" -> "SENT"
      [] result[s].kind = "unknown" -> "SENDING"
      [] Retryable(s) -> "PENDING"
      [] OTHER -> "FAILED"

Answered(s) == Goto(s, "dispatch") /\ result' = [result EXCEPT ![s] = NoResult]

(* Mutant: the answer is recorded whatever the delivery has come to. *)
StoreMut(s) ==
    /\ At(s, "store")
    /\ LET d == result[s].delivery IN
        /\ state' = [state EXCEPT ![d] = Recorded(s)]
        /\ later' = IF Recorded(s) \in {"SENDING", "PENDING"} THEN later \union {d} ELSE later
    /\ Answered(s)
    /\ UNCHANGED <<task, event, recipient, todo, due, attempts, accepted>>

(* Mutant: a retry counts the attempts anew. *)
StoreAnewMut(s) ==
    /\ At(s, "store")
    /\ LET d == result[s].delivery IN
        IF state[d] = "SENDING"
        THEN /\ state' = [state EXCEPT ![d] = Recorded(s)]
             /\ later' = IF Recorded(s) \in {"SENDING", "PENDING"} THEN later \union {d} ELSE later
             /\ attempts' = IF Recorded(s) = "PENDING" THEN [attempts EXCEPT ![d] = 0] ELSE attempts
        ELSE UNCHANGED <<state, later, attempts>>
    /\ Answered(s)
    /\ UNCHANGED <<task, event, recipient, todo, due, accepted>>

(* sent, retry, unknown and failed touch only a delivery in SENDING.       *)
Store(s) ==
    /\ At(s, "store")
    /\ LET d == result[s].delivery IN
        IF state[d] = "SENDING"
        THEN /\ state' = [state EXCEPT ![d] = Recorded(s)]
             /\ later' = IF Recorded(s) \in {"SENDING", "PENDING"} THEN later \union {d} ELSE later
        ELSE UNCHANGED <<state, later>>
    /\ Answered(s)
    /\ UNCHANGED <<task, event, recipient, todo, due, attempts, accepted>>

(* What has become of the execution's own delivery: one that is pending    *)
(* defers the task (RETRY_LATER), SENDING and FAILED are answers like SENT.*)
ReadOwn(s) ==
    /\ At(s, "dispatch") /\ due[s] = {}
    /\ \/ state[Own(s)] = "PENDING" /\ ReportOutcome(s, "RUNNABLE")
       \/ state[Own(s)] # "PENDING" /\ todo[s] = {} /\ ReportOutcome(s, "SUCCEEDED")
       \/ /\ state[Own(s)] # "PENDING" /\ todo[s] # {} /\ Goto(s, "next")
          /\ UNCHANGED <<task, event, recipient, todo, due, result>>
    /\ UNCHANGED <<deliveries, accepted>>

(* The next attempt of a delivery is reached.                              *)
Ripen(d) ==
    /\ d \in later
    /\ later' = later \ {d}
    /\ UNCHANGED <<task, executions, state, attempts, accepted>>

Announce(s) ==
    \/ NextRecipient(s)
    \/ \E d \in Delivery : ClaimDelivery(s, d)
    \/ Store(s) \/ ReadOwn(s)

Next ==
    \/ \E s \in Sender : Announce(s) \/ Crash(s) \/ \E v \in Event : Claim(s, v)
    \/ \E v \in Event : Expire(v)
    \/ \E d \in Delivery : Ripen(d)

Spec == Init /\ [][Next]_vars

(* A worker takes a task that is there and executes it, time passes, and   *)
(* executions are not broken off and leases not lost for ever.             *)
FairSpec ==
    /\ Spec
    /\ \A s \in Sender : WF_vars(Announce(s))
    /\ \A v \in Event : WF_vars(\E s \in Sender : Claim(s, v)) /\ WF_vars(lease[v] \in Sender /\ event[lease[v]] # v /\ Expire(v))
    /\ \A d \in Delivery : WF_vars(Ripen(d))
    /\ <>[][/\ \A s \in Sender : ~Crash(s)
            /\ \A v \in Event : Expire(v) => event[lease[v]] # v]_vars

(***************************************************************************)
(* Properties.                                                             *)
(***************************************************************************)

(* Every variable holds a value of its kind; three attempts are the most   *)
(* a delivery is given (notifications.ts:138).                             *)
TypeOK ==
    /\ taskState \in [Event -> {"RUNNABLE", "SUCCEEDED"}] /\ lease \in [Event -> Sender \union {None}]
    /\ step \in [Sender -> {"idle", "next", "dispatch", "store"}]
    /\ event \in [Sender -> Event \union {None}] /\ recipient \in [Sender -> Recipient \union {None}]
    /\ todo \in [Sender -> SUBSET Recipient] /\ due \in [Sender -> SUBSET Delivery]
    /\ \A s \in Sender : result[s].kind \in {"none", "sent", "retryable", "permanent", "unknown"}
    /\ state \in [Delivery -> {"NONE", "PENDING", "SENDING", "SENT", "FAILED"}]
    /\ attempts \in [Delivery -> 0..MaxAttempts]
    /\ later \subseteq Delivery /\ accepted \in [Delivery -> Nat]

(* No recipient gets the same message twice, although an execution may     *)
(* crash after Telegram has taken it, several executions see it due, and   *)
(* the task is repeated (notifications.ts:85, 94).                         *)
AtMostOnce == \A d \in Delivery : accepted[d] <= 1

(* A delivery that is sent or has failed stays so: an answer that comes    *)
(* after another execution has given the delivery up changes nothing       *)
(* (notifications.ts:90).                                                  *)
SettledStays ==
    [][\A d \in Delivery : state[d] \in {"SENT", "FAILED"} => state'[d] = state[d]]_vars

(* The task of an event comes to an end, however often Telegram answers    *)
(* that it is overloaded (tool-executor.ts:251).                           *)
TaskEnds == \A v \in Event : <>(taskState[v] = "SUCCEEDED")

(* When its task has succeeded, an event has been announced, or the        *)
(* attempt has failed: nothing is left that nobody will send               *)
(* (production-runtime.ts:2060).                                           *)
NothingLeftPending ==
    \A v \in Event, r \in Recipient : taskState[v] = "SUCCEEDED" => state[<<v, r>>] \notin {"NONE", "PENDING"}

=============================================================================
