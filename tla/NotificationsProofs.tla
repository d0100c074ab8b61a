------------------------ MODULE NotificationsProofs ------------------------
(***************************************************************************)
(* Proofs about Notifications: no message is sent twice, and what has      *)
(* become of a delivery stays so, for any events, recipients, executions   *)
(* and limits.                                                             *)
(***************************************************************************)
EXTENDS Notifications, TLAPS

Kind == {"sent", "retryable", "permanent", "unknown"}
Result == [delivery : Delivery, kind : Kind]

(* An execution has the answer to a delivery exactly until it records it,  *)
(* and it announces an event to a recipient once it dispatches.            *)
ExecutionInv ==
    /\ result \in [Sender -> Result \union {NoResult}]
    /\ \A s \in Sender :
        /\ IF At(s, "store") THEN result[s] \in Result ELSE result[s] = NoResult
        /\ ~At(s, "idle") => event[s] \in Event
        /\ step[s] \in {"dispatch", "store"} => recipient[s] \in Recipient

(* What is not tried yet has no attempts, and what is tried again has some *)
(* left.                                                                   *)
AttemptsLeft ==
    \A d \in Delivery :
        /\ state[d] = "NONE" => attempts[d] = 0
        /\ state[d] = "PENDING" => attempts[d] < MaxAttempts

TypeInv == TypeOK /\ ExecutionInv /\ AttemptsLeft

Answers(s, d) == At(s, "store") /\ result[s].delivery = d

(* A delivery that may still be sent has not been accepted, and nobody has *)
(* an answer for it that is not recorded yet; one that is being sent has   *)
(* one answer at most, and if that says that Telegram has refused, it has. *)
SendingInv ==
    \A d \in Delivery :
        /\ state[d] \in {"NONE", "PENDING"} =>
               accepted[d] = 0 /\ \A s \in Sender : ~Answers(s, d)
        /\ state[d] = "SENDING" =>
               \A s \in Sender : Answers(s, d) =>
                   /\ \A q \in Sender : Answers(q, d) => q = s
                   /\ result[s].kind \in {"retryable", "permanent"} => accepted[d] = 0

SentInv == TypeInv /\ AtMostOnce /\ SendingInv

USE NotificationsAssumption DEF NotificationsAssumption, At, Goto

(***************************************************************************)
(* Types.                                                                  *)
(***************************************************************************)

LEMMA TypeInit == Init => TypeInv
  <1> SUFFICES ASSUME Init PROVE TypeInv
    OBVIOUS
  <1>1. TypeOK
    BY DEF Init, TypeOK, NoResult
  <1>2. ExecutionInv /\ AttemptsLeft
    BY DEF Init, ExecutionInv, AttemptsLeft
  <1> QED
    BY <1>1, <1>2 DEF TypeInv

(* An execution that ends leaves nothing behind.                           *)
LEMMA IdleType ==
    ASSUME TypeOK, ExecutionInv, NEW s \in Sender, Idle(s)
    PROVE  /\ step' \in [Sender -> {"idle", "next", "dispatch", "store"}]
           /\ event' \in [Sender -> Event \union {None}]
           /\ recipient' \in [Sender -> Recipient \union {None}]
           /\ todo' \in [Sender -> SUBSET Recipient] /\ due' \in [Sender -> SUBSET Delivery]
           /\ \A q \in Sender : result'[q].kind \in Kind \union {"none"}
           /\ ExecutionInv'
  <1>1. /\ step'[s] = "idle" /\ result'[s] = NoResult
        /\ \A q \in Sender : q # s =>
               /\ step'[q] = step[q] /\ result'[q] = result[q]
               /\ event'[q] = event[q] /\ recipient'[q] = recipient[q]
    BY DEF Idle, TypeOK, ExecutionInv
  <1>2. ExecutionInv'
    BY <1>1 DEF Idle, ExecutionInv
  <1>3. \A q \in Sender : result'[q].kind \in Kind \union {"none"}
    <2>1. NoResult.kind = "none"
      BY DEF NoResult
    <2> QED
      BY <1>1, <2>1 DEF TypeOK, Kind
  <1> QED
    BY <1>2, <1>3 DEF Idle, TypeOK

LEMMA TypeNext == TypeInv /\ [Next]_vars => TypeInv'
  <1> SUFFICES ASSUME TypeOK, ExecutionInv, AttemptsLeft, [Next]_vars
               PROVE  TypeOK' /\ ExecutionInv' /\ AttemptsLeft'
    BY DEF TypeInv
  <1> DEFINE Goal == TypeOK' /\ ExecutionInv' /\ AttemptsLeft'
  <1>1. ASSUME NEW s \in Sender, NEW v \in Event, Claim(s, v) PROVE Goal
    <2>1. TypeOK'
      BY <1>1 DEF Claim, TypeOK, deliveries
    <2>2. ExecutionInv'
      BY <1>1 DEF Claim, TypeOK, ExecutionInv
    <2>3. AttemptsLeft'
      BY <1>1 DEF Claim, AttemptsLeft, deliveries
    <2> QED
      BY <2>1, <2>2, <2>3
  <1>2. ASSUME NEW s \in Sender, Crash(s) PROVE Goal
    <2>1. AttemptsLeft'
      BY <1>2 DEF Crash, AttemptsLeft, deliveries
    <2>2. TypeOK' /\ ExecutionInv'
      BY <1>2, IdleType DEF Crash, TypeOK, task, deliveries, Kind
    <2> QED
      BY <2>1, <2>2
  <1>3. ASSUME NEW s \in Sender, NextRecipient(s) PROVE Goal
    <2>1. PICK r \in todo[s] :
            /\ recipient' = [recipient EXCEPT ![s] = r] /\ todo' = [todo EXCEPT ![s] = @ \ {r}]
            /\ state' = [d \in Delivery |-> Registered(s, r, d)]
      BY <1>3 DEF NextRecipient
    <2>2. r \in Recipient
      BY <2>1 DEF TypeOK
    <2>3. \A d \in Delivery :
            /\ state'[d] \in {"NONE", "PENDING", "SENDING", "SENT", "FAILED"}
            /\ state'[d] = "NONE" => state[d] = "NONE"
            /\ state'[d] = "PENDING" => state[d] \in {"NONE", "PENDING"}
      BY <2>1 DEF Registered, Reconciled, TypeOK
    <2>4. AttemptsLeft'
      BY <1>3, <2>3 DEF NextRecipient, AttemptsLeft
    <2>5. due' \in [Sender -> SUBSET Delivery] /\ recipient' \in [Sender -> Recipient \union {None}]
      BY <1>3, <2>1, <2>2 DEF NextRecipient, TypeOK
    <2>6. todo' \in [Sender -> SUBSET Recipient]
      BY <2>1 DEF TypeOK
    <2>7. TypeOK'
      BY <1>3, <2>1, <2>3, <2>5, <2>6 DEF NextRecipient, TypeOK, task
    <2>8. ExecutionInv'
      BY <1>3, <2>1, <2>2 DEF NextRecipient, TypeOK, ExecutionInv
    <2> QED
      BY <2>4, <2>7, <2>8
  <1>4. ASSUME NEW s \in Sender, NEW d \in Delivery, ClaimDelivery(s, d) PROVE Goal
    <2>1. due' \in [Sender -> SUBSET Delivery]
      BY <1>4 DEF ClaimDelivery, TypeOK
    <2>2. CASE state[d] = "PENDING" /\ d \notin later
      <3>1. PICK kind \in Kind :
              /\ result' = [result EXCEPT ![s] = [delivery |-> d, kind |-> kind]]
              /\ accepted' \in {accepted, [accepted EXCEPT ![d] = @ + 1]}
        BY <1>4, <2>2 DEF ClaimDelivery, Send, Kind
      <3>2. /\ state' = [state EXCEPT ![d] = "SENDING"] /\ attempts' = [attempts EXCEPT ![d] = @ + 1]
            /\ step' = [step EXCEPT ![s] = "store"]
            /\ UNCHANGED <<task, event, recipient, todo, later>>
        BY <1>4, <2>2 DEF ClaimDelivery, Send
      <3>3. attempts[d] \in 0..MaxAttempts /\ attempts[d] < MaxAttempts
        BY <2>2 DEF AttemptsLeft, TypeOK
      <3>4. attempts' \in [Delivery -> 0..MaxAttempts] /\ accepted' \in [Delivery -> Nat]
        BY <3>1, <3>2, <3>3 DEF TypeOK
      <3>5. result'[s] = [delivery |-> d, kind |-> kind] /\ result'[s] \in Result
        BY <3>1 DEF ExecutionInv, Result
      <3>6. \A q \in Sender : result'[q].kind \in Kind \union {"none"}
        BY <3>1 DEF TypeOK, Kind
      <3>7. TypeOK'
        BY <2>1, <3>2, <3>4, <3>6 DEF TypeOK, task, Kind
      <3>8. ExecutionInv'
        BY <1>4, <3>1, <3>2, <3>5 DEF ClaimDelivery, ExecutionInv, TypeOK
      <3>9. AttemptsLeft'
        BY <3>2 DEF AttemptsLeft, TypeOK
      <3> QED
        BY <3>7, <3>8, <3>9
    <2>3. CASE ~(state[d] = "PENDING" /\ d \notin later)
      BY <1>4, <2>1, <2>3 DEF ClaimDelivery, TypeOK, ExecutionInv, AttemptsLeft, task
    <2> QED
      BY <2>2, <2>3
  <1>5. ASSUME NEW s \in Sender, Store(s) PROVE Goal
    <2> DEFINE d == result[s].delivery
    <2>1. d \in Delivery /\ result[s].kind \in Kind
      BY <1>5 DEF Store, ExecutionInv, Result
    <2>2. /\ step' = [step EXCEPT ![s] = "dispatch"] /\ result' = [result EXCEPT ![s] = NoResult]
          /\ UNCHANGED <<task, event, recipient, todo, due, attempts, accepted>>
      BY <1>5 DEF Store, Answered
    <2>3. /\ Recorded(s) \in {"SENT", "SENDING", "PENDING", "FAILED"}
          /\ Recorded(s) = "PENDING" => attempts[d] < MaxAttempts
      BY DEF Recorded, Retryable
    <2>4. /\ state' \in [Delivery -> {"NONE", "PENDING", "SENDING", "SENT", "FAILED"}]
          /\ later' \subseteq Delivery
      BY <1>5, <2>1, <2>3 DEF Store, TypeOK
    <2>5. AttemptsLeft'
      BY <1>5, <2>1, <2>2, <2>3 DEF Store, AttemptsLeft, TypeOK
    <2>6. \A q \in Sender : result'[q].kind \in Kind \union {"none"}
      BY <2>2 DEF TypeOK, NoResult, Kind
    <2>7. TypeOK'
      BY <2>2, <2>4, <2>6 DEF TypeOK, task, Kind
    <2>8. ExecutionInv'
      <3>1. /\ step'[s] = "dispatch" /\ result'[s] = NoResult
            /\ \A q \in Sender : q # s => step'[q] = step[q] /\ result'[q] = result[q]
        BY <2>1, <2>2, <1>5 DEF TypeOK, ExecutionInv, Store
      <3> QED
        BY <1>5, <2>2, <3>1 DEF Store, ExecutionInv
    <2> QED
      BY <2>5, <2>7, <2>8
  <1>6. ASSUME NEW s \in Sender, ReadOwn(s) PROVE Goal
    <2>1. event[s] \in Event
      BY <1>6 DEF ReadOwn, ExecutionInv
    <2>2. AttemptsLeft'
      BY <1>6 DEF ReadOwn, AttemptsLeft, deliveries
    <2>3. ASSUME NEW outcome \in {"RUNNABLE", "SUCCEEDED"}, ReportOutcome(s, outcome)
          PROVE  TypeOK' /\ ExecutionInv'
      <3>1. taskState' \in [Event -> {"RUNNABLE", "SUCCEEDED"}] /\ lease' \in [Event -> Sender \union {None}]
        BY <2>1, <2>3 DEF ReportOutcome, TypeOK, task
      <3>2. Idle(s)
        BY <2>3 DEF ReportOutcome
      <3> QED
        BY <1>6, <3>1, <3>2, IdleType DEF ReadOwn, TypeOK, deliveries, Kind
    <2>4. ASSUME Goto(s, "next"), UNCHANGED <<task, event, recipient, todo, due, result>>
          PROVE  TypeOK' /\ ExecutionInv'
      BY <1>6, <2>4 DEF ReadOwn, TypeOK, ExecutionInv, task, deliveries
    <2> QED
      BY <1>6, <2>2, <2>3, <2>4 DEF ReadOwn
  <1>7. ASSUME NEW v \in Event, Expire(v) PROVE Goal
    BY <1>7 DEF Expire, TypeOK, ExecutionInv, AttemptsLeft, executions, deliveries
  <1>8. ASSUME NEW d \in Delivery, Ripen(d) PROVE Goal
    BY <1>8 DEF Ripen, TypeOK, ExecutionInv, AttemptsLeft, task, executions
  <1>9. CASE UNCHANGED vars
    BY <1>9 DEF vars, task, executions, deliveries, TypeOK, ExecutionInv, AttemptsLeft
  <1> QED
    BY <1>1, <1>2, <1>3, <1>4, <1>5, <1>6, <1>7, <1>8, <1>9 DEF Next, Announce

(* Tasks, executions and deliveries stay in their domains. *)
THEOREM TypeCorrect == Spec => []TypeOK
  <1>1. TypeInv => TypeOK
    BY DEF TypeInv
  <1> QED
    BY <1>1, TypeInit, TypeNext, PTL DEF Spec

(***************************************************************************)
(* No message is sent twice.                                               *)
(***************************************************************************)

LEMMA SendingInit == Init => AtMostOnce /\ SendingInv
  BY DEF Init, AtMostOnce, SendingInv, Answers

(* A step that neither sends nor records keeps the invariant: answers may  *)
(* be lost, and a delivery may be given up or registered.                  *)
LEMMA QuietStep ==
    ASSUME TypeOK, AtMostOnce, SendingInv, UNCHANGED accepted,
           \A q \in Sender, e \in Delivery : Answers(q, e)' => Answers(q, e) /\ result'[q] = result[q],
           \A e \in Delivery : /\ state'[e] = "SENDING" => state[e] = "SENDING"
                               /\ state'[e] \in {"NONE", "PENDING"} => state[e] \in {"NONE", "PENDING"}
    PROVE  AtMostOnce' /\ SendingInv'
  <1>1. AtMostOnce'
    BY DEF AtMostOnce
  <1>2. ASSUME NEW d \in Delivery, state'[d] \in {"NONE", "PENDING"}
        PROVE  accepted'[d] = 0 /\ \A s \in Sender : ~Answers(s, d)'
    BY <1>2 DEF SendingInv
  <1>3. ASSUME NEW d \in Delivery, state'[d] = "SENDING", NEW s \in Sender, Answers(s, d)'
        PROVE  /\ \A q \in Sender : Answers(q, d)' => q = s
               /\ result'[s].kind \in {"retryable", "permanent"} => accepted'[d] = 0
    BY <1>3 DEF SendingInv
  <1> QED
    BY <1>1, <1>2, <1>3 DEF SendingInv

(* An execution that ends forgets its answer; the others keep theirs.      *)
LEMMA IdleAnswers ==
    ASSUME TypeOK, ExecutionInv, NEW s \in Sender, Idle(s)
    PROVE  \A q \in Sender, e \in Delivery : Answers(q, e)' => Answers(q, e) /\ result'[q] = result[q]
  BY DEF Idle, TypeOK, ExecutionInv, Answers

LEMMA SentNext == SentInv /\ [Next]_vars => AtMostOnce' /\ SendingInv'
  <1> SUFFICES ASSUME TypeOK, ExecutionInv, AtMostOnce, SendingInv, [Next]_vars
               PROVE  AtMostOnce' /\ SendingInv'
    BY DEF SentInv, TypeInv
  <1> DEFINE Goal == AtMostOnce' /\ SendingInv'
             Kept == \A q \in Sender, e \in Delivery : Answers(q, e)' => Answers(q, e) /\ result'[q] = result[q]
  <1>1. ASSUME NEW s \in Sender, NEW v \in Event, Claim(s, v) PROVE Goal
    <2>1. Kept
      BY <1>1 DEF Claim, Answers, TypeOK
    <2> QED
      BY <1>1, <2>1, QuietStep DEF Claim, deliveries
  <1>2. ASSUME NEW s \in Sender, Crash(s) PROVE Goal
    <2>1. Kept
      BY <1>2, IdleAnswers DEF Crash
    <2> QED
      BY <1>2, <2>1, QuietStep DEF Crash, deliveries
  <1>3. ASSUME NEW s \in Sender, NextRecipient(s) PROVE Goal
    <2>1. Kept
      BY <1>3 DEF NextRecipient, Answers, TypeOK
    <2>2. \A e \in Delivery : /\ state'[e] = "SENDING" => state[e] = "SENDING"
                              /\ state'[e] \in {"NONE", "PENDING"} => state[e] \in {"NONE", "PENDING"}
      BY <1>3 DEF NextRecipient, Registered, Reconciled
    <2>3. UNCHANGED accepted
      BY <1>3 DEF NextRecipient
    <2> QED
      BY <2>1, <2>2, <2>3, QuietStep
  <1>4. ASSUME NEW s \in Sender, NEW d \in Delivery, ClaimDelivery(s, d) PROVE Goal
    <2>1. CASE state[d] = "PENDING" /\ d \notin later
      <3>1. PICK kind \in Kind :
              /\ result' = [result EXCEPT ![s] = [delivery |-> d, kind |-> kind]]
              /\ \/ kind \in {"sent", "unknown"} /\ accepted' = [accepted EXCEPT ![d] = @ + 1]
                 \/ kind # "sent" /\ UNCHANGED accepted
        BY <1>4, <2>1 DEF ClaimDelivery, Send, Kind
      <3>2. state' = [state EXCEPT ![d] = "SENDING"] /\ step' = [step EXCEPT ![s] = "store"]
        BY <1>4, <2>1 DEF ClaimDelivery, Send
      <3>3. accepted[d] = 0 /\ \A q \in Sender : ~Answers(q, d)
        BY <2>1 DEF SendingInv
      <3>4. /\ \A e \in Delivery : e # d => accepted'[e] = accepted[e] /\ state'[e] = state[e]
            /\ accepted'[d] \in {0, 1} /\ state'[d] = "SENDING"
            /\ kind \in {"retryable", "permanent"} => accepted'[d] = 0
        BY <3>1, <3>2, <3>3 DEF TypeOK
      <3>5. /\ ~At(s, "store") /\ Answers(s, d)' /\ result'[s].kind = kind
            /\ \A e \in Delivery : Answers(s, e)' => e = d
            /\ \A q \in Sender : q # s => result'[q] = result[q]
            /\ \A q \in Sender, e \in Delivery : q # s => (Answers(q, e)' <=> Answers(q, e))
        BY <1>4, <3>1, <3>2 DEF ClaimDelivery, Answers, TypeOK, ExecutionInv
      <3>6. AtMostOnce'
        BY <3>4 DEF AtMostOnce
      <3>7. ASSUME NEW e \in Delivery, state'[e] \in {"NONE", "PENDING"}
            PROVE  accepted'[e] = 0 /\ \A q \in Sender : ~Answers(q, e)'
        BY <3>4, <3>5, <3>7 DEF SendingInv
      <3>8. ASSUME NEW e \in Delivery, state'[e] = "SENDING", NEW q \in Sender, Answers(q, e)'
            PROVE  /\ \A p \in Sender : Answers(p, e)' => p = q
                   /\ result'[q].kind \in {"retryable", "permanent"} => accepted'[e] = 0
        <4>1. CASE e = d
          BY <3>3, <3>4, <3>5, <3>8, <4>1
        <4>2. CASE e # d
          BY <3>4, <3>5, <3>8, <4>2 DEF SendingInv
        <4> QED
          BY <4>1, <4>2
      <3> QED
        BY <3>6, <3>7, <3>8 DEF SendingInv
    <2>2. CASE ~(state[d] = "PENDING" /\ d \notin later)
      <3>1. UNCHANGED <<state, step, result, accepted>>
        BY <1>4, <2>2 DEF ClaimDelivery
      <3> QED
        BY <3>1 DEF AtMostOnce, SendingInv, Answers
    <2> QED
      BY <2>1, <2>2
  <1>5. ASSUME NEW s \in Sender, Store(s) PROVE Goal
    <2>1. PICK d \in Delivery : d = result[s].delivery /\ Answers(s, d)
      BY <1>5 DEF Store, ExecutionInv, Result, Answers
    <2>2. UNCHANGED accepted
      BY <1>5 DEF Store
    <2>3. /\ \A e \in Delivery : ~Answers(s, e)'
          /\ \A q \in Sender, e \in Delivery : q # s => (Answers(q, e)' <=> Answers(q, e)) /\ result'[q] = result[q]
      BY <1>5 DEF Store, Answered, Answers, TypeOK, ExecutionInv
    <2>4. CASE state[d] = "SENDING"
      <3>1. state' = [state EXCEPT ![d] = Recorded(s)]
        BY <1>5, <2>1, <2>4 DEF Store
      <3>2. \A q \in Sender : ~Answers(q, d)'
        BY <2>1, <2>3, <2>4 DEF SendingInv
      <3>3. Recorded(s) # "NONE" /\ (Recorded(s) = "PENDING" => accepted[d] = 0)
        BY <2>1, <2>4 DEF Recorded, Retryable, SendingInv
      <3>4. /\ \A e \in Delivery : e # d => state'[e] = state[e]
            /\ state'[d] = Recorded(s)
        BY <2>1, <3>1 DEF TypeOK
      <3>5. ASSUME NEW e \in Delivery, state'[e] \in {"NONE", "PENDING"}
            PROVE  accepted'[e] = 0 /\ \A q \in Sender : ~Answers(q, e)'
        BY <2>2, <2>3, <3>2, <3>3, <3>4, <3>5 DEF SendingInv
      <3>6. ASSUME NEW e \in Delivery, state'[e] = "SENDING", NEW q \in Sender, Answers(q, e)'
            PROVE  /\ \A p \in Sender : Answers(p, e)' => p = q
                   /\ result'[q].kind \in {"retryable", "permanent"} => accepted'[e] = 0
        BY <2>2, <2>3, <3>2, <3>4, <3>6 DEF SendingInv
      <3> QED
        BY <2>2, <3>5, <3>6 DEF AtMostOnce, SendingInv
    <2>5. CASE state[d] # "SENDING"
      <3>1. UNCHANGED state
        BY <1>5, <2>1, <2>5 DEF Store
      <3>2. Kept
        BY <2>3
      <3> QED
        BY <2>2, <3>1, <3>2, QuietStep
    <2> QED
      BY <2>4, <2>5
  <1>6. ASSUME NEW s \in Sender, ReadOwn(s) PROVE Goal
    <2>1. CASE Idle(s)
      <3>1. Kept
        BY <2>1, IdleAnswers
      <3> QED
        BY <1>6, <3>1, QuietStep DEF ReadOwn, deliveries
    <2>2. CASE Goto(s, "next") /\ UNCHANGED result
      <3>1. Kept
        BY <2>2 DEF Answers, TypeOK
      <3> QED
        BY <1>6, <3>1, QuietStep DEF ReadOwn, deliveries
    <2> QED
      BY <1>6, <2>1, <2>2 DEF ReadOwn, ReportOutcome
  <1>7. CASE UNCHANGED <<step, result, state, accepted>>
    BY <1>7 DEF AtMostOnce, SendingInv, Answers
  <1>8. ASSUME NEW v \in Event, Expire(v) PROVE Goal
    BY <1>7, <1>8 DEF Expire, executions, deliveries
  <1>9. ASSUME NEW d \in Delivery, Ripen(d) PROVE Goal
    BY <1>7, <1>9 DEF Ripen, executions
  <1>10. CASE UNCHANGED vars
    BY <1>7, <1>10 DEF vars, executions, deliveries
  <1> QED
    BY <1>1, <1>2, <1>3, <1>4, <1>5, <1>6, <1>8, <1>9, <1>10 DEF Next, Announce

(* No recipient gets the same message twice (notifications.ts:85, 94).     *)
THEOREM NeverSentTwice == Spec => []AtMostOnce
  <1>1. Init => SentInv
    BY TypeInit, SendingInit DEF SentInv
  <1>2. SentInv /\ [Next]_vars => SentInv'
    BY TypeNext, SentNext DEF SentInv
  <1>3. SentInv => AtMostOnce
    BY DEF SentInv
  <1> QED
    BY <1>1, <1>2, <1>3, PTL DEF Spec

(* A delivery that is sent or has failed stays so (notifications.ts:90).   *)
THEOREM SettledForGood == Spec => SettledStays
  <1> DEFINE Step == \A d \in Delivery : state[d] \in {"SENT", "FAILED"} => state'[d] = state[d]
  <1>1. ASSUME TypeInv, [Next]_vars PROVE [Step]_vars
    <2> USE <1>1 DEF TypeInv
    <2>1. ASSUME NEW s \in Sender, NextRecipient(s) PROVE Step
      BY <2>1 DEF NextRecipient, Registered, Reconciled
    <2>2. ASSUME NEW s \in Sender, NEW d \in Delivery, ClaimDelivery(s, d) PROVE Step
      BY <2>2 DEF ClaimDelivery, TypeOK
    <2>3. ASSUME NEW s \in Sender, Store(s) PROVE Step
      BY <2>3 DEF Store, TypeOK
    <2>4. CASE UNCHANGED state
      BY <2>4
    <2>5. ASSUME NEW s \in Sender, NEW v \in Event, Claim(s, v) PROVE Step
      BY <2>4, <2>5 DEF Claim, deliveries
    <2>6. ASSUME NEW s \in Sender, Crash(s) \/ ReadOwn(s) PROVE Step
      BY <2>4, <2>6 DEF Crash, ReadOwn, deliveries
    <2>7. ASSUME NEW v \in Event, Expire(v) PROVE Step
      BY <2>4, <2>7 DEF Expire, deliveries
    <2>8. ASSUME NEW d \in Delivery, Ripen(d) PROVE Step
      BY <2>4, <2>8 DEF Ripen
    <2> QED
      BY <2>1, <2>2, <2>3, <2>5, <2>6, <2>7, <2>8 DEF Next, Announce
  <1> QED
    BY <1>1, TypeInit, TypeNext, PTL DEF Spec, SettledStays

=============================================================================
