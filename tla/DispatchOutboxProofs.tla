------------------------ MODULE DispatchOutboxProofs ------------------------
(***************************************************************************)
(* Theorems about DispatchOutbox, for any tasks, runs, publishers and      *)
(* consumers and any limits.                                               *)
(***************************************************************************)
EXTENDS DispatchOutbox, FiniteSetTheorems, TLAPS

(* A task that may be claimed, or is running, has the revisions it needs.  *)
RevisionsLeft ==
    \A t \in Task :
        /\ task[t] = "RUNNABLE" => revision[t] + 2 <= MaxRevision
        /\ task[t] = "RUNNING" => revision[t] + 1 <= MaxRevision

Typed == TypeOK /\ RevisionsLeft

(* No row is ahead of its task. *)
FreshRows == \A e \in Entry : e[2] > revision[e[1]] => row[e] = "NONE"

(* What is being executed, or has been, is a past revision. *)
ExecutedIsPast ==
    \A c \in Consumer : phase[c] \in {"EXECUTING", "SETTLED"} => delivery[c][2] < revision[delivery[c][1]]

(* While nothing has gone wrong, every run is active. *)
RunsActive == gaps = 0 => activeRuns = Run

(* The publisher has handed the entry to the broker under the lease it     *)
(* holds, and not recorded it yet.                                         *)
Sent(e) == \E p \in Publisher : stage[p] = "CONFIRM" /\ current[p] = e /\ HoldsRow(p, e)

(* The strengthening of PublishedIsInFlight: a message is under way from   *)
(* the moment the broker has it.                                           *)
SentIsInFlight ==
    gaps = 0 => \A e \in Entry : (row[e] = "PUBLISHED" \/ Sent(e)) /\ Current(e) => InFlight(e)

DeliveryInv ==
    /\ Typed
    /\ FreshRows
    /\ ExecutedIsPast
    /\ OneExecutionPerRevision
    /\ RunsActive
    /\ SentIsInFlight

-----------------------------------------------------------------------------
(* Type correctness *)

LEMMA InitTyped == Init => Typed
BY DispatchAssumption DEF DispatchAssumption, Init, Typed, TypeOK, RevisionsLeft, Entry

(* A task that moves stays within its revisions, and its row gets no owner. *)
LEMMA MoveTyped ==
    ASSUME Typed, NEW t \in Task, NEW s \in {"WAITING", "RUNNABLE", "ENDED"}, Move(t, s),
           task[t] = "RUNNING" \/ s = "RUNNABLE"
    PROVE  /\ task' \in [Task -> {"WAITING", "RUNNABLE", "RUNNING", "ENDED"}]
           /\ revision' \in [Task -> 1..MaxRevision]
           /\ RevisionsLeft'
           /\ row' \in [Entry -> {"NONE", "PENDING", "PUBLISHING", "PUBLISHED"}]
           /\ \A e \in Entry : row'[e] = "PUBLISHING" <=> owner'[e] # NoPublisher
           /\ overdue' \subseteq {e \in Entry : row'[e] \in {"PUBLISHING", "PUBLISHED"}}
<1> USE DispatchAssumption DEF DispatchAssumption, Typed, TypeOK, RevisionsLeft, Move, HasChance
<1>1. revision[t] + 1 \in 1..MaxRevision
  OBVIOUS
<1>2. revision' \in [Task -> 1..MaxRevision] /\ RevisionsLeft'
  BY <1>1
<1>3. <<t, revision[t] + 1>> \in Entry
  BY <1>1 DEF Entry
<1>4. /\ row' \in [Entry -> {"NONE", "PENDING", "PUBLISHING", "PUBLISHED"}]
      /\ \A e \in Entry : row'[e] = row[e] \/ (row[e] = "NONE" /\ row'[e] = "PENDING")
  <2>1. CASE s = "RUNNABLE"
    BY <1>3, <2>1 DEF Enqueued
  <2>2. CASE s # "RUNNABLE"
    BY <2>2
  <2> QED
    BY <2>1, <2>2
<1> QED
  BY <1>2, <1>4

(* Rows that are released have no owner and no time running. *)
LEMMA ReleaseTyped ==
    ASSUME Typed, NEW s \in SUBSET Entry, Release(s)
    PROVE  /\ row' \in [Entry -> {"NONE", "PENDING", "PUBLISHING", "PUBLISHED"}]
           /\ owner' \in [Entry -> Publisher \union {NoPublisher}]
           /\ \A e \in Entry : row'[e] = "PUBLISHING" <=> owner'[e] # NoPublisher
           /\ overdue' \subseteq {e \in Entry : row'[e] \in {"PUBLISHING", "PUBLISHED"}}
BY DEF Typed, TypeOK, Release

(* A consumer that is done is idle and has no message. *)
LEMMA DoneTyped ==
    ASSUME Typed, NEW c \in Consumer, Done(c)
    PROVE  /\ phase' \in [Consumer -> {"IDLE", "RECEIVED", "DEFERRING", "EXECUTING", "SETTLED"}]
           /\ delivery' \in [Consumer -> Entry \union {NoEntry}]
           /\ \A d \in Consumer : phase'[d] = "IDLE" <=> delivery'[d] = NoEntry
           /\ attached' \subseteq {d \in Consumer : phase'[d] # "IDLE"}
BY DEF Typed, TypeOK, Done

LEMMA ReturnTyped ==
    ASSUME Typed, NEW c \in Consumer, Return(c)
    PROVE  queue' \in [Entry -> Nat]
<1>1. CASE c \in attached
  <2>1. delivery[c] \in Entry
    BY <1>1 DEF Typed, TypeOK
  <2> QED
    BY <1>1, <2>1 DEF Typed, TypeOK, Return
<1>2. CASE c \notin attached
  BY <1>2 DEF Typed, TypeOK, Return
<1> QED
  BY <1>1, <1>2

LEMMA AbandonTyped ==
    ASSUME Typed, NEW p \in Publisher, AbandonBatch(p)
    PROVE  /\ stage' \in [Publisher -> {"RECONCILE", "CLAIM", "PUBLISH", "CONFIRM"}]
           /\ batch' \in [Publisher -> SUBSET Entry]
           /\ current' \in [Publisher -> Entry \union {NoEntry}]
           /\ \A q \in Publisher : stage'[q] = "CONFIRM" <=> current'[q] # NoEntry
BY DEF Typed, TypeOK, AbandonBatch

(* The steps of tasks and runs. *)
LEMMA TaskTyped ==
    ASSUME Typed,
           \/ \E t \in Task : BecomeRunnable(t) \/ RecoverStale(t)
           \/ \E r \in Run : InterruptRun(r) \/ ResumeRun(r)
           \/ \E e \in Entry : TimePasses(e)
    PROVE  Typed'
<1>1. ASSUME NEW t \in Task, BecomeRunnable(t) PROVE Typed'
  BY <1>1, MoveTyped DEF Typed, TypeOK, BecomeRunnable, Move, publisherVars, consumerVars, counters
<1>2. ASSUME NEW t \in Task, RecoverStale(t) PROVE Typed'
  BY <1>2, MoveTyped DEF Typed, TypeOK, RecoverStale, Move, publisherVars, consumerVars, counters
<1>3. ASSUME NEW r \in Run, InterruptRun(r) PROVE Typed'
  BY <1>3, DispatchAssumption
  DEF DispatchAssumption, Typed, TypeOK, RevisionsLeft, InterruptRun, Gap, taskVars, outboxVars, publisherVars, consumerVars
<1>4. ASSUME NEW r \in Run, ResumeRun(r) PROVE Typed'
  BY <1>4 DEF Typed, TypeOK, RevisionsLeft, ResumeRun, taskVars, outboxVars, publisherVars, consumerVars, counters
<1>5. ASSUME NEW e \in Entry, TimePasses(e) PROVE Typed'
  BY <1>5 DEF Typed, TypeOK, RevisionsLeft, TimePasses, taskVars, publisherVars, consumerVars, counters
<1> QED
  BY <1>1, <1>2, <1>3, <1>4, <1>5

(* The steps of publishers, and of sessions that reconcile. *)
LEMMA PublisherTyped ==
    ASSUME Typed,
           \/ ReconcileSession
           \/ \E p \in Publisher :
                 PublisherStep(p) \/ CrashPublisher(p) \/ \E e \in Entry : FailDispatch(p, e)
    PROVE  Typed'
<1> USE DispatchAssumption DEF DispatchAssumption, taskVars, consumerVars, counters
<1>0. Reconcilable \in SUBSET Entry /\ Expired \in SUBSET Entry
  BY DEF Typed, TypeOK, Reconcilable, Expired, Unanswered, Missing
<1>1. CASE ReconcileSession
  BY <1>0, <1>1, ReleaseTyped DEF Typed, TypeOK, RevisionsLeft, ReconcileSession, publisherVars
<1>2. ASSUME NEW p \in Publisher, Reconcile(p) PROVE Typed'
  <2>1. /\ stage' \in [Publisher -> {"RECONCILE", "CLAIM", "PUBLISH", "CONFIRM"}]
        /\ \A q \in Publisher : stage'[q] = "CONFIRM" <=> current'[q] # NoEntry
    BY <1>2 DEF Typed, TypeOK, Reconcile
  <2> QED
    BY <1>0, <1>2, <2>1, ReleaseTyped DEF Typed, TypeOK, RevisionsLeft, Reconcile
<1>3. ASSUME NEW p \in Publisher, ClaimDispatchBatch(p) PROVE Typed'
  <2>1. PICK taken \in SUBSET Entry :
          /\ stage[p] = "CLAIM"
          /\ row' = [e \in Entry |-> IF e \in taken THEN "PUBLISHING"
                                     ELSE IF e \in Expired THEN "PENDING" ELSE row[e]]
          /\ owner' = [e \in Entry |-> IF e \in taken THEN p
                                       ELSE IF e \in Expired THEN NoPublisher ELSE owner[e]]
          /\ overdue' = overdue \ (taken \union Expired)
          /\ batch' = [batch EXCEPT ![p] = taken]
          /\ stage' = [stage EXCEPT ![p] = IF taken = {} THEN "RECONCILE" ELSE "PUBLISH"]
          /\ UNCHANGED <<taskVars, activeRuns, current, queue, consumerVars, counters>>
    BY <1>3 DEF ClaimDispatchBatch
  <2>2. /\ row' \in [Entry -> {"NONE", "PENDING", "PUBLISHING", "PUBLISHED"}]
        /\ owner' \in [Entry -> Publisher \union {NoPublisher}]
        /\ \A e \in Entry : row'[e] = "PUBLISHING" <=> owner'[e] # NoPublisher
        /\ overdue' \subseteq {e \in Entry : row'[e] \in {"PUBLISHING", "PUBLISHED"}}
    BY <2>1 DEF Typed, TypeOK
  <2>3. /\ stage' \in [Publisher -> {"RECONCILE", "CLAIM", "PUBLISH", "CONFIRM"}]
        /\ batch' \in [Publisher -> SUBSET Entry]
        /\ \A q \in Publisher : stage'[q] = "CONFIRM" <=> current'[q] # NoEntry
    BY <2>1 DEF Typed, TypeOK
  <2> QED
    BY <2>1, <2>2, <2>3 DEF Typed, TypeOK, RevisionsLeft
<1>4. ASSUME NEW p \in Publisher, NEW e \in Entry, Publish(p, e) PROVE Typed'
  <2>1. /\ stage' \in [Publisher -> {"RECONCILE", "CLAIM", "PUBLISH", "CONFIRM"}]
        /\ batch' \in [Publisher -> SUBSET Entry]
        /\ current' \in [Publisher -> Entry \union {NoEntry}]
        /\ queue' \in [Entry -> Nat]
    BY <1>4 DEF Typed, TypeOK, Publish
  <2>2. \A q \in Publisher : stage'[q] = "CONFIRM" <=> current'[q] # NoEntry
    BY <1>4 DEF Typed, TypeOK, Publish, Entry
  <2> QED
    BY <1>4, <2>1, <2>2 DEF Typed, TypeOK, RevisionsLeft, Publish, outboxVars
<1>5. ASSUME NEW p \in Publisher, ConfirmDispatch(p) PROVE Typed'
  <2>1. current[p] \in Entry
    BY <1>5 DEF Typed, TypeOK, ConfirmDispatch
  <2>2. /\ row' \in [Entry -> {"NONE", "PENDING", "PUBLISHING", "PUBLISHED"}]
        /\ owner' \in [Entry -> Publisher \union {NoPublisher}]
        /\ \A e \in Entry : row'[e] = "PUBLISHING" <=> owner'[e] # NoPublisher
        /\ overdue' \subseteq {e \in Entry : row'[e] \in {"PUBLISHING", "PUBLISHED"}}
    BY <1>5, <2>1 DEF Typed, TypeOK, ConfirmDispatch
  <2>3. /\ stage' \in [Publisher -> {"RECONCILE", "CLAIM", "PUBLISH", "CONFIRM"}]
        /\ current' \in [Publisher -> Entry \union {NoEntry}]
        /\ \A q \in Publisher : stage'[q] = "CONFIRM" <=> current'[q] # NoEntry
    BY <1>5 DEF Typed, TypeOK, ConfirmDispatch
  <2> QED
    BY <1>5, <2>2, <2>3 DEF Typed, TypeOK, RevisionsLeft, ConfirmDispatch
<1>6. ASSUME NEW p \in Publisher, LoseLease(p) PROVE Typed'
  BY <1>6, AbandonTyped DEF Typed, TypeOK, RevisionsLeft, LoseLease, outboxVars
<1>7. ASSUME NEW p \in Publisher, CrashPublisher(p) PROVE Typed'
  BY <1>7, AbandonTyped DEF Typed, TypeOK, RevisionsLeft, CrashPublisher, Fault, outboxVars
<1>8. ASSUME NEW p \in Publisher, NEW e \in Entry, FailDispatch(p, e) PROVE Typed'
  <2>1. PICK s \in SUBSET Entry : Release(s)
    BY <1>8 DEF FailDispatch
  <2> QED
    BY <1>8, <2>1, AbandonTyped, ReleaseTyped DEF Typed, TypeOK, RevisionsLeft, FailDispatch, Fault
<1> QED
  BY <1>1, <1>2, <1>3, <1>4, <1>5, <1>6, <1>7, <1>8 DEF PublisherStep

(* The steps of the broker and its consumers. *)
LEMMA ConsumerTyped ==
    ASSUME Typed,
           \/ \E e \in Entry : Delivered(e) \/ LoseMessage(e)
           \/ \E c \in Consumer :
                 ConsumerStep(c) \/ DeferUnanswered(c) \/ BreakOff(c) \/ Disconnect(c)
    PROVE  Typed'
<1> USE DispatchAssumption DEF DispatchAssumption, taskVars, outboxVars, publisherVars, counters
<1>1. ASSUME NEW c \in Consumer, NEW e \in Entry, Receive(c, e) PROVE Typed'
  <2>1. /\ queue' \in [Entry -> Nat]
        /\ phase' \in [Consumer -> {"IDLE", "RECEIVED", "DEFERRING", "EXECUTING", "SETTLED"}]
        /\ delivery' \in [Consumer -> Entry \union {NoEntry}]
    BY <1>1 DEF Typed, TypeOK, Receive
  <2>2. /\ \A d \in Consumer : phase'[d] = "IDLE" <=> delivery'[d] = NoEntry
        /\ attached' \subseteq {d \in Consumer : phase'[d] # "IDLE"}
    BY <1>1 DEF Typed, TypeOK, Receive, Entry
  <2> QED
    BY <1>1, <2>1, <2>2 DEF Typed, TypeOK, RevisionsLeft, Receive
<1>2. ASSUME NEW c \in Consumer, ClaimById(c) PROVE Typed'
  <2> DEFINE t == delivery[c][1]
  <2>1. delivery[c] \in Entry
    BY <1>2 DEF Typed, TypeOK, ClaimById
  <2>2. t \in Task /\ task[t] = "RUNNABLE"
    BY <1>2, <2>1 DEF Entry, ClaimById, Awaiting, Current
  <2>3. revision[t] + 1 \in 1..MaxRevision /\ revision[t] + 2 <= MaxRevision
    BY <2>2 DEF Typed, TypeOK, RevisionsLeft
  <2> HIDE DEF t
  <2>4. /\ task' = [task EXCEPT ![t] = "RUNNING"]
        /\ revision' = [revision EXCEPT ![t] = @ + 1]
        /\ executor' = [executor EXCEPT ![t] = c]
        /\ phase' = [phase EXCEPT ![c] = "EXECUTING"]
        /\ phase[c] = "RECEIVED"
        /\ UNCHANGED <<activeRuns, outboxVars, publisherVars, queue, delivery, attached, counters>>
    BY <1>2 DEF ClaimById, t
  <2>5. /\ task' \in [Task -> {"WAITING", "RUNNABLE", "RUNNING", "ENDED"}]
        /\ revision' \in [Task -> 1..MaxRevision]
        /\ executor' \in [Task -> Consumer \union {NoConsumer}]
        /\ RevisionsLeft'
    BY <2>2, <2>3, <2>4 DEF Typed, TypeOK, RevisionsLeft
  <2> QED
    BY <2>4, <2>5 DEF Typed, TypeOK
<1>3. ASSUME NEW c \in Consumer, ClaimDeferred(c) PROVE Typed'
  BY <1>3 DEF Typed, TypeOK, RevisionsLeft, ClaimDeferred
<1>4. ASSUME NEW c \in Consumer, ClaimStale(c) PROVE Typed'
  BY <1>4, DoneTyped DEF Typed, TypeOK, RevisionsLeft, ClaimStale, Acknowledge
<1>5. ASSUME NEW c \in Consumer, ClaimSkipped(c) PROVE Typed'
  BY <1>5, DoneTyped DEF Typed, TypeOK, RevisionsLeft, ClaimSkipped, Acknowledge, Gap
<1>6. ASSUME NEW c \in Consumer, DeferDispatch(c) PROVE Typed'
  <2>1. {delivery[c]} \in SUBSET Entry
    BY <1>6 DEF Typed, TypeOK, DeferDispatch
  <2> QED
    BY <1>6, <2>1, DoneTyped, ReleaseTyped DEF Typed, TypeOK, RevisionsLeft, DeferDispatch, Acknowledge
<1>7. ASSUME NEW c \in Consumer, DeferRefused(c) PROVE Typed'
  BY <1>7, DoneTyped, ReturnTyped DEF Typed, TypeOK, RevisionsLeft, DeferRefused, Return
<1>8. ASSUME NEW c \in Consumer, NEW s \in {"WAITING", "RUNNABLE", "ENDED"}, Settle(c, s)
      PROVE  Typed'
  <2> DEFINE t == delivery[c][1]
  <2>1. t \in Task
    BY <1>8 DEF Typed, TypeOK, Settle, Entry
  <2> HIDE DEF t
  <2>2. /\ Move(t, s)
        /\ task[t] = "RUNNING"
        /\ executor' = [executor EXCEPT ![t] = NoConsumer]
        /\ phase' = [phase EXCEPT ![c] = "SETTLED"]
        /\ phase[c] = "EXECUTING"
        /\ UNCHANGED <<activeRuns, publisherVars, queue, delivery, attached, counters>>
    BY <1>8 DEF Settle, t
  <2>3. UNCHANGED owner
    BY <2>2 DEF Move
  <2> QED
    BY <2>1, <2>2, <2>3, MoveTyped DEF Typed, TypeOK
<1>9. ASSUME NEW c \in Consumer, SettleRejected(c) PROVE Typed'
  BY <1>9, DoneTyped, ReturnTyped DEF Typed, TypeOK, RevisionsLeft, SettleRejected, Return
<1>10. ASSUME NEW c \in Consumer, AcknowledgeSettled(c) PROVE Typed'
  BY <1>10, DoneTyped DEF Typed, TypeOK, RevisionsLeft, AcknowledgeSettled, Acknowledge
<1>11. ASSUME NEW c \in Consumer, DeferUnanswered(c) PROVE Typed'
  <2>1. {delivery[c]} \in SUBSET Entry
    BY <1>11 DEF Typed, TypeOK, DeferUnanswered
  <2> QED
    BY <1>11, <2>1, DoneTyped, ReturnTyped, ReleaseTyped
    DEF Typed, TypeOK, RevisionsLeft, DeferUnanswered, Return, Fault
<1>12. ASSUME NEW c \in Consumer, BreakOff(c) PROVE Typed'
  BY <1>12, DoneTyped, ReturnTyped DEF Typed, TypeOK, RevisionsLeft, BreakOff, Return, Fault
<1>13. ASSUME NEW c \in Consumer, Disconnect(c) PROVE Typed'
  <2>1. delivery[c] \in Entry
    BY <1>13 DEF Typed, TypeOK, Disconnect
  <2>2. queue' \in [Entry -> Nat]
    BY <1>13, <2>1 DEF Typed, TypeOK, Disconnect
  <2> QED
    BY <1>13, <2>2 DEF Typed, TypeOK, RevisionsLeft, Disconnect, Fault
<1>14. ASSUME NEW e \in Entry, LoseMessage(e) PROVE Typed'
  BY <1>14 DEF Typed, TypeOK, RevisionsLeft, LoseMessage, Gap, consumerVars
<1> QED
  BY <1>1, <1>2, <1>3, <1>4, <1>5, <1>6, <1>7, <1>8, <1>9, <1>10, <1>11, <1>12, <1>13, <1>14
  DEF ConsumerStep, Delivered

LEMMA StutterTyped == Typed /\ UNCHANGED vars => Typed'
BY DEF Typed, TypeOK, RevisionsLeft, vars, taskVars, outboxVars, publisherVars, consumerVars, counters

LEMMA StepTyped == Typed /\ [Next]_vars => Typed'
BY TaskTyped, PublisherTyped, ConsumerTyped, StutterTyped DEF Next, Disturbance

(* The tables, the publishers and the consumers stay well formed. *)
THEOREM OutboxTypeCorrect == Spec => []TypeOK
<1>1. Typed => TypeOK
  BY DEF Typed
<1> QED
  BY <1>1, InitTyped, StepTyped, PTL DEF Spec

-----------------------------------------------------------------------------
(* Deliveries *)

(* The parts of the invariant that speak of executions. *)
ExecutionInv == ExecutedIsPast /\ OneExecutionPerRevision

LEMMA InitDelivery == Init => DeliveryInv
<1> SUFFICES ASSUME Init PROVE DeliveryInv
  OBVIOUS
<1>1. Typed
  BY InitTyped
<1>2. FreshRows
  BY DispatchAssumption DEF DispatchAssumption, Init, FreshRows, Entry
<1>3. ExecutedIsPast /\ OneExecutionPerRevision /\ RunsActive
  BY DEF Init, ExecutedIsPast, OneExecutionPerRevision, RunsActive
<1>4. SentIsInFlight
  BY DEF Init, SentIsInFlight, Sent
<1> QED
  BY <1>1, <1>2, <1>3, <1>4 DEF DeliveryInv

(* No execution starts, and no revision goes back. *)
LEMMA ExecutionsKept ==
    ASSUME Typed, ExecutionInv,
           \A t \in Task : revision'[t] >= revision[t],
           \A c \in Consumer : phase'[c] \in {"EXECUTING", "SETTLED"}
               => phase[c] \in {"EXECUTING", "SETTLED"} /\ delivery'[c] = delivery[c],
           Typed'
    PROVE  ExecutionInv'
<1>1. \A c \in Consumer : phase'[c] \in {"EXECUTING", "SETTLED"} =>
          delivery[c] \in Entry /\ delivery[c][1] \in Task /\ delivery[c][2] \in Nat
  BY DispatchAssumption DEF DispatchAssumption, Typed, TypeOK, Entry
<1>2. \A t \in Task : revision[t] \in Nat /\ revision'[t] \in Nat
  BY DispatchAssumption DEF DispatchAssumption, Typed, TypeOK
<1>3. ExecutedIsPast'
  BY <1>1, <1>2 DEF ExecutionInv, ExecutedIsPast
<1>4. OneExecutionPerRevision'
  BY DEF ExecutionInv, OneExecutionPerRevision
<1> QED
  BY <1>3, <1>4 DEF ExecutionInv

(* Nothing new is promised, and no promised message goes. *)
LEMMA FlightKept ==
    ASSUME SentIsInFlight, gaps' = 0 => gaps = 0,
           \A e \in Entry : ((row[e] = "PUBLISHED" \/ Sent(e)) /\ Current(e))'
               => /\ (row[e] = "PUBLISHED" \/ Sent(e)) /\ Current(e)
                  /\ gaps' = 0 /\ InFlight(e) => InFlight(e)'
    PROVE  SentIsInFlight'
BY DEF SentIsInFlight

(* A task that moves on leaves its messages behind. *)
LEMMA MoveKeeps ==
    ASSUME Typed, FreshRows, SentIsInFlight,
           NEW t \in Task, NEW s \in {"WAITING", "RUNNABLE", "ENDED"}, Move(t, s),
           UNCHANGED <<publisherVars, queue, delivery, attached, gaps>>
    PROVE  FreshRows' /\ SentIsInFlight' /\ \A u \in Task : revision'[u] >= revision[u]
<1>1. revision' = [revision EXCEPT ![t] = revision[t] + 1] /\ task' = [task EXCEPT ![t] = s]
  BY DEF Move
<1>2. \A u \in Task : revision[u] \in Nat /\ revision'[u] >= revision[u]
  BY <1>1, DispatchAssumption DEF DispatchAssumption, Typed, TypeOK
<1>3. \A e \in Entry : e[1] \in Task /\ e[2] \in Nat
  BY DispatchAssumption DEF DispatchAssumption, Entry
<1>4. \A e \in Entry : row'[e] = row[e] \/ (row'[e] = "PENDING" /\ e[1] = t /\ e[2] = revision[t] + 1)
  <2> DEFINE k == <<t, revision[t] + 1>>
  <2>1. k[1] = t /\ k[2] = revision[t] + 1
    OBVIOUS
  <2>2. row' = row \/ row' = [row EXCEPT ![k] = IF @ = "NONE" THEN "PENDING" ELSE @]
    BY DEF Move, Enqueued
  <2> HIDE DEF k
  <2>3. \A e \in Entry : row'[e] = row[e] \/ (row'[e] = "PENDING" /\ e = k)
    BY <2>2 DEF Typed, TypeOK
  <2> QED
    BY <2>1, <2>3
<1>5. FreshRows'
  BY <1>1, <1>2, <1>3, <1>4 DEF FreshRows, Typed, TypeOK
<1>6. ASSUME NEW e \in Entry, ((row[e] = "PUBLISHED" \/ Sent(e)) /\ Current(e))'
      PROVE  (row[e] = "PUBLISHED" \/ Sent(e)) /\ Current(e) /\ (InFlight(e) => InFlight(e)')
  <2>1. row'[e] # "NONE" /\ row'[e] # "PENDING"
    BY <1>6 DEF Sent, HoldsRow
  <2>2. row'[e] = row[e] /\ row[e] # "NONE"
    BY <1>4, <2>1
  <2>3. ~(e[2] > revision[e[1]])
    BY <2>2 DEF FreshRows
  <2>4. e[1] # t
    BY <1>1, <1>2, <1>3, <1>6, <2>3 DEF Current, Typed, TypeOK
  <2>5. Current(e)
    BY <1>1, <1>3, <1>6, <2>4 DEF Current, Typed, TypeOK
  <2>6. row[e] = "PUBLISHED" \/ Sent(e)
    BY <1>6, <2>2 DEF Sent, HoldsRow, Move, publisherVars
  <2> QED
    BY <2>5, <2>6 DEF InFlight
<1> QED
  BY <1>2, <1>5, <1>6, FlightKept

LEMMA TaskDelivery ==
    ASSUME DeliveryInv, Typed',
           \/ \E t \in Task : BecomeRunnable(t) \/ RecoverStale(t)
           \/ \E r \in Run : InterruptRun(r) \/ ResumeRun(r)
           \/ \E e \in Entry : TimePasses(e)
    PROVE  DeliveryInv'
<1> USE DEF DeliveryInv, ExecutionInv
<1>1. ASSUME NEW t \in Task, BecomeRunnable(t) \/ RecoverStale(t) PROVE DeliveryInv'
  <2>1. Move(t, "RUNNABLE") /\ UNCHANGED <<activeRuns, publisherVars, queue, consumerVars, counters>>
    BY <1>1 DEF BecomeRunnable, RecoverStale
  <2>2. FreshRows' /\ SentIsInFlight' /\ \A u \in Task : revision'[u] >= revision[u]
    BY <2>1, MoveKeeps DEF consumerVars, counters
  <2>3. ExecutionInv'
    BY <2>1, <2>2, ExecutionsKept DEF consumerVars
  <2>4. RunsActive'
    BY <2>1 DEF RunsActive, counters
  <2> QED
    BY <2>2, <2>3, <2>4
<1>2. ASSUME NEW r \in Run, InterruptRun(r) \/ ResumeRun(r) PROVE DeliveryInv'
  <2>1. UNCHANGED <<taskVars, outboxVars, publisherVars, queue, consumerVars>>
    BY <1>2 DEF InterruptRun, ResumeRun
  <2>2. gaps' = 0 => gaps = 0 /\ activeRuns' = Run
    BY <1>2 DEF InterruptRun, ResumeRun, Gap, counters, Typed, TypeOK, RunsActive
  <2>3. SentIsInFlight'
    BY <2>1, <2>2
    DEF SentIsInFlight, Sent, HoldsRow, Current, InFlight, taskVars, outboxVars, publisherVars, consumerVars
  <2>4. FreshRows' /\ ExecutionInv'
    BY <2>1 DEF FreshRows, ExecutedIsPast, OneExecutionPerRevision, taskVars, outboxVars, consumerVars
  <2> QED
    BY <2>2, <2>3, <2>4 DEF RunsActive
<1>3. ASSUME NEW e \in Entry, TimePasses(e) PROVE DeliveryInv'
  BY <1>3
  DEF TimePasses, SentIsInFlight, Sent, HoldsRow, Current, InFlight, FreshRows, ExecutedIsPast,
      OneExecutionPerRevision, RunsActive, taskVars, publisherVars, consumerVars, counters
<1> QED
  BY <1>1, <1>2, <1>3

(* Publishing does not touch tasks and executions. *)
LEMMA PublishingKeeps ==
    ASSUME DeliveryInv, Typed', UNCHANGED <<taskVars, activeRuns, consumerVars>>,
           gaps' = gaps, FreshRows', SentIsInFlight'
    PROVE  DeliveryInv'
<1> USE DEF DeliveryInv, taskVars, consumerVars
<1>1. RunsActive'
  BY DEF RunsActive
<1>2. ExecutionInv'
  BY DEF ExecutionInv, ExecutedIsPast, OneExecutionPerRevision
<1> QED
  BY <1>1, <1>2 DEF ExecutionInv

(* Rows that are pending again promise nothing. *)
LEMMA ReleaseKeeps ==
    ASSUME Typed, FreshRows, SentIsInFlight, NEW s \in SUBSET Entry, Release(s),
           \A e \in s : row[e] # "NONE" \/ Current(e),
           UNCHANGED <<taskVars, gaps>>,
           \A p \in Publisher : stage'[p] = "CONFIRM" => stage[p] = "CONFIRM" /\ current'[p] = current[p],
           \A e \in Entry \ s : InFlight(e) => InFlight(e)'
    PROVE  FreshRows' /\ SentIsInFlight'
<1>1. \A e \in Entry : e[1] \in Task /\ e[2] \in Nat /\ revision[e[1]] \in Nat
  BY DispatchAssumption DEF DispatchAssumption, Entry, Typed, TypeOK
<1>2. FreshRows'
  BY <1>1 DEF FreshRows, Release, Current, taskVars
<1>3. ASSUME NEW e \in Entry, ((row[e] = "PUBLISHED" \/ Sent(e)) /\ Current(e))'
      PROVE  (row[e] = "PUBLISHED" \/ Sent(e)) /\ Current(e) /\ (InFlight(e) => InFlight(e)')
  <2>1. e \notin s /\ row'[e] = row[e] /\ owner'[e] = owner[e]
    BY <1>3 DEF Release, Sent, HoldsRow
  <2>2. Current(e)
    BY <1>3 DEF Current, taskVars
  <2>3. row[e] = "PUBLISHED" \/ Sent(e)
    BY <1>3, <2>1 DEF Sent, HoldsRow
  <2> QED
    BY <2>1, <2>2, <2>3
<1> QED
  BY <1>2, <1>3, FlightKept

LEMMA PublisherDelivery ==
    ASSUME DeliveryInv, Typed',
           \/ ReconcileSession
           \/ \E p \in Publisher :
                 PublisherStep(p) \/ CrashPublisher(p) \/ \E e \in Entry : FailDispatch(p, e)
    PROVE  DeliveryInv'
<1> USE DEF DeliveryInv
<1>0. /\ Reconcilable \in SUBSET Entry
      /\ \A e \in Reconcilable : row[e] # "NONE" \/ Current(e)
      /\ Expired \in SUBSET Entry
      /\ \A e \in Expired : row[e] = "PUBLISHING"
  BY DEF Typed, TypeOK, Reconcilable, Expired, Unanswered, Missing, Awaiting
<1>1. CASE ReconcileSession
  <2>1. FreshRows' /\ SentIsInFlight'
    BY <1>0, <1>1, ReleaseKeeps
    DEF ReconcileSession, InFlight, publisherVars, consumerVars, counters
  <2> QED
    BY <1>1, <2>1, PublishingKeeps DEF ReconcileSession, counters
<1>2. ASSUME NEW p \in Publisher, Reconcile(p) PROVE DeliveryInv'
  <2>1. \A q \in Publisher : stage'[q] = "CONFIRM" => stage[q] = "CONFIRM" /\ current'[q] = current[q]
    BY <1>2 DEF Reconcile, Typed, TypeOK
  <2>2. FreshRows' /\ SentIsInFlight'
    BY <1>0, <1>2, <2>1, ReleaseKeeps DEF Reconcile, InFlight, consumerVars, counters
  <2> QED
    BY <1>2, <2>2, PublishingKeeps DEF Reconcile, counters
<1>3. ASSUME NEW p \in Publisher, ClaimDispatchBatch(p) PROVE DeliveryInv'
  <2>1. PICK taken \in SUBSET Entry :
          /\ \A e \in taken : row[e] = "PENDING" \/ row[e] = "PUBLISHING"
          /\ stage[p] = "CLAIM"
          /\ row' = [e \in Entry |-> IF e \in taken THEN "PUBLISHING"
                                     ELSE IF e \in Expired THEN "PENDING" ELSE row[e]]
          /\ owner' = [e \in Entry |-> IF e \in taken THEN p
                                       ELSE IF e \in Expired THEN NoPublisher ELSE owner[e]]
          /\ stage' = [stage EXCEPT ![p] = IF taken = {} THEN "RECONCILE" ELSE "PUBLISH"]
          /\ UNCHANGED <<taskVars, activeRuns, current, queue, consumerVars, counters>>
    BY <1>0, <1>3 DEF ClaimDispatchBatch
  <2>2. FreshRows'
    BY <1>0, <2>1 DEF FreshRows, taskVars
  <2>3. ASSUME NEW e \in Entry, (row[e] = "PUBLISHED" \/ Sent(e))'
        PROVE  row[e] = "PUBLISHED" \/ Sent(e)
    <3>1. CASE row'[e] = "PUBLISHED"
      BY <2>1, <3>1
    <3>2. CASE Sent(e)'
      <4>1. PICK q \in Publisher : stage'[q] = "CONFIRM" /\ current'[q] = e /\ row'[e] = "PUBLISHING" /\ owner'[e] = q
        BY <3>2 DEF Sent, HoldsRow
      <4>2. q # p
        BY <2>1, <4>1 DEF Typed, TypeOK
      <4> QED
        BY <2>1, <4>1, <4>2 DEF Sent, HoldsRow, Typed, TypeOK
    <3> QED
      BY <2>3, <3>1, <3>2
  <2>4. SentIsInFlight'
    BY <2>1, <2>3 DEF SentIsInFlight, Current, InFlight, taskVars, consumerVars, counters
  <2> QED
    BY <2>1, <2>2, <2>4, PublishingKeeps DEF counters
<1>4. ASSUME NEW p \in Publisher, NEW e \in Entry, Publish(p, e) PROVE DeliveryInv'
  <2>1. FreshRows'
    BY <1>4 DEF Publish, FreshRows, taskVars, outboxVars
  <2>2. \A k \in Entry : InFlight(k) => InFlight(k)'
    BY <1>4 DEF Publish, InFlight, Typed, TypeOK, consumerVars
  <2>3. InFlight(e)'
    BY <1>4 DEF Publish, InFlight, Typed, TypeOK
  <2>4. \A k \in Entry : k # e /\ (row[k] = "PUBLISHED" \/ Sent(k))' => row[k] = "PUBLISHED" \/ Sent(k)
    BY <1>4 DEF Publish, Sent, HoldsRow, Typed, TypeOK, outboxVars
  <2>5. SentIsInFlight'
    BY <1>4, <2>2, <2>3, <2>4 DEF Publish, SentIsInFlight, Current, taskVars, counters
  <2> QED
    BY <1>4, <2>1, <2>5, PublishingKeeps DEF Publish, counters
<1>5. ASSUME NEW p \in Publisher, ConfirmDispatch(p) PROVE DeliveryInv'
  <2> DEFINE e == current[p]
  <2>1. e \in Entry /\ Sent(e)
    BY <1>5 DEF ConfirmDispatch, Sent, Typed, TypeOK
  <2>2. row' = [row EXCEPT ![e] = "PUBLISHED"] /\ row[e] = "PUBLISHING"
    BY <1>5 DEF ConfirmDispatch, HoldsRow
  <2>3. FreshRows'
    BY <1>5, <2>1, <2>2 DEF ConfirmDispatch, FreshRows, Typed, TypeOK, taskVars
  <2>4. \A k \in Entry : (row[k] = "PUBLISHED" \/ Sent(k))' => row[k] = "PUBLISHED" \/ Sent(k)
    BY <1>5, <2>1 DEF ConfirmDispatch, Sent, HoldsRow, Typed, TypeOK
  <2>5. SentIsInFlight'
    BY <1>5, <2>4 DEF ConfirmDispatch, SentIsInFlight, Current, InFlight, taskVars, consumerVars, counters
  <2> QED
    BY <1>5, <2>3, <2>5, PublishingKeeps DEF ConfirmDispatch, counters
<1>6. ASSUME NEW p \in Publisher, LoseLease(p) \/ CrashPublisher(p) PROVE DeliveryInv'
  <2>1. /\ AbandonBatch(p)
        /\ gaps' = gaps
        /\ UNCHANGED <<taskVars, activeRuns, outboxVars, queue, consumerVars>>
    BY <1>6 DEF LoseLease, CrashPublisher, Fault, counters
  <2>2. FreshRows'
    BY <2>1 DEF FreshRows, taskVars, outboxVars
  <2>3. \A k \in Entry : (row[k] = "PUBLISHED" \/ Sent(k))' => row[k] = "PUBLISHED" \/ Sent(k)
    BY <2>1 DEF AbandonBatch, Sent, HoldsRow, Typed, TypeOK, outboxVars
  <2>4. SentIsInFlight'
    BY <2>1, <2>3 DEF SentIsInFlight, Current, InFlight, taskVars, consumerVars
  <2> QED
    BY <2>1, <2>2, <2>4, PublishingKeeps
<1>7. ASSUME NEW p \in Publisher, NEW e \in Entry, FailDispatch(p, e) PROVE DeliveryInv'
  <2>1. PICK s \in SUBSET Entry : Release(s) /\ \A k \in s : row[k] # "NONE"
    BY <1>7 DEF FailDispatch, HoldsRow
  <2>2. \A q \in Publisher : stage'[q] = "CONFIRM" => stage[q] = "CONFIRM" /\ current'[q] = current[q]
    BY <1>7 DEF FailDispatch, AbandonBatch, Typed, TypeOK
  <2>3. FreshRows' /\ SentIsInFlight'
    BY <1>7, <2>1, <2>2, ReleaseKeeps DEF FailDispatch, Fault, InFlight, consumerVars
  <2> QED
    BY <1>7, <2>3, PublishingKeeps DEF FailDispatch, Fault
<1> QED
  BY <1>1, <1>2, <1>3, <1>4, <1>5, <1>6, <1>7 DEF PublisherStep

(* What a consumer that is done leaves: the executions of the others ... *)
LEMMA DoneKeeps ==
    ASSUME DeliveryInv, Typed', NEW c \in Consumer, Done(c), UNCHANGED <<taskVars, activeRuns>>,
           gaps' = 0 => gaps = 0, FreshRows', SentIsInFlight'
    PROVE  DeliveryInv'
<1>1. \A d \in Consumer : phase'[d] \in {"EXECUTING", "SETTLED"}
          => phase[d] \in {"EXECUTING", "SETTLED"} /\ delivery'[d] = delivery[d]
  BY DEF Done, DeliveryInv, Typed, TypeOK
<1>2. \A t \in Task : revision'[t] >= revision[t]
  BY DispatchAssumption DEF DispatchAssumption, DeliveryInv, Typed, TypeOK, taskVars
<1>3. ExecutionInv'
  BY <1>1, <1>2, ExecutionsKept DEF DeliveryInv, ExecutionInv
<1> QED
  BY <1>3 DEF DeliveryInv, ExecutionInv, RunsActive

(* ... and every message but the one it acknowledged, ... *)
LEMMA AcknowledgeFlight ==
    ASSUME Typed, NEW c \in Consumer, Acknowledge(c)
    PROVE  \A e \in Entry \ {delivery[c]} : InFlight(e) => InFlight(e)'
BY DEF Acknowledge, Done, InFlight, Typed, TypeOK

(* ... which also stays under way when the broker gets it back. *)
LEMMA ReturnFlight ==
    ASSUME Typed, NEW c \in Consumer, Return(c)
    PROVE  \A e \in Entry : InFlight(e) => InFlight(e)'
<1> SUFFICES ASSUME NEW e \in Entry, InFlight(e) PROVE InFlight(e)'
  OBVIOUS
<1> USE DEF Typed, TypeOK
<1>1. CASE queue[e] > 0
  <2>1. queue'[e] > 0
    BY <1>1 DEF Return
  <2> QED
    BY <2>1 DEF InFlight
<1>2. ASSUME NEW d \in attached, delivery[d] = e PROVE InFlight(e)'
  <2>1. CASE d = c
    <3>1. queue'[e] > 0
      BY <1>2, <2>1 DEF Return
    <3> QED
      BY <3>1 DEF InFlight
  <2>2. CASE d # c
    BY <1>2, <2>2 DEF Return, Done, InFlight
  <2> QED
    BY <2>1, <2>2
<1> QED
  BY <1>1, <1>2 DEF InFlight

(* A message whose entry is not current may go. *)
LEMMA DropKeeps ==
    ASSUME DeliveryInv, Typed', NEW c \in Consumer, Acknowledge(c),
           gaps' = 0 => gaps = 0 /\ ~Current(delivery[c]),
           UNCHANGED <<taskVars, activeRuns, outboxVars, publisherVars>>
    PROVE  DeliveryInv'
<1>1. Typed /\ FreshRows /\ SentIsInFlight
  BY DEF DeliveryInv
<1>2. FreshRows'
  BY <1>1 DEF FreshRows, taskVars, outboxVars
<1>3. ASSUME NEW e \in Entry, ((row[e] = "PUBLISHED" \/ Sent(e)) /\ Current(e))'
      PROVE  /\ (row[e] = "PUBLISHED" \/ Sent(e)) /\ Current(e)
             /\ gaps' = 0 /\ InFlight(e) => InFlight(e)'
  <2>1. (row[e] = "PUBLISHED" \/ Sent(e)) /\ Current(e)
    BY <1>3 DEF Sent, HoldsRow, Current, taskVars, outboxVars, publisherVars
  <2> QED
    BY <1>1, <2>1, AcknowledgeFlight
<1>4. SentIsInFlight'
  BY <1>1, <1>3, FlightKept
<1> QED
  BY <1>2, <1>4, DoneKeeps DEF Acknowledge

(* So may a message that the broker has again. *)
LEMMA ReturnKeeps ==
    ASSUME DeliveryInv, Typed', NEW c \in Consumer, Return(c), gaps' = gaps,
           UNCHANGED <<taskVars, activeRuns, outboxVars, publisherVars>>
    PROVE  DeliveryInv'
<1>1. Typed /\ FreshRows /\ SentIsInFlight
  BY DEF DeliveryInv
<1>2. FreshRows'
  BY <1>1 DEF FreshRows, taskVars, outboxVars
<1>3. \A e \in Entry : ((row[e] = "PUBLISHED" \/ Sent(e)) /\ Current(e))'
          => (row[e] = "PUBLISHED" \/ Sent(e)) /\ Current(e)
  BY DEF Sent, HoldsRow, Current, taskVars, outboxVars, publisherVars
<1>4. SentIsInFlight'
  BY <1>1, <1>3, ReturnFlight, FlightKept
<1> QED
  BY <1>2, <1>4, DoneKeeps DEF Return

(* So may one whose row is released for a new publication. *)
LEMMA DeferKeeps ==
    ASSUME DeliveryInv, Typed', NEW c \in Consumer, Acknowledge(c) \/ Return(c),
           Deferrable(delivery[c]), phase[c] = "DEFERRING", Release({delivery[c]}), gaps' = gaps,
           UNCHANGED <<taskVars, activeRuns, publisherVars>>
    PROVE  DeliveryInv'
<1>1. Typed /\ FreshRows /\ SentIsInFlight
  BY DEF DeliveryInv
<1>2. delivery[c] \in Entry
  BY <1>1 DEF Typed, TypeOK
<1>3. \A e \in Entry \ {delivery[c]} : InFlight(e) => InFlight(e)'
  BY <1>1, AcknowledgeFlight, ReturnFlight
<1>4. FreshRows' /\ SentIsInFlight'
  BY <1>1, <1>2, <1>3, ReleaseKeeps DEF Deferrable, publisherVars
<1>5. Done(c)
  BY DEF Acknowledge, Return
<1> QED
  BY <1>4, <1>5, DoneKeeps

LEMMA ConsumerDelivery ==
    ASSUME DeliveryInv, Typed',
           \/ \E e \in Entry : Delivered(e) \/ LoseMessage(e)
           \/ \E c \in Consumer :
                 ConsumerStep(c) \/ DeferUnanswered(c) \/ BreakOff(c) \/ Disconnect(c)
    PROVE  DeliveryInv'
<1>0. Typed /\ FreshRows /\ SentIsInFlight /\ ExecutionInv
  BY DEF DeliveryInv, ExecutionInv
<1>1. ASSUME NEW c \in Consumer, NEW e \in Entry, Receive(c, e) PROVE DeliveryInv'
  <2>1. FreshRows' /\ RunsActive'
    BY <1>1 DEF DeliveryInv, Receive, FreshRows, RunsActive, taskVars, outboxVars, counters
  <2>2. \A d \in Consumer : phase'[d] \in {"EXECUTING", "SETTLED"}
            => phase[d] \in {"EXECUTING", "SETTLED"} /\ delivery'[d] = delivery[d]
    BY <1>0, <1>1 DEF Receive, Typed, TypeOK
  <2>3. \A t \in Task : revision'[t] >= revision[t]
    BY <1>0, <1>1, DispatchAssumption DEF DispatchAssumption, Receive, Typed, TypeOK, taskVars
  <2>4. ExecutionInv'
    BY <1>0, <2>2, <2>3, ExecutionsKept
  <2>5. InFlight(e)'
    BY <1>0, <1>1 DEF Receive, InFlight, Typed, TypeOK
  <2>6. \A k \in Entry : k # e /\ InFlight(k) => InFlight(k)'
    BY <1>0, <1>1 DEF Receive, InFlight, Typed, TypeOK
  <2>7. SentIsInFlight'
    BY <1>0, <1>1, <2>5, <2>6
    DEF Receive, SentIsInFlight, Sent, HoldsRow, Current, taskVars, outboxVars, publisherVars, counters
  <2> QED
    BY <2>1, <2>4, <2>7 DEF DeliveryInv, ExecutionInv
<1>2. ASSUME NEW c \in Consumer, ClaimById(c) PROVE DeliveryInv'
  <2> DEFINE k == delivery[c]
  <2>1. k \in Entry /\ k[1] \in Task /\ k[2] \in Nat
    BY <1>0, <1>2, DispatchAssumption DEF DispatchAssumption, ClaimById, Typed, TypeOK, Entry
  <2>2. /\ revision[k[1]] = k[2]
        /\ task' = [task EXCEPT ![k[1]] = "RUNNING"]
        /\ revision' = [revision EXCEPT ![k[1]] = @ + 1]
        /\ phase' = [phase EXCEPT ![c] = "EXECUTING"]
        /\ UNCHANGED <<activeRuns, outboxVars, publisherVars, queue, delivery, attached, counters>>
    BY <1>2 DEF ClaimById, Awaiting, Current
  <2> HIDE DEF k
  <2>3. \A t \in Task : revision[t] \in Nat /\ revision'[t] >= revision[t]
    BY <1>0, <2>1, <2>2, DispatchAssumption DEF DispatchAssumption, Typed, TypeOK
  <2>4. \A d \in Consumer : phase[d] \in {"EXECUTING", "SETTLED"} =>
            /\ delivery[d] \in Entry /\ delivery[d][1] \in Task /\ delivery[d][2] \in Nat
            /\ delivery[d][2] < revision[delivery[d][1]]
    BY <1>0, DispatchAssumption DEF DispatchAssumption, ExecutionInv, ExecutedIsPast, Typed, TypeOK, Entry
  <2>5. \A d \in Consumer : phase'[d] \in {"EXECUTING", "SETTLED"} =>
            d = c \/ phase[d] \in {"EXECUTING", "SETTLED"}
    BY <1>0, <2>2 DEF Typed, TypeOK
  <2>6. k[2] < revision'[k[1]]
    BY <1>0, <2>1, <2>2, <2>3 DEF Typed, TypeOK
  <2>7. ExecutedIsPast'
    <3> SUFFICES ASSUME NEW d \in Consumer, phase'[d] \in {"EXECUTING", "SETTLED"}
                 PROVE  delivery[d][2] < revision'[delivery[d][1]]
      BY <2>2 DEF ExecutedIsPast
    <3>1. CASE d = c
      BY <2>6, <3>1 DEF k
    <3>2. CASE d # c
      <4>1. /\ delivery[d][1] \in Task /\ delivery[d][2] \in Nat
            /\ delivery[d][2] < revision[delivery[d][1]]
        BY <2>4, <2>5, <3>2
      <4>2. revision'[delivery[d][1]] \in Nat
        BY <4>1, DispatchAssumption DEF DispatchAssumption, Typed, TypeOK
      <4> QED
        BY <2>3, <4>1, <4>2
    <3> QED
      BY <3>1, <3>2
  <2>8. OneExecutionPerRevision'
    <3>1. \A d \in Consumer : phase[d] \in {"EXECUTING", "SETTLED"} => delivery[d] # k
      BY <2>1, <2>2, <2>4
    <3> QED
      BY <1>0, <2>2, <2>5, <3>1 DEF ExecutionInv, OneExecutionPerRevision, k
  <2>9. FreshRows' /\ RunsActive'
    <3>1. \A e \in Entry : e[1] \in Task /\ e[2] \in Nat
      BY DispatchAssumption DEF DispatchAssumption, Entry
    <3>2. \A t \in Task : revision'[t] \in Nat
      BY DispatchAssumption DEF DispatchAssumption, Typed, TypeOK
    <3> QED
      BY <1>0, <2>2, <2>3, <3>1, <3>2 DEF DeliveryInv, FreshRows, RunsActive, outboxVars, counters
  <2>10. \A e \in Entry : Current(e)' => Current(e)
    BY <1>0, <2>1, <2>2 DEF Current, Typed, TypeOK, Entry
  <2>11. SentIsInFlight'
    BY <1>0, <2>2, <2>10 DEF SentIsInFlight, Sent, HoldsRow, InFlight, outboxVars, publisherVars, counters
  <2> QED
    BY <2>7, <2>8, <2>9, <2>11 DEF DeliveryInv
<1>3. ASSUME NEW c \in Consumer, ClaimDeferred(c) PROVE DeliveryInv'
  <2>1. \A d \in Consumer : phase'[d] \in {"EXECUTING", "SETTLED"} => phase'[d] = phase[d]
    BY <1>0, <1>3 DEF ClaimDeferred, Typed, TypeOK
  <2> QED
    BY <1>3, <2>1
    DEF ClaimDeferred, DeliveryInv, FreshRows, ExecutedIsPast, OneExecutionPerRevision, RunsActive,
        SentIsInFlight, Sent, HoldsRow, Current, InFlight, taskVars, outboxVars, publisherVars, counters
<1>4. ASSUME NEW c \in Consumer, ClaimStale(c) PROVE DeliveryInv'
  <2>1. gaps = 0 => ~Current(delivery[c])
    BY <1>0, <1>4, DispatchAssumption
    DEF DispatchAssumption, DeliveryInv, RunsActive, ClaimStale, Awaiting, Typed, TypeOK, Entry
  <2> QED
    BY <1>4, <2>1, DropKeeps DEF ClaimStale, counters
<1>5. ASSUME NEW c \in Consumer, ClaimSkipped(c) PROVE DeliveryInv'
  BY <1>0, <1>5, DropKeeps DEF ClaimSkipped, Gap, Typed, TypeOK
<1>6. ASSUME NEW c \in Consumer, DeferDispatch(c) \/ DeferUnanswered(c) PROVE DeliveryInv'
  BY <1>6, DeferKeeps DEF DeferDispatch, DeferUnanswered, Fault, counters
<1>7. ASSUME NEW c \in Consumer, DeferRefused(c) \/ SettleRejected(c) \/ BreakOff(c) PROVE DeliveryInv'
  BY <1>7, ReturnKeeps DEF DeferRefused, SettleRejected, BreakOff, Fault, counters
<1>8. ASSUME NEW c \in Consumer, NEW s \in {"WAITING", "RUNNABLE", "ENDED"}, Settle(c, s)
      PROVE  DeliveryInv'
  <2> DEFINE t == delivery[c][1]
  <2>1. t \in Task
    BY <1>0, <1>8 DEF Typed, TypeOK, Settle, Entry
  <2> HIDE DEF t
  <2>2. /\ Move(t, s)
        /\ phase[c] = "EXECUTING"
        /\ phase' = [phase EXCEPT ![c] = "SETTLED"]
        /\ UNCHANGED <<activeRuns, publisherVars, queue, delivery, attached, counters>>
    BY <1>8 DEF Settle, t
  <2>3. FreshRows' /\ SentIsInFlight' /\ \A u \in Task : revision'[u] >= revision[u]
    BY <1>0, <2>1, <2>2, MoveKeeps DEF counters
  <2>4. \A d \in Consumer : phase'[d] \in {"EXECUTING", "SETTLED"} => phase[d] \in {"EXECUTING", "SETTLED"}
    BY <1>0, <2>2 DEF Typed, TypeOK
  <2>5. ExecutionInv'
    BY <1>0, <2>2, <2>3, <2>4, ExecutionsKept
  <2> QED
    BY <2>2, <2>3, <2>5 DEF DeliveryInv, ExecutionInv, RunsActive, counters
<1>9. ASSUME NEW c \in Consumer, AcknowledgeSettled(c) PROVE DeliveryInv'
  <2>1. delivery[c] \in Entry /\ delivery[c][2] < revision[delivery[c][1]]
    BY <1>0, <1>9 DEF AcknowledgeSettled, ExecutionInv, ExecutedIsPast, Typed, TypeOK
  <2>2. revision[delivery[c][1]] \in Nat
    BY <1>0, <2>1, DispatchAssumption DEF DispatchAssumption, Typed, TypeOK, Entry
  <2>3. ~Current(delivery[c])
    BY <2>1, <2>2 DEF Current
  <2> QED
    BY <1>9, <2>3, DropKeeps DEF AcknowledgeSettled, counters
<1>10. ASSUME NEW c \in Consumer, Disconnect(c) PROVE DeliveryInv'
  <2>1. \A e \in Entry : InFlight(e) => InFlight(e)'
    <3>1. \A e \in Entry : queue'[e] >= queue[e] /\ (e = delivery[c] => queue'[e] > 0)
      BY <1>0, <1>10 DEF Disconnect, Typed, TypeOK
    <3>2. \A e \in Entry : queue[e] \in Nat /\ queue'[e] \in Nat
      BY <1>0 DEF Typed, TypeOK
    <3> QED
      BY <1>10, <3>1, <3>2 DEF Disconnect, InFlight
  <2> QED
    BY <1>10, <2>1
    DEF Disconnect, Fault, DeliveryInv, FreshRows, ExecutedIsPast, OneExecutionPerRevision, RunsActive,
        SentIsInFlight, Sent, HoldsRow, Current, taskVars, outboxVars, publisherVars
<1>11. ASSUME NEW e \in Entry, LoseMessage(e) PROVE DeliveryInv'
  <2>1. gaps' # 0
    BY <1>0, <1>11 DEF LoseMessage, Gap, Typed, TypeOK
  <2> QED
    BY <1>11, <2>1
    DEF LoseMessage, DeliveryInv, FreshRows, ExecutedIsPast, OneExecutionPerRevision, RunsActive,
        SentIsInFlight, taskVars, outboxVars, consumerVars
<1> QED
  BY <1>1, <1>2, <1>3, <1>4, <1>5, <1>6, <1>7, <1>8, <1>9, <1>10, <1>11 DEF ConsumerStep, Delivered

LEMMA StutterDelivery == DeliveryInv /\ UNCHANGED vars => DeliveryInv'
BY StutterTyped
DEF DeliveryInv, FreshRows, ExecutedIsPast, OneExecutionPerRevision, RunsActive, SentIsInFlight, Sent, HoldsRow,
    Current, InFlight, vars, taskVars, outboxVars, publisherVars, consumerVars, counters

LEMMA StepDelivery == DeliveryInv /\ [Next]_vars => DeliveryInv'
<1> SUFFICES ASSUME DeliveryInv, [Next]_vars PROVE DeliveryInv'
  OBVIOUS
<1>1. Typed'
  BY StepTyped DEF DeliveryInv
<1> QED
  BY <1>1, TaskDelivery, PublisherDelivery, ConsumerDelivery, StutterDelivery DEF Next, Disturbance

(* Unless messages are lost or runs interrupted, a runnable task whose     *)
(* outbox row says PUBLISHED has a message in the broker or in the hands   *)
(* of a worker (confirmDispatch, deferPublishedDispatch, nack).            *)
THEOREM PublishedStaysInFlight == Spec => []PublishedIsInFlight
<1>1. DeliveryInv => PublishedIsInFlight
  BY DEF DeliveryInv, SentIsInFlight, PublishedIsInFlight
<1> QED
  BY <1>1, InitDelivery, StepDelivery, PTL DEF Spec

(* However often the message of a task is delivered, claimById lets one    *)
(* delivery execute a revision.                                            *)
THEOREM RevisionsRunOnce == Spec => []OneExecutionPerRevision
<1>1. DeliveryInv => OneExecutionPerRevision
  BY DEF DeliveryInv
<1> QED
  BY <1>1, InitDelivery, StepDelivery, PTL DEF Spec

-----------------------------------------------------------------------------
(* The scheduler that the dispatch implements *)

(* A task that is not held back has room in its run and in the pool. *)
LEMMA RoomFound ==
    ASSUME NEW t \in Task, ~Saturated(t)
    PROVE  Scheduler!HasRoom(t)
<1>1. IsFiniteSet(Running) /\ IsFiniteSet({u \in Running : RunOf[u] = RunOf[t]})
  BY DispatchAssumption, FS_Subset DEF DispatchAssumption, Running
<1>2. Cardinality(Running) \in Nat /\ Cardinality({u \in Running : RunOf[u] = RunOf[t]}) \in Nat
  BY <1>1, FS_CardinalityType
<1>3. /\ ~(Cardinality({u \in Running : RunOf[u] = RunOf[t]}) >= MaxPerRun)
      /\ ~(Cardinality(Running) >= MaxActivePool)
  BY DEF Saturated
<1>4. /\ Cardinality({u \in Running : RunOf[u] = RunOf[t]}) < MaxPerRun
      /\ Cardinality(Running) < MaxActivePool
  BY <1>2, <1>3, DispatchAssumption DEF DispatchAssumption
<1>5. \A s : Scheduler!Cardinality(s) = Cardinality(s)
  BY DEF Scheduler!Cardinality, Cardinality
<1>6. Scheduler!Running = Running
  BY DEF Scheduler!Running, Running
<1> QED
  BY <1>4, <1>5, <1>6 DEF Scheduler!HasRoom

LEMMA StepSimulates ==
    ASSUME Typed, [Next]_vars
    PROVE  [Scheduler!Next]_(Scheduler!vars)
<1> USE DEF Scheduler!Next, Scheduler!vars
<1>1. ASSUME NEW t \in Task, BecomeRunnable(t) PROVE Scheduler!Announce(t)
  BY <1>1 DEF BecomeRunnable, Move, Scheduler!Announce
<1>2. ASSUME NEW t \in Task, RecoverStale(t) PROVE Scheduler!Finish(t)
  BY <1>2 DEF RecoverStale, Move, Scheduler!Finish
<1>3. ASSUME NEW c \in Consumer, NEW s \in {"WAITING", "RUNNABLE", "ENDED"}, Settle(c, s)
      PROVE  \E t \in Task : Scheduler!Finish(t)
  <2>1. delivery[c][1] \in Task
    BY <1>3 DEF Settle, Typed, TypeOK, Entry
  <2> QED
    BY <1>3, <2>1 DEF Settle, Move, Scheduler!Finish
<1>4. ASSUME NEW r \in Run, InterruptRun(r) \/ ResumeRun(r) PROVE Scheduler!Switch(r)
  BY <1>4 DEF InterruptRun, ResumeRun, Scheduler!Switch, taskVars
<1>5. ASSUME NEW c \in Consumer, ClaimById(c) PROVE \E t \in Task : Scheduler!Start(t)
  <2>1. delivery[c][1] \in Task
    BY <1>5 DEF ClaimById, Typed, TypeOK, Entry
  <2> QED
    BY <1>5, <2>1, RoomFound DEF ClaimById, Awaiting, Current, Scheduler!Start
<1>6. ASSUME \/ ReconcileSession
             \/ \E p \in Publisher :
                   PublisherStep(p) \/ CrashPublisher(p) \/ \E e \in Entry : FailDispatch(p, e)
             \/ \E e \in Entry : TimePasses(e) \/ Delivered(e) \/ LoseMessage(e)
      PROVE  UNCHANGED <<task, activeRuns>>
  BY <1>6
  DEF ReconcileSession, PublisherStep, Reconcile, ClaimDispatchBatch, Publish, ConfirmDispatch, LoseLease,
      CrashPublisher, FailDispatch, TimePasses, Delivered, Receive, LoseMessage, taskVars
<1>7. ASSUME NEW c \in Consumer,
             \/ ClaimDeferred(c) \/ ClaimStale(c) \/ ClaimSkipped(c)
             \/ DeferDispatch(c) \/ DeferRefused(c) \/ DeferUnanswered(c)
             \/ SettleRejected(c) \/ AcknowledgeSettled(c) \/ BreakOff(c) \/ Disconnect(c)
      PROVE  UNCHANGED <<task, activeRuns>>
  BY <1>7
  DEF ClaimDeferred, ClaimStale, ClaimSkipped, DeferDispatch, DeferRefused, DeferUnanswered,
      SettleRejected, AcknowledgeSettled, BreakOff, Disconnect, taskVars
<1>8. ASSUME UNCHANGED vars PROVE UNCHANGED <<task, activeRuns>>
  BY <1>8 DEF vars, taskVars
<1> QED
  BY <1>1, <1>2, <1>3, <1>4, <1>5, <1>6, <1>7, <1>8 DEF Next, Disturbance, ConsumerStep

(* The safety part of ImplementsScheduler: outbox, publishers, broker and  *)
(* consumers start a task only when it is runnable, its run active and     *)
(* room left (claimById), and give it up only to be run again or for good. *)
THEOREM StartsWithinLimits == Spec => Scheduler!Spec
<1>1. Init => Scheduler!Init
  BY DEF Init, Scheduler!Init
<1>2. Typed /\ [Next]_vars => [Scheduler!Next]_(Scheduler!vars)
  BY StepSimulates
<1> QED
  BY <1>1, <1>2, InitTyped, StepTyped, PTL DEF Spec, Scheduler!Spec

=============================================================================
