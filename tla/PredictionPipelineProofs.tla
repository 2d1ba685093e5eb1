----------------------- MODULE PredictionPipelineProofs -----------------------
(***************************************************************************)
(* Machine-checked proofs about PredictionPipeline, for every set of       *)
(* predictions, workers and triggers, every prefetch limit, every          *)
(* MaxRetries and every budget.                                            *)
(***************************************************************************)
EXTENDS PredictionPipeline, FiniteSetTheorems, TLAPS

-----------------------------------------------------------------------------
(* Slots of a worker are finitely many, so what Requeue counts is a number. *)
LEMMA SlotsOfFinite ==
  ASSUME NEW w \in Workers, NEW S \in SUBSET SlotsOf(w)
  PROVE  /\ IsFiniteSet(S)
         /\ Cardinality(S) \in Nat
         /\ S # {} => Cardinality(S) > 0
<1>1. IsFiniteSet({w}) /\ IsFiniteSet(1 .. Prefetch)
  <2>1. 1 \in Int /\ Prefetch \in Int
    BY WorkersAssumption
  <2>2. IsFiniteSet(1 .. Prefetch)
    BY ONLY <2>1, FS_Interval
  <2> QED BY <2>2, FS_Singleton
<1>2. IsFiniteSet(SlotsOf(w))
  BY <1>1, FS_Product DEF SlotsOf
<1>3. IsFiniteSet(S) /\ Cardinality(S) \in Nat
  BY <1>2, FS_Subset, FS_CardinalityType
<1>4. S # {} => Cardinality(S) > 0
  BY <1>3, FS_EmptySet
<1> QED BY <1>3, <1>4

(* All slots are finitely many, so handlers in some step can be counted. *)
LEMMA SlotsFinite ==
  ASSUME NEW S \in SUBSET Slots
  PROVE  IsFiniteSet(S) /\ Cardinality(S) \in Nat
<1>1. 1 \in Int /\ Prefetch \in Int
  BY WorkersAssumption
<1>2. IsFiniteSet(1 .. Prefetch)
  BY ONLY <1>1, FS_Interval
<1>3. IsFiniteSet(Slots)
  BY <1>2, WorkersAssumption, FS_Product DEF Slots
<1> QED BY <1>3, FS_Subset, FS_CardinalityType

(* What SlotsOf and Unacked select. *)
LEMMA SlotFacts ==
  ASSUME NEW w \in Workers
  PROVE  /\ SlotsOf(w) \subseteq Slots
         /\ \A s \in Slots : s[1] \in Workers
         /\ \A s \in Slots : s \in SlotsOf(w) <=> s[1] = w
         /\ Unacked(w) \subseteq SlotsOf(w)
  BY DEF SlotsOf, Slots, Unacked

(* Requeue makes every unacknowledged message of w ready again, takes no    *)
(* ready message away and invents none.                                     *)
LEMMA RequeueFacts ==
  ASSUME TypeOK, NEW w \in Workers, Requeue(w)
  PROVE  /\ ready' \in [Job -> Nat]
         /\ \A j \in Job : ready'[j] >= ready[j]
         /\ \A s \in Unacked(w) : job[s] \in Job /\ ready'[job[s]] > 0
         /\ \A j \in Job : ready'[j] > 0 =>
               ready[j] > 0 \/ \E s \in Unacked(w) : job[s] = j
<1> DEFINE Held(j) == {s \in Unacked(w) : job[s] = j}
<1>1. ASSUME NEW j \in Job
      PROVE  Cardinality(Held(j)) \in Nat /\ (Held(j) # {} => Cardinality(Held(j)) > 0)
  <2>1. Held(j) \in SUBSET SlotsOf(w)
    BY SlotFacts
  <2> QED BY <2>1, SlotsOfFinite
<1>2. ready' = [j \in Job |-> ready[j] + Cardinality(Held(j))]
  BY DEF Requeue
<1>3. ready \in [Job -> Nat]
  BY DEF TypeOK
<1> HIDE DEF Held
<1>4. ready' \in [Job -> Nat] /\ \A j \in Job : ready'[j] >= ready[j]
  BY <1>1, <1>2, <1>3
<1>5. ASSUME NEW s \in Unacked(w)
      PROVE  job[s] \in Job /\ ready'[job[s]] > 0
  <2>1. job[s] \in Job
    BY SlotFacts, NoJobAssumption DEF TypeOK, Unacked
  <2>2. s \in Held(job[s])
    BY DEF Held
  <2> QED BY <1>1, <1>2, <1>3, <2>1, <2>2
<1>6. ASSUME NEW j \in Job, ready'[j] > 0
      PROVE  ready[j] > 0 \/ \E s \in Unacked(w) : job[s] = j
  <2>1. CASE Held(j) = {}
    BY <1>2, <1>3, <1>6, <2>1, FS_EmptySet
  <2>2. CASE Held(j) # {}
    BY <2>2 DEF Held
  <2> QED BY <2>1, <2>2
<1> QED BY <1>4, <1>5, <1>6

(* Duplicated only ever raises the history counter, for held predictions.   *)
LEMMA DuplicatedFacts ==
  ASSUME TypeOK, NEW w \in Workers, NEW S \in SUBSET Unacked(w), Duplicated(S)
  PROVE  /\ copies' \in [Predictions -> Nat]
         /\ \A p \in Predictions : copies'[p] >= copies[p]
         /\ \A p \in Predictions : copies'[p] > 0 =>
               copies[p] > 0 \/ \E s \in S : job[s].pred = p
<1>1. ASSUME NEW p \in Predictions
      PROVE  Cardinality(HoldersOf(S, p)) \in Nat
  <2>1. HoldersOf(S, p) \in SUBSET SlotsOf(w)
    BY SlotFacts DEF HoldersOf
  <2> QED BY <2>1, SlotsOfFinite
<1>2. copies' = [p \in Predictions |-> copies[p] + Cardinality(HoldersOf(S, p))]
  BY DEF Duplicated
<1>3. copies \in [Predictions -> Nat]
  BY DEF TypeOK
<1>4. copies' \in [Predictions -> Nat] /\ \A p \in Predictions : copies'[p] >= copies[p]
  BY <1>1, <1>2, <1>3
<1>5. ASSUME NEW p \in Predictions, copies'[p] > 0
      PROVE  copies[p] > 0 \/ \E s \in S : job[s].pred = p
  <2>1. CASE HoldersOf(S, p) = {}
    BY <1>2, <1>3, <1>5, <2>1, FS_EmptySet
  <2>2. CASE HoldersOf(S, p) # {}
    BY <2>2 DEF HoldersOf
  <2> QED BY <2>1, <2>2
<1> QED BY <1>4, <1>5

(* Abandon only adds to what is on its way, and only for handlers of the    *)
(* prediction that were saving.                                             *)
LEMMA AbandonFacts ==
  ASSUME TypeOK, NEW S \in SUBSET Slots, Abandon(S)
  PROVE  /\ inflight' \in [Predictions -> Nat] /\ lateCounts' \in Nat
         /\ \A p \in Predictions : inflight'[p] > 0 =>
               inflight[p] > 0 \/ \E s \in S : pc[s] = "save" /\ job[s].pred = p
<1> DEFINE Of(p) == HoldersOf({s \in S : pc[s] = "save"}, p)
<1>1. ASSUME NEW p \in Predictions
      PROVE  Cardinality(Of(p)) \in Nat /\ (Of(p) = {} => Cardinality(Of(p)) = 0)
  <2>1. Of(p) \in SUBSET Slots
    BY DEF HoldersOf
  <2> QED BY <2>1, SlotsFinite, FS_EmptySet
<1>2. {s \in S : pc[s] = "incr"} \in SUBSET Slots
  OBVIOUS
<1>3. Cardinality({s \in S : pc[s] = "incr"}) \in Nat
  BY <1>2, SlotsFinite
<1>4. /\ inflight' = [p \in Predictions |-> inflight[p] + Cardinality(Of(p))]
      /\ lateCounts' = lateCounts + Cardinality({s \in S : pc[s] = "incr"})
  BY DEF Abandon
<1>5. inflight \in [Predictions -> Nat] /\ lateCounts \in Nat
  BY DEF TypeOK
<1>6. \A p \in Predictions : Of(p) # {} => \E s \in S : pc[s] = "save" /\ job[s].pred = p
  BY DEF HoldersOf
<1> HIDE DEF Of
<1>7. inflight' \in [Predictions -> Nat]
  BY <1>1, <1>4, <1>5
<1>8. lateCounts' \in Nat
  BY <1>3, <1>4, <1>5
<1>9. ASSUME NEW p \in Predictions, inflight'[p] > 0, ~(inflight[p] > 0)
      PROVE  \E s \in S : pc[s] = "save" /\ job[s].pred = p
  BY <1>1, <1>4, <1>5, <1>6, <1>9
<1> QED BY <1>7, <1>8, <1>9

-----------------------------------------------------------------------------
(* Type correctness: every step of the API process, of a handler, of the    *)
(* broker and every failure keeps the state well formed; in particular a    *)
(* slot holds a message exactly while its handler runs.                     *)
LEMMA InitTypeOK == Init => TypeOK
  BY BudgetAssumption, NoJobAssumption DEF Init, TypeOK, TriggerPcs, HandlerPcs

LEMMA TriggerTypeOK ==
  ASSUME TypeOK, NEW t \in Triggers, RunTrigger(t)
  PROVE  TypeOK'
<1> USE DEF TypeOK, TriggerPcs, TriggerStep, brokerVars, budgetVars, lateVars, ResetProcessed
<1>1. CASE SelectUnprocessed(t)
  BY <1>1 DEF SelectUnprocessed
<1>2. CASE ReadTotal(t)
  BY <1>2 DEF ReadTotal
<1>3. CASE SetTotal(t)
  <2>1. IsFiniteSet(todo[t])
    BY PredictionsAssumption, FS_Subset
  <2>2. Cardinality(todo[t]) \in Nat
    BY <2>1, FS_CardinalityType
  <2> QED BY <1>3, <2>2 DEF SetTotal
<1>4. CASE SetProcessed(t)
  BY <1>4 DEF SetProcessed
<1>5. ASSUME NEW p \in Predictions, PublishJob(t, p)
      PROVE  TypeOK'
  <2>1. [pred |-> p, retry |-> 0] \in Job
    BY MaxRetriesAssumption DEF Job
  <2> QED BY <1>5, <2>1 DEF PublishJob
<1>6. CASE FinishTrigger(t)
  BY <1>6 DEF FinishTrigger
<1>7. CASE FailTrigger(t)
  BY <1>7 DEF FailTrigger
<1> QED BY <1>1, <1>2, <1>3, <1>4, <1>5, <1>6, <1>7 DEF RunTrigger

(* A slot that runs a handler holds a job, and its worker is a worker.      *)
LEMMA RunningSlot ==
  ASSUME TypeOK, NEW s \in Slots, pc[s] # "idle"
  PROVE  job[s] \in Job /\ job[s].pred \in Predictions /\ job[s].retry \in 0 .. (MaxRetries - 1)
  BY NoJobAssumption DEF TypeOK, Job

LEMMA RestartTypeOK ==
  ASSUME TypeOK, NEW w \in Workers, Restart(w), crashes' \in Nat
  PROVE  TypeOK'
<1>1. ready' \in [Job -> Nat]
  BY RequeueFacts DEF Restart
<1>2. copies' \in [Predictions -> Nat]
  <2>1. {s \in Unacked(w) : pc[s] = "ackOriginal"} \in SUBSET Unacked(w)
    OBVIOUS
  <2> QED BY <2>1, DuplicatedFacts DEF Restart
<1>3. conn' \in [Workers -> BOOLEAN]
  BY DEF Restart, TypeOK
<1>4. /\ pc' \in [Slots -> HandlerPcs]
      /\ job' \in [Slots -> Job \cup {NoJob}]
      /\ \A s \in Slots : job'[s] = NoJob <=> pc'[s] = "idle"
  BY DEF Restart, TypeOK, HandlerPcs
<1>5. inflight' \in [Predictions -> Nat] /\ lateCounts' \in Nat
  <2>1. SlotsOf(w) \in SUBSET Slots
    BY SlotFacts
  <2> QED BY <2>1, AbandonFacts DEF Restart
<1> QED BY <1>1, <1>2, <1>3, <1>4, <1>5 DEF Restart, TypeOK, adminVars

LEMMA HandlerTypeOK ==
  ASSUME TypeOK, NEW s \in Slots, RunHandler(s)
  PROVE  TypeOK'
<1>1. CASE CheckExisting(s)
  BY <1>1 DEF CheckExisting, HandlerStep, TypeOK, HandlerPcs, adminVars, brokerVars, budgetVars, lateVars
<1>2. CASE ScorePrediction(s)
  BY <1>2 DEF ScorePrediction, HandlerStep, TypeOK, HandlerPcs, adminVars, brokerVars, budgetVars, lateVars
<1>3. CASE SaveResult(s)
  BY <1>3, RunningSlot
     DEF SaveResult, HandlerStep, TypeOK, HandlerPcs, adminVars, brokerVars, budgetVars, lateVars
<1>4. CASE CountProcessed(s)
  BY <1>4 DEF CountProcessed, HandlerStep, TypeOK, HandlerPcs, adminVars, brokerVars, budgetVars, lateVars
<1>5. CASE AckJob(s)
  BY <1>5 DEF AckJob, FreeSlot, HandlerStep, TypeOK, HandlerPcs, adminVars, brokerVars, budgetVars, lateVars
<1>6. CASE Republish(s)
  <2>1. pc[s] # "idle" /\ RetryCount(s) < MaxRetries
    BY <1>6 DEF Republish, HandlerStep
  <2>2. [pred |-> job[s].pred, retry |-> RetryCount(s)] \in Job
    BY <2>1, RunningSlot, MaxRetriesAssumption DEF RetryCount, Job
  <2> QED BY <1>6, <2>2
          DEF Republish, HandlerStep, TypeOK, HandlerPcs, adminVars, budgetVars, lateVars
<1>7. CASE AckOriginal(s)
  BY <1>7
     DEF AckOriginal, FreeSlot, HandlerStep, TypeOK, HandlerPcs, adminVars, brokerVars, budgetVars, lateVars
<1>8. CASE DeadLetter(s)
  BY <1>8, RunningSlot
     DEF DeadLetter, FreeSlot, HandlerStep, TypeOK, HandlerPcs, adminVars, budgetVars, lateVars
<1>9. CASE ChannelClosed(s)
  <2>1. s[1] \in Workers /\ crashes' \in Nat
    BY <1>9 DEF ChannelClosed, Slots, TypeOK
  <2> QED BY <1>9, <2>1, RestartTypeOK DEF ChannelClosed
<1> QED BY <1>1, <1>2, <1>3, <1>4, <1>5, <1>6, <1>7, <1>8, <1>9 DEF RunHandler

LEMMA StepTypeOK == TypeOK /\ [Next]_vars => TypeOK'
<1> SUFFICES ASSUME TypeOK, [Next]_vars
             PROVE  TypeOK'
  OBVIOUS
<1>1. ASSUME NEW p \in Predictions, CreatePrediction(p)
      PROVE  TypeOK'
  BY <1>1 DEF CreatePrediction, TypeOK, brokerVars, budgetVars, lateVars
<1>2. ASSUME NEW t \in Triggers, RunTrigger(t)
      PROVE  TypeOK'
  BY <1>2, TriggerTypeOK
<1>3. ASSUME NEW s \in Slots, NEW j \in Job, Deliver(s, j)
      PROVE  TypeOK'
  BY <1>3, NoJobAssumption
     DEF Deliver, HandlerStep, TypeOK, HandlerPcs, adminVars, budgetVars, lateVars
<1>4. ASSUME NEW s \in Slots, RunHandler(s)
      PROVE  TypeOK'
  BY <1>4, HandlerTypeOK
<1>5. ASSUME NEW s \in Slots, HandlerFault(s)
      PROVE  TypeOK'
  <2>1. inflight' \in [Predictions -> Nat] /\ lateCounts' \in Nat
    BY <1>5, AbandonFacts DEF HandlerFault
  <2> QED BY <1>5, <2>1, RunningSlot DEF HandlerFault, TypeOK, HandlerPcs, adminVars, brokerVars
<1>6. ASSUME NEW w \in Workers, Crash(w)
      PROVE  TypeOK'
  <2>1. crashes' \in Nat
    BY <1>6 DEF Crash, TypeOK
  <2> QED BY <1>6, <2>1, RestartTypeOK DEF Crash
<1>7. ASSUME NEW w \in Workers, Disconnect(w)
      PROVE  TypeOK'
  <2>1. ready' \in [Job -> Nat] /\ copies' \in [Predictions -> Nat]
    BY <1>7, RequeueFacts, DuplicatedFacts DEF Disconnect
  <2> QED BY <1>7, <2>1 DEF Disconnect, TypeOK, adminVars, lateVars
<1>8. CASE UNCHANGED vars
  BY <1>8 DEF vars, TypeOK
<1>9. ASSUME NEW p \in Predictions, LateInsert(p)
      PROVE  TypeOK'
  BY <1>9 DEF LateInsert, TypeOK, adminVars, brokerVars, budgetVars
<1>10. CASE LateCount
  BY <1>10 DEF LateCount, TypeOK, adminVars, brokerVars, budgetVars
<1>11. CASE Resend
  <2>1. \A t \in Triggers : Cardinality(todo[t]) \in Nat
    BY PredictionsAssumption, FS_Subset, FS_CardinalityType DEF TypeOK
  <2> QED BY <1>11, <2>1 DEF Resend, ResetProcessed, TypeOK, brokerVars
<1> QED BY <1>1, <1>2, <1>3, <1>4, <1>5, <1>6, <1>7, <1>8, <1>9, <1>10, <1>11 DEF Next, Rest

THEOREM TypeCorrect == Spec => []TypeOK
  BY InitTypeOK, StepTypeOK, PTL DEF Spec

-----------------------------------------------------------------------------
(* A handler about to acknowledge an unfailed job leaves a row behind: rows *)
(* are never removed, and "incr" and "ack" are reached past one.            *)
LEMMA RowBeforeAckStep ==
  ASSUME TypeOK, RowBeforeAck, [Next]_vars
  PROVE  RowBeforeAck'
<1> USE DEF RowBeforeAck
<1>1. ASSUME NEW p \in Predictions, CreatePrediction(p)
      PROVE  RowBeforeAck'
  BY <1>1 DEF CreatePrediction
<1>2. ASSUME NEW t \in Triggers, RunTrigger(t)
      PROVE  RowBeforeAck'
  BY <1>2 DEF RunTrigger, SelectUnprocessed, ReadTotal, SetTotal, SetProcessed, PublishJob,
              FinishTrigger, FailTrigger
<1>3. ASSUME NEW s \in Slots, NEW j \in Job, Deliver(s, j)
      PROVE  RowBeforeAck'
  BY <1>3 DEF Deliver, HandlerStep, TypeOK
<1>4. ASSUME NEW s \in Slots, CheckExisting(s) \/ ScorePrediction(s) \/ CountProcessed(s)
      PROVE  RowBeforeAck'
  BY <1>4 DEF CheckExisting, ScorePrediction, CountProcessed, HandlerStep, TypeOK
<1>5. ASSUME NEW s \in Slots, SaveResult(s)
      PROVE  RowBeforeAck'
  <2>1. pc[s] # "idle"
    BY <1>5 DEF SaveResult, HandlerStep
  <2>2. job' = job /\ \A r \in Slots : pc'[r] \in {"incr", "ack"} => r = s \/ pc[r] \in {"incr", "ack"}
    BY <1>5 DEF SaveResult, HandlerStep, TypeOK
  <2>3. /\ results'[job[s].pred] > 0
        /\ \A q \in Predictions : results'[q] >= results[q]
    BY <1>5, <2>1, RunningSlot DEF SaveResult, TypeOK
  <2>4. \A r \in Slots : pc[r] \in {"incr", "ack"} => job[r].pred \in Predictions
    BY RunningSlot
  <2>5. \A q \in Predictions : results[q] \in Nat /\ results'[q] \in Nat
    BY <1>5, <2>1, RunningSlot DEF SaveResult, TypeOK
  <2> QED BY <2>2, <2>3, <2>4, <2>5
<1>6. ASSUME NEW s \in Slots, AckJob(s) \/ Republish(s) \/ AckOriginal(s) \/ DeadLetter(s)
      PROVE  RowBeforeAck'
  BY <1>6 DEF AckJob, Republish, AckOriginal, DeadLetter, FreeSlot, HandlerStep, TypeOK
<1>7. ASSUME NEW w \in Workers, Restart(w)
      PROVE  RowBeforeAck'
  BY <1>7 DEF Restart, TypeOK
<1>8. ASSUME NEW s \in Slots, ChannelClosed(s)
      PROVE  RowBeforeAck'
  BY <1>7, <1>8 DEF ChannelClosed, Slots
<1>9. ASSUME NEW s \in Slots, HandlerFault(s)
      PROVE  RowBeforeAck'
  <2>1. pc[s] # "idle" /\ job' = job
    BY <1>9 DEF HandlerFault
  <2>2. \A r \in Slots : pc'[r] \in {"incr", "ack"} => pc[r] \in {"incr", "ack"}
    BY <1>9 DEF HandlerFault, TypeOK
  <2>3. results' = results
    BY <1>9 DEF HandlerFault
  <2> QED BY <2>1, <2>2, <2>3
<1>10. ASSUME NEW w \in Workers, Crash(w) \/ Disconnect(w)
       PROVE  RowBeforeAck'
  BY <1>7, <1>10 DEF Crash, Disconnect
<1>11. CASE UNCHANGED vars
  BY <1>11 DEF vars
<1>12. ASSUME NEW p \in Predictions, LateInsert(p)
       PROVE  RowBeforeAck'
  <2>1. pc' = pc /\ job' = job
    BY <1>12 DEF LateInsert
  <2>2. \A q \in Predictions : results[q] \in Nat /\ results'[q] \in Nat /\ results'[q] >= results[q]
    BY <1>12 DEF LateInsert, TypeOK
  <2>3. \A r \in Slots : pc[r] \in {"incr", "ack"} => job[r].pred \in Predictions
    BY RunningSlot
  <2> QED BY <2>1, <2>2, <2>3
<1>13. CASE LateCount \/ Resend
  BY <1>13 DEF LateCount, Resend
<1> QED BY <1>1, <1>2, <1>3, <1>4, <1>5, <1>6, <1>8, <1>9, <1>10, <1>11, <1>12, <1>13
        DEF Next, RunHandler, Rest

-----------------------------------------------------------------------------
(* Retry counts are paid for: a job's count is raised only by a handler in  *)
(* "retry", and a well-formed prediction's handler gets there by a failed   *)
(* call; redelivery changes no count.                                       *)
LEMMA RetriesStep ==
  ASSUME TypeOK, RetriesNeedFaults, [Next]_vars
  PROVE  RetriesNeedFaults'
<1> USE DEF RetriesNeedFaults, FailedCalls
<1>0. FailedCalls \in Int /\ FaultBudget \in Nat /\ faults \in Nat /\ resent \in Nat
  BY BudgetAssumption DEF TypeOK
<1>1. ASSUME NEW p \in Predictions, CreatePrediction(p)
      PROVE  RetriesNeedFaults'
  BY <1>1 DEF CreatePrediction, brokerVars, budgetVars, lateVars
<1>2. ASSUME NEW t \in Triggers, RunTrigger(t)
      PROVE  RetriesNeedFaults'
  <2>1. ASSUME NEW p \in Predictions, PublishJob(t, p)
        PROVE  RetriesNeedFaults'
    <3>1. job' = job /\ pc' = pc /\ faults' = faults /\ resent' = resent
      BY <2>1 DEF PublishJob, budgetVars, lateVars
    <3>2. \A j \in Job : ready'[j] > 0 => ready[j] > 0 \/ j.retry = 0
      BY <2>1 DEF PublishJob, TypeOK
    <3>3. FailedCalls >= 0
      OBVIOUS
    <3> QED BY <3>1, <3>2, <3>3
  <2>2. CASE UNCHANGED <<job, pc, faults, resent, ready>>
    BY <2>2
  <2> QED BY <1>2, <2>1, <2>2
          DEF RunTrigger, SelectUnprocessed, ReadTotal, SetTotal, SetProcessed,
              FinishTrigger, FailTrigger, brokerVars, budgetVars, lateVars
<1>3. ASSUME NEW s \in Slots, NEW j \in Job, Deliver(s, j)
      PROVE  RetriesNeedFaults'
  <2>1. faults' = faults /\ resent' = resent /\ ready[j] > 0
    BY <1>3 DEF Deliver, budgetVars, lateVars
  <2>2. \A i \in Job : ready'[i] > 0 => ready[i] > 0
    BY <1>3 DEF Deliver, TypeOK
  <2>3. job'[s] = j /\ pc'[s] = "check" /\ \A r \in Slots \ {s} : job'[r] = job[r] /\ pc'[r] = pc[r]
    BY <1>3 DEF Deliver, HandlerStep, TypeOK
  <2> QED BY <2>1, <2>2, <2>3
<1>4. ASSUME NEW s \in Slots,
             CheckExisting(s) \/ ScorePrediction(s) \/ SaveResult(s) \/ CountProcessed(s)
      PROVE  RetriesNeedFaults'
  <2>1. faults' = faults /\ resent' = resent /\ ready' = ready /\ job' = job /\ pc[s] # "idle"
    BY <1>4 DEF CheckExisting, ScorePrediction, SaveResult, CountProcessed, HandlerStep,
                brokerVars, budgetVars, lateVars
  <2>2. \A r \in Slots : /\ pc'[r] # "idle" => pc[r] # "idle"
                         /\ pc'[r] = "retry" => pc[r] = "retry" \/ job[r].pred \in Malformed
    BY <1>4 DEF CheckExisting, ScorePrediction, SaveResult, CountProcessed, HandlerStep, TypeOK
  <2> QED BY <2>1, <2>2
<1>5. ASSUME NEW s \in Slots, AckJob(s) \/ AckOriginal(s) \/ DeadLetter(s)
      PROVE  RetriesNeedFaults'
  <2>1. faults' = faults /\ resent' = resent /\ ready' = ready
    BY <1>5 DEF AckJob, AckOriginal, DeadLetter, brokerVars, budgetVars, lateVars
  <2>2. pc'[s] = "idle" /\ \A r \in Slots \ {s} : pc'[r] = pc[r] /\ job'[r] = job[r]
    BY <1>5 DEF AckJob, AckOriginal, DeadLetter, FreeSlot, HandlerStep, TypeOK
  <2> QED BY <2>1, <2>2
<1>6. ASSUME NEW s \in Slots, Republish(s)
      PROVE  RetriesNeedFaults'
  <2>1. faults' = faults /\ resent' = resent /\ job' = job /\ pc[s] = "retry"
    BY <1>6 DEF Republish, HandlerStep, budgetVars, lateVars
  <2>2. \A r \in Slots : /\ pc'[r] # "idle" => pc[r] # "idle"
                         /\ pc'[r] = "retry" => pc[r] = "retry"
    BY <1>6 DEF Republish, HandlerStep, TypeOK
  <2>3. \A j \in Job : ready'[j] > 0 =>
          ready[j] > 0 \/ (j.pred = job[s].pred /\ j.retry = job[s].retry + 1)
    BY <1>6 DEF Republish, RetryCount, TypeOK
  <2> QED BY <2>1, <2>2, <2>3
<1>7. ASSUME NEW s \in Slots, HandlerFault(s)
      PROVE  RetriesNeedFaults'
  <2>1. FailedCalls' = FailedCalls + 1 /\ ready' = ready /\ job' = job /\ pc[s] # "idle"
    BY <1>0, <1>7 DEF HandlerFault, brokerVars
  <2>2. \A r \in Slots : pc'[r] # "idle" => pc[r] # "idle"
    BY <1>7, <2>1 DEF HandlerFault, TypeOK
  <2>3. \A r \in Slots : pc[r] # "idle" => job[r].retry \in Int
    BY RunningSlot, MaxRetriesAssumption
  <2>4. \A j \in Job : j.retry \in Int
    BY MaxRetriesAssumption DEF Job
  <2>5. ASSUME NEW j \in Job, ready'[j] > 0, j.pred \notin Malformed
        PROVE  FailedCalls' >= j.retry
    BY <1>0, <2>1, <2>4, <2>5
  <2>6. ASSUME NEW r \in Slots, pc'[r] # "idle", job'[r].pred \notin Malformed
        PROVE  FailedCalls' >= job'[r].retry /\ FailedCalls' >= job'[r].retry + 1
    BY <1>0, <2>1, <2>2, <2>3, <2>6
  <2> QED BY <1>0, <2>1, <2>5, <2>6
<1>8. ASSUME NEW w \in Workers, Requeue(w), faults' = faults, resent' = resent,
             \A r \in Slots : pc'[r] = "idle" \/ (pc'[r] = pc[r] /\ job'[r] = job[r])
      PROVE  RetriesNeedFaults'
  <2>1. \A s \in Unacked(w) : s \in Slots /\ pc[s] # "idle"
    BY SlotFacts DEF Unacked
  <2>2. \A j \in Job : ready'[j] > 0 => ready[j] > 0 \/ \E s \in Unacked(w) : job[s] = j
    BY <1>8, RequeueFacts
  <2> QED BY <1>8, <2>1, <2>2
<1>9. ASSUME NEW w \in Workers, Restart(w)
      PROVE  RetriesNeedFaults'
  BY <1>8, <1>9 DEF Restart, TypeOK
<1>10. ASSUME NEW s \in Slots, ChannelClosed(s)
       PROVE  RetriesNeedFaults'
  BY <1>9, <1>10 DEF ChannelClosed, Slots
<1>11. ASSUME NEW w \in Workers, Disconnect(w)
       PROVE  RetriesNeedFaults'
  BY <1>8, <1>11 DEF Disconnect, lateVars
<1>12. CASE UNCHANGED vars
  BY <1>12 DEF vars
<1>13. ASSUME NEW p \in Predictions, LateInsert(p)
       PROVE  RetriesNeedFaults'
  BY <1>13 DEF LateInsert, brokerVars, budgetVars
<1>14. CASE Resend
  <2>1. FailedCalls' = FailedCalls /\ UNCHANGED <<ready, pc, job>>
    BY <1>0, <1>14 DEF Resend, brokerVars
  <2> QED BY <2>1
<1>15. CASE LateCount
  BY <1>15 DEF LateCount, brokerVars, budgetVars
<1> QED BY <1>1, <1>2, <1>3, <1>4, <1>5, <1>6, <1>7, <1>9, <1>10, <1>11, <1>12, <1>13, <1>14, <1>15
        DEF Next, RunHandler, Crash, Rest

-----------------------------------------------------------------------------
(* A job is dead-lettered only by a handler whose retry count has reached   *)
(* MaxRetries, and that count is paid for.                                  *)
LEMMA DeadLetterStep ==
  ASSUME TypeOK, RetriesNeedFaults, DeadLetterNeedsFaults, [Next]_vars
  PROVE  DeadLetterNeedsFaults'
<1>0. FaultBudget \in Nat /\ faults \in Nat /\ resent \in Nat /\ MaxRetries \in Nat
  BY BudgetAssumption, MaxRetriesAssumption DEF TypeOK
<1>1. ASSUME NEW s \in Slots, DeadLetter(s)
      PROVE  DeadLetterNeedsFaults'
  <2>1. faults' = faults /\ resent' = resent /\ pc[s] = "retry" /\ job[s].retry + 1 >= MaxRetries
    BY <1>1 DEF DeadLetter, HandlerStep, RetryCount, budgetVars, lateVars
  <2>2. \A p \in Predictions : dlq'[p] > 0 => dlq[p] > 0 \/ p = job[s].pred
    BY <1>1 DEF DeadLetter, TypeOK
  <2>3. job[s].pred \notin Malformed => FailedCalls >= MaxRetries
    <3>1. job[s].retry \in Int
      BY <2>1, RunningSlot, <1>0
    <3>2. job[s].pred \notin Malformed => FailedCalls >= job[s].retry + 1
      BY <2>1 DEF RetriesNeedFaults
    <3> QED BY <1>0, <2>1, <3>1, <3>2 DEF FailedCalls
  <2> QED BY <2>1, <2>2, <2>3 DEF DeadLetterNeedsFaults, FailedCalls
<1>2. ASSUME NEW s \in Slots, HandlerFault(s)
      PROVE  DeadLetterNeedsFaults'
  BY <1>0, <1>2 DEF HandlerFault, DeadLetterNeedsFaults, FailedCalls, brokerVars
<1>3. CASE UNCHANGED <<dlq, faults, resent>>
  BY <1>3 DEF DeadLetterNeedsFaults, FailedCalls
<1>4. CASE Resend
  BY <1>0, <1>4 DEF Resend, DeadLetterNeedsFaults, FailedCalls, brokerVars
<1> QED
  BY <1>1, <1>2, <1>3, <1>4
     DEF Next, CreatePrediction, RunTrigger, SelectUnprocessed, ReadTotal, SetTotal,
         SetProcessed, PublishJob, FinishTrigger, FailTrigger, Deliver, RunHandler,
         CheckExisting, ScorePrediction, SaveResult, CountProcessed, AckJob, Republish,
         AckOriginal, ChannelClosed, Restart, Crash, Disconnect, LateInsert, LateCount, Rest, vars, brokerVars,
         budgetVars, lateVars

-----------------------------------------------------------------------------
(* No job is lost.                                                          *)

(* What no step undoes: rows and dead letters only grow.                    *)
LEMMA OutcomeKept ==
  ASSUME TypeOK, [Next]_vars, NEW p \in Predictions, Outcome(p)
  PROVE  Outcome(p)'
<1>1. ASSUME NEW s \in Slots, SaveResult(s) \/ DeadLetter(s)
      PROVE  Outcome(p)'
  <2>1. results'[p] >= results[p] /\ dlq'[p] >= dlq[p]
    BY <1>1 DEF SaveResult, DeadLetter, brokerVars, TypeOK
  <2>2. results[p] \in Nat /\ dlq[p] \in Nat /\ results'[p] \in Nat /\ dlq'[p] \in Nat
    BY StepTypeOK DEF TypeOK
  <2> QED BY <2>1, <2>2 DEF Outcome
<1>3. ASSUME NEW q \in Predictions, LateInsert(q)
      PROVE  Outcome(p)'
  <2>1. results'[p] >= results[p] /\ dlq' = dlq
    BY <1>3 DEF LateInsert, brokerVars, TypeOK
  <2>2. results[p] \in Nat /\ results'[p] \in Nat
    BY StepTypeOK DEF TypeOK
  <2> QED BY <2>1, <2>2 DEF Outcome
<1>2. CASE UNCHANGED <<results, dlq>>
  BY <1>2 DEF Outcome
<1> QED
  BY <1>1, <1>2, <1>3
     DEF Next, CreatePrediction, RunTrigger, SelectUnprocessed, ReadTotal, SetTotal,
         SetProcessed, PublishJob, FinishTrigger, FailTrigger, Deliver, RunHandler,
         CheckExisting, ScorePrediction, CountProcessed, HandlerFault, AckJob, Republish,
         AckOriginal, ChannelClosed, Restart, Crash, Disconnect, LateCount, Resend, Rest, vars, brokerVars

(* A live job stays live until it has its outcome.                          *)
LEMMA LiveKept ==
  ASSUME TypeOK, RowBeforeAck, [Next]_vars, NEW p \in Predictions, Live(p)
  PROVE  Live(p)' \/ Outcome(p)'
<1> DEFINE ReadyFor(j) == j \in Job /\ j.pred = p /\ ready[j] > 0
           HeldBy(s)   == /\ s \in Slots
                          /\ pc[s] \notin {"idle", "ackOriginal"}
                          /\ conn[s[1]]
                          /\ job[s].pred = p
<1>0. (\E j : ReadyFor(j)) \/ (\E s : HeldBy(s))
  BY DEF Live
<1>1. CASE UNCHANGED <<ready, pc, job, conn>>
  BY <1>1 DEF Live
<1>2. ASSUME NEW t \in Triggers, NEW q \in Predictions, PublishJob(t, q)
      PROVE  Live(p)'
  <2>1. pc' = pc /\ job' = job /\ conn' = conn /\ \A j \in Job : ready[j] > 0 => ready'[j] > 0
    BY <1>2 DEF PublishJob, TypeOK
  <2> QED BY <2>1 DEF Live
<1>3. ASSUME NEW r \in Slots, NEW i \in Job, Deliver(r, i)
      PROVE  Live(p)'
  <2>1. /\ conn' = conn /\ conn[r[1]] /\ pc'[r] = "check" /\ job'[r] = i
        /\ \A j \in Job \ {i} : ready'[j] = ready[j]
        /\ pc[r] = "idle"
        /\ \A s \in Slots \ {r} : pc'[s] = pc[s] /\ job'[s] = job[s]
    BY <1>3 DEF Deliver, HandlerStep, TypeOK
  <2>2. ASSUME NEW j \in Job, ReadyFor(j)
        PROVE  Live(p)'
    <3>1. CASE j = i
      BY <2>1, <2>2, <3>1 DEF Live
    <3>2. CASE j # i
      BY <2>1, <2>2, <3>2 DEF Live
    <3> QED BY <3>1, <3>2
  <2>3. ASSUME NEW s \in Slots, HeldBy(s)
        PROVE  Live(p)'
    BY <2>1, <2>3 DEF Live
  <2> QED BY <1>0, <2>2, <2>3
<1>4. ASSUME NEW r \in Slots,
             CheckExisting(r) \/ ScorePrediction(r) \/ SaveResult(r) \/ CountProcessed(r)
               \/ HandlerFault(r)
      PROVE  Live(p)'
  <2>1. /\ ready' = ready /\ job' = job /\ conn' = conn
        /\ pc'[r] \notin {"idle", "ackOriginal"}
        /\ \A s \in Slots \ {r} : pc'[s] = pc[s]
    BY <1>4 DEF CheckExisting, ScorePrediction, SaveResult, CountProcessed, HandlerFault,
                HandlerStep, brokerVars, TypeOK
  <2> QED BY <2>1 DEF Live
<1>5. ASSUME NEW r \in Slots, AckJob(r)
      PROVE  Live(p)' \/ Outcome(p)'
  <2>1. /\ ready' = ready /\ conn' = conn /\ results' = results
        /\ \A s \in Slots \ {r} : pc'[s] = pc[s] /\ job'[s] = job[s]
    BY <1>5 DEF AckJob, FreeSlot, HandlerStep, brokerVars, TypeOK
  <2>2. results[job[r].pred] > 0
    BY <1>5 DEF AckJob, HandlerStep, RowBeforeAck
  <2>3. CASE HeldBy(r)
    BY <2>1, <2>2, <2>3 DEF Outcome
  <2>4. CASE ~HeldBy(r)
    BY <1>0, <2>1, <2>4 DEF Live
  <2> QED BY <2>3, <2>4
<1>6. ASSUME NEW r \in Slots, Republish(r)
      PROVE  Live(p)'
  <2>1. /\ job' = job /\ conn' = conn /\ pc[r] # "idle"
        /\ \A s \in Slots \ {r} : pc'[s] = pc[s]
        /\ \A j \in Job : ready[j] > 0 => ready'[j] > 0
    BY <1>6 DEF Republish, HandlerStep, TypeOK
  <2>2. CASE HeldBy(r)
    <3> DEFINE copy == [pred |-> job[r].pred, retry |-> RetryCount(r)]
    <3>1. copy \in Job
      BY <1>6, <2>1, RunningSlot, MaxRetriesAssumption DEF Republish, RetryCount, Job
    <3>2. ready'[copy] > 0
      BY <1>6, <3>1 DEF Republish, TypeOK
    <3> QED BY <2>2, <3>1, <3>2 DEF Live
  <2>3. CASE ~HeldBy(r)
    BY <1>0, <2>1, <2>3 DEF Live
  <2> QED BY <2>2, <2>3
<1>7. ASSUME NEW r \in Slots, AckOriginal(r)
      PROVE  Live(p)'
  <2>1. /\ ready' = ready /\ conn' = conn /\ pc[r] = "ackOriginal"
        /\ \A s \in Slots \ {r} : pc'[s] = pc[s] /\ job'[s] = job[s]
    BY <1>7 DEF AckOriginal, FreeSlot, HandlerStep, brokerVars, TypeOK
  <2> QED BY <1>0, <2>1 DEF Live
<1>8. ASSUME NEW r \in Slots, DeadLetter(r)
      PROVE  Live(p)' \/ Outcome(p)'
  <2>1. /\ ready' = ready /\ conn' = conn
        /\ \A s \in Slots \ {r} : pc'[s] = pc[s] /\ job'[s] = job[s]
    BY <1>8 DEF DeadLetter, FreeSlot, HandlerStep, TypeOK
  <2>2. CASE HeldBy(r)
    BY <1>8, <2>2 DEF DeadLetter, Outcome, TypeOK
  <2>3. CASE ~HeldBy(r)
    BY <1>0, <2>1, <2>3 DEF Live
  <2> QED BY <2>2, <2>3
<1>9. ASSUME NEW w \in Workers, Requeue(w),
             \A v \in Workers \ {w} : conn'[v] = conn[v],
             \A s \in Slots \ SlotsOf(w) : pc'[s] = pc[s] /\ job'[s] = job[s]
      PROVE  Live(p)'
  <2>1. ASSUME NEW j \in Job, ReadyFor(j)
        PROVE  Live(p)'
    <3>1. ready' \in [Job -> Nat] /\ ready'[j] >= ready[j]
      BY <1>9, RequeueFacts
    <3>2. ready[j] \in Nat
      BY DEF TypeOK
    <3> QED BY <2>1, <3>1, <3>2 DEF Live
  <2>2. ASSUME NEW s \in Slots, HeldBy(s)
        PROVE  Live(p)'
    <3>1. CASE s[1] = w
      <4>1. s \in Unacked(w)
        BY <2>2, <3>1, SlotFacts DEF Unacked
      <4> QED BY <1>9, <2>2, <4>1, RequeueFacts DEF Live
    <3>2. CASE s[1] # w
      <4>1. s[1] \in Workers /\ s \notin SlotsOf(w)
        BY <3>2, SlotFacts
      <4> QED BY <1>9, <2>2, <3>2, <4>1 DEF Live
    <3> QED BY <3>1, <3>2
  <2> QED BY <1>0, <2>1, <2>2
<1>10. ASSUME NEW w \in Workers, Restart(w)
       PROVE  Live(p)'
  BY <1>9, <1>10 DEF Restart, TypeOK
<1>11. ASSUME NEW s \in Slots, ChannelClosed(s)
       PROVE  Live(p)'
  BY <1>10, <1>11 DEF ChannelClosed, Slots
<1>12. ASSUME NEW w \in Workers, Disconnect(w)
       PROVE  Live(p)'
  BY <1>9, <1>12 DEF Disconnect, TypeOK
<1> QED
  BY <1>1, <1>2, <1>3, <1>4, <1>5, <1>6, <1>7, <1>8, <1>10, <1>11, <1>12
     DEF Next, CreatePrediction, RunTrigger, SelectUnprocessed, ReadTotal, SetTotal,
         SetProcessed, FinishTrigger, FailTrigger, RunHandler, Crash, LateInsert, LateCount, Resend, Rest,
         vars, brokerVars

LEMMA NoLostStep ==
  ASSUME TypeOK, RowBeforeAck, NoLostPrediction, [Next]_vars
  PROVE  NoLostPrediction'
<1> SUFFICES ASSUME NEW p \in Predictions, copies'[p] > 0
             PROVE  Outcome(p)' \/ Live(p)'
  BY DEF NoLostPrediction
<1>1. CASE copies[p] > 0
  <2>1. Outcome(p) \/ Live(p)
    BY <1>1 DEF NoLostPrediction
  <2> QED BY <2>1, OutcomeKept, LiveKept
<1>2. ASSUME ~(copies[p] > 0), NEW t \in Triggers, NEW q \in Predictions, PublishJob(t, q)
      PROVE  Live(p)'
  <2>1. q = p
    BY <1>2 DEF PublishJob, TypeOK
  <2>2. [pred |-> p, retry |-> 0] \in Job
    BY MaxRetriesAssumption DEF Job
  <2> QED BY <1>2, <2>1, <2>2 DEF PublishJob, TypeOK, Live
<1>3. ASSUME ~(copies[p] > 0), NEW w \in Workers, NEW S \in SUBSET Unacked(w),
             Requeue(w), Duplicated(S)
      PROVE  Live(p)'
  <2>1. PICK s \in S : job[s].pred = p
    BY <1>3, DuplicatedFacts
  <2> QED BY <1>3, <2>1, RequeueFacts DEF Live
<1>4. ASSUME ~(copies[p] > 0), NEW w \in Workers, Restart(w)
      PROVE  Live(p)'
  <2>1. {s \in Unacked(w) : pc[s] = "ackOriginal"} \in SUBSET Unacked(w)
    OBVIOUS
  <2> QED BY <1>3, <1>4, <2>1 DEF Restart
<1>5. ASSUME ~(copies[p] > 0), NEW s \in Slots, ChannelClosed(s)
      PROVE  Live(p)'
  BY <1>4, <1>5 DEF ChannelClosed, Slots
<1>6. ASSUME ~(copies[p] > 0), NEW w \in Workers, Disconnect(w)
      PROVE  Live(p)'
  BY <1>3, <1>6 DEF Disconnect
<1>7. CASE UNCHANGED copies
  BY <1>1, <1>7
<1> QED
  BY <1>1, <1>2, <1>4, <1>5, <1>6, <1>7
     DEF Next, CreatePrediction, RunTrigger, SelectUnprocessed, ReadTotal, SetTotal,
         SetProcessed, FinishTrigger, FailTrigger, Deliver, RunHandler, CheckExisting,
         ScorePrediction, SaveResult, CountProcessed, HandlerFault, AckJob, Republish,
         AckOriginal, DeadLetter, Crash, LateInsert, LateCount, Resend, Rest, vars

-----------------------------------------------------------------------------
(* Only stored predictions are queued, and only queued ones are in flight.  *)
LEMMA OnlyQueuedStep ==
  ASSUME TypeOK, OnlyQueuedJobs, [Next]_vars
  PROVE  OnlyQueuedJobs'
<1> USE DEF OnlyQueuedJobs
<1>1. ASSUME NEW p \in Predictions, CreatePrediction(p)
      PROVE  OnlyQueuedJobs'
  BY <1>1 DEF CreatePrediction, brokerVars, lateVars
<1>2. ASSUME NEW t \in Triggers, NEW p \in Predictions, PublishJob(t, p)
      PROVE  OnlyQueuedJobs'
  <2>1. /\ stored' = stored /\ inflight' = inflight /\ pc' = pc /\ job' = job /\ p \in stored
        /\ \A u \in Triggers : todo'[u] \subseteq todo[u]
        /\ copies'[p] > 0
        /\ \A q \in Predictions \ {p} : copies'[q] = copies[q]
        /\ \A j \in Job : ready'[j] > 0 => ready[j] > 0 \/ j.pred = p
    BY <1>2 DEF PublishJob, TypeOK, lateVars
  <2>2. \A s \in Slots : pc[s] # "idle" => job[s].pred \in Predictions
    BY RunningSlot
  <2> QED BY <2>1, <2>2 DEF Job
<1>3. ASSUME NEW t \in Triggers, SelectUnprocessed(t)
      PROVE  OnlyQueuedJobs'
  <2>1. \A u \in Triggers : todo'[u] \subseteq stored
    BY <1>3 DEF SelectUnprocessed, Unprocessed, TypeOK
  <2> QED BY <1>3, <2>1 DEF SelectUnprocessed, brokerVars, lateVars
<1>4. ASSUME NEW t \in Triggers,
             ReadTotal(t) \/ SetTotal(t) \/ SetProcessed(t) \/ FinishTrigger(t) \/ FailTrigger(t)
      PROVE  OnlyQueuedJobs'
  <2>1. \A u \in Triggers : todo'[u] \subseteq todo[u]
    BY <1>4 DEF ReadTotal, SetTotal, SetProcessed, FinishTrigger, FailTrigger, TypeOK
  <2> QED BY <1>4, <2>1
          DEF ReadTotal, SetTotal, SetProcessed, FinishTrigger, FailTrigger, brokerVars, lateVars
<1>5. ASSUME NEW s \in Slots, NEW i \in Job, Deliver(s, i)
      PROVE  OnlyQueuedJobs'
  <2>1. /\ stored' = stored /\ todo' = todo /\ copies' = copies /\ ready[i] > 0 /\ inflight' = inflight
        /\ \A j \in Job : ready'[j] > 0 => ready[j] > 0
        /\ job'[s] = i
        /\ \A r \in Slots \ {s} : pc'[r] = pc[r] /\ job'[r] = job[r]
    BY <1>5 DEF Deliver, HandlerStep, TypeOK, adminVars, lateVars
  <2> QED BY <2>1
<1>6. ASSUME NEW s \in Slots,
             CheckExisting(s) \/ ScorePrediction(s) \/ SaveResult(s) \/ CountProcessed(s)
      PROVE  OnlyQueuedJobs'
  <2>1. /\ stored' = stored /\ todo' = todo /\ copies' = copies /\ ready' = ready /\ job' = job
        /\ inflight' = inflight
        /\ \A r \in Slots : pc'[r] # "idle" => pc[r] # "idle"
    BY <1>6 DEF CheckExisting, ScorePrediction, SaveResult, CountProcessed,
                HandlerStep, TypeOK, adminVars, brokerVars, lateVars
  <2> QED BY <2>1
<1>7. ASSUME NEW s \in Slots, AckJob(s) \/ AckOriginal(s) \/ DeadLetter(s)
      PROVE  OnlyQueuedJobs'
  <2>1. /\ stored' = stored /\ todo' = todo /\ copies' = copies /\ ready' = ready
        /\ pc'[s] = "idle" /\ inflight' = inflight
        /\ \A r \in Slots \ {s} : pc'[r] = pc[r] /\ job'[r] = job[r]
    BY <1>7 DEF AckJob, AckOriginal, DeadLetter, FreeSlot, HandlerStep, TypeOK, adminVars,
                brokerVars, lateVars
  <2> QED BY <2>1
<1>8. ASSUME NEW s \in Slots, Republish(s)
      PROVE  OnlyQueuedJobs'
  <2>1. /\ stored' = stored /\ todo' = todo /\ copies' = copies /\ job' = job
        /\ pc[s] # "idle" /\ inflight' = inflight
        /\ \A r \in Slots : pc'[r] # "idle" => pc[r] # "idle"
        /\ \A j \in Job : ready'[j] > 0 => ready[j] > 0 \/ j.pred = job[s].pred
    BY <1>8 DEF Republish, HandlerStep, TypeOK, adminVars, lateVars
  <2> QED BY <2>1
<1>9. ASSUME NEW w \in Workers, NEW S \in SUBSET Unacked(w), Requeue(w), Duplicated(S),
             UNCHANGED adminVars,
             \A p \in Predictions : inflight'[p] > 0 => copies[p] > 0,
             \A r \in Slots : pc'[r] = "idle" \/ (pc'[r] = pc[r] /\ job'[r] = job[r])
      PROVE  OnlyQueuedJobs'
  <2>1. stored' = stored /\ todo' = todo
    BY <1>9 DEF adminVars
  <2>2. \A s \in Unacked(w) : s \in Slots /\ pc[s] # "idle"
    BY SlotFacts DEF Unacked
  <2>3. \A q \in Predictions : /\ copies[q] > 0 => copies'[q] > 0
                               /\ copies'[q] > 0 => copies[q] > 0
    <3>1. ASSUME NEW q \in Predictions
          PROVE  copies'[q] > 0 => copies[q] > 0
      BY <1>9, <2>2, DuplicatedFacts
    <3>2. ASSUME NEW q \in Predictions, copies[q] > 0
          PROVE  copies'[q] > 0
      <4>1. copies'[q] >= copies[q] /\ copies'[q] \in Nat /\ copies[q] \in Nat
        BY <1>9, DuplicatedFacts DEF TypeOK
      <4> QED BY <3>2, <4>1
    <3> QED BY <3>1, <3>2
  <2>4. \A j \in Job : ready'[j] > 0 => copies[j.pred] > 0
    BY <1>9, <2>2, RequeueFacts
  <2>5. \A s \in Slots : pc[s] # "idle" => job[s].pred \in Predictions
    BY RunningSlot
  <2> QED BY <1>9, <2>1, <2>3, <2>4, <2>5 DEF Job
<1>10. ASSUME NEW w \in Workers, Restart(w)
       PROVE  OnlyQueuedJobs'
  <2>1. {s \in Unacked(w) : pc[s] = "ackOriginal"} \in SUBSET Unacked(w)
    OBVIOUS
  <2>2. \A r \in Slots : pc'[r] = "idle" \/ (pc'[r] = pc[r] /\ job'[r] = job[r])
    BY <1>10 DEF Restart
  <2>3. \A p \in Predictions : inflight'[p] > 0 => copies[p] > 0
    <3>1. SlotsOf(w) \in SUBSET Slots
      BY SlotFacts
    <3> QED BY <1>10, <3>1, AbandonFacts DEF Restart
  <2> QED BY <1>9, <1>10, <2>1, <2>2, <2>3 DEF Restart
<1>11. ASSUME NEW s \in Slots, ChannelClosed(s)
       PROVE  OnlyQueuedJobs'
  BY <1>10, <1>11 DEF ChannelClosed, Slots
<1>12. ASSUME NEW w \in Workers, Disconnect(w)
       PROVE  OnlyQueuedJobs'
  BY <1>9, <1>12 DEF Disconnect, lateVars
<1>13. CASE UNCHANGED vars
  BY <1>13 DEF vars
<1>14. ASSUME NEW s \in Slots, HandlerFault(s)
       PROVE  OnlyQueuedJobs'
  <2>1. /\ stored' = stored /\ todo' = todo /\ copies' = copies /\ ready' = ready /\ job' = job
        /\ pc[s] # "idle" /\ \A r \in Slots : pc'[r] # "idle" => pc[r] # "idle"
    BY <1>14 DEF HandlerFault, TypeOK, adminVars, brokerVars
  <2>2. \A p \in Predictions : inflight'[p] > 0 => copies[p] > 0
    BY <1>14, AbandonFacts DEF HandlerFault
  <2> QED BY <2>1, <2>2
<1>15. ASSUME NEW p \in Predictions, LateInsert(p)
       PROVE  OnlyQueuedJobs'
  BY <1>15 DEF LateInsert, TypeOK, adminVars, brokerVars
<1>16. CASE LateCount \/ Resend
  BY <1>16 DEF LateCount, Resend, adminVars, brokerVars
<1> QED
  BY <1>1, <1>2, <1>3, <1>4, <1>5, <1>6, <1>7, <1>8, <1>10, <1>11, <1>12, <1>13, <1>14, <1>15,
     <1>16
     DEF Next, RunTrigger, RunHandler, Crash, Rest

-----------------------------------------------------------------------------
(* Rows are paid for: what a counter counts is listed one by one, as pairs  *)
(* of what it counts for and a number.                                      *)
LEMMA NumberedMembers ==
  ASSUME NEW S, NEW count, \A j \in S : count[j] \in Nat, NEW x
  PROVE  x \in Numbered(count, S) <=>
           \E j \in S, n \in Nat : 1 <= n /\ n <= count[j] /\ x = <<j, n>>
<1>1. ASSUME x \in Numbered(count, S)
      PROVE  \E j \in S, n \in Nat : 1 <= n /\ n <= count[j] /\ x = <<j, n>>
  <2>1. PICK j \in S : x \in {<<j, n>> : n \in 1 .. count[j]}
    BY <1>1 DEF Numbered
  <2>2. PICK n \in 1 .. count[j] : x = <<j, n>>
    BY <2>1
  <2>3. count[j] \in Nat
    OBVIOUS
  <2> QED BY <2>1, <2>2, <2>3
<1>2. ASSUME NEW j \in S, NEW n \in Nat, 1 <= n, n <= count[j], x = <<j, n>>
      PROVE  x \in Numbered(count, S)
  <2>1. n \in 1 .. count[j]
    BY <1>2
  <2>2. x \in {<<j, m>> : m \in 1 .. count[j]}
    BY <1>2, <2>1
  <2> QED BY <2>1, <2>2 DEF Numbered
<1> QED BY <1>1, <1>2

LEMMA NothingNumbered ==
  ASSUME NEW D, NEW S \in SUBSET D, NEW count \in [D -> Nat], \A x \in S : count[x] = 0
  PROVE  IsFiniteSet(Numbered(count, S)) /\ Cardinality(Numbered(count, S)) = 0
<1>1. \A x : x \notin Numbered(count, S)
  BY NumberedMembers
<1>2. Numbered(count, S) = {}
  BY <1>1
<1> QED BY <1>2, FS_EmptySet

LEMMA OneMore ==
  ASSUME NEW D, NEW S \in SUBSET D, NEW count \in [D -> Nat], NEW i \in D,
         IsFiniteSet(Numbered(count, S)),
         NEW more \in [D -> Nat], more[i] = count[i] + 1,
         \A j \in D \ {i} : more[j] = count[j]
  PROVE  /\ IsFiniteSet(Numbered(more, S)) /\ Cardinality(Numbered(count, S)) \in Nat
         /\ i \in S => Cardinality(Numbered(more, S)) = Cardinality(Numbered(count, S)) + 1
         /\ i \notin S => Cardinality(Numbered(more, S)) = Cardinality(Numbered(count, S))
<1> DEFINE Old == Numbered(count, S)
           All == Numbered(more, S)
<1>1. Cardinality(Old) \in Nat /\ IsFiniteSet(Old)
  BY FS_CardinalityType
<1>2. \A j \in D : count[j] \in Nat /\ more[j] \in Nat /\ more[j] = IF j = i THEN count[j] + 1 ELSE count[j]
  OBVIOUS
<1>0. (\A j \in S : count[j] \in Nat) /\ (\A j \in S : more[j] \in Nat)
  BY <1>2
<1>3. \A x : x \in Old <=>
         \E j \in S, n \in Nat : 1 <= n /\ n <= count[j] /\ x = <<j, n>>
  BY ONLY <1>0, NumberedMembers
<1>4. \A x : x \in All <=>
         \E j \in S, n \in Nat : 1 <= n /\ n <= more[j] /\ x = <<j, n>>
  BY ONLY <1>0, NumberedMembers
<1> HIDE DEF Old, All
<1>5. CASE i \in S
  <2> DEFINE x == <<i, count[i] + 1>>
  <2>1. x \notin Old
    <3> SUFFICES ASSUME NEW j \in S, NEW n \in Nat, n <= count[j], x = <<j, n>> PROVE FALSE
      BY <1>3
    <3>1. j = i /\ n = count[i] + 1
      OBVIOUS
    <3> QED BY <1>2, <3>1
  <2>2. ASSUME NEW y \in All, y # x PROVE y \in Old
    <3>1. PICK j \in S, n \in Nat : 1 <= n /\ n <= more[j] /\ y = <<j, n>>
      BY <1>4
    <3>2. ~(j = i /\ n = count[i] + 1)
      BY <2>2, <3>1
    <3>3. n <= count[j]
      BY <1>2, <3>1, <3>2
    <3> QED BY <1>3, <3>1, <3>3
  <2>3. ASSUME NEW y \in Old PROVE y \in All
    <3>1. PICK j \in S, n \in Nat : 1 <= n /\ n <= count[j] /\ y = <<j, n>>
      BY <1>3
    <3>2. n <= more[j]
      BY <1>2, <3>1
    <3> QED BY <1>4, <3>1, <3>2
  <2>4. x \in All
    <3>1. count[i] + 1 \in Nat /\ 1 <= count[i] + 1 /\ count[i] + 1 <= more[i]
      BY <1>2
    <3> QED BY <1>4, <1>5, <3>1
  <2>5. All = Old \cup {x}
    BY <2>2, <2>3, <2>4
  <2>6. IsFiniteSet(All) /\ Cardinality(All) = Cardinality(Old) + 1
    <3> HIDE DEF x
    <3> QED BY <1>1, <2>1, <2>5, FS_AddElement
  <2> QED BY <1>1, <1>5, <2>6 DEF Old, All
<1>6. CASE i \notin S
  <2>1. \A j \in S : more[j] = count[j]
    BY <1>2, <1>6
  <2>2. ASSUME NEW y PROVE y \in All <=> y \in Old
    BY <1>3, <1>4, <2>1
  <2>3. All = Old
    BY <2>2
  <2> QED BY <1>1, <1>6, <2>3 DEF Old, All
<1> QED BY <1>5, <1>6

LEMMA OneLess ==
  ASSUME NEW D, NEW S \in SUBSET D, NEW count \in [D -> Nat], NEW i \in D,
         IsFiniteSet(Numbered(count, S)),
         NEW less \in [D -> Nat], count[i] > 0, less[i] = count[i] - 1,
         \A j \in D \ {i} : less[j] = count[j]
  PROVE  /\ IsFiniteSet(Numbered(less, S)) /\ Cardinality(Numbered(less, S)) \in Nat
         /\ i \in S => Cardinality(Numbered(count, S)) = Cardinality(Numbered(less, S)) + 1
         /\ i \notin S => Cardinality(Numbered(count, S)) = Cardinality(Numbered(less, S))
<1>1. \A j \in D : count[j] \in Nat /\ less[j] \in Nat /\ less[j] <= count[j]
  OBVIOUS
<1>2. /\ \A x : x \in Numbered(count, S) <=>
           \E j \in S, n \in Nat : 1 <= n /\ n <= count[j] /\ x = <<j, n>>
      /\ \A x : x \in Numbered(less, S) <=>
           \E j \in S, n \in Nat : 1 <= n /\ n <= less[j] /\ x = <<j, n>>
  <2>1. (\A j \in S : count[j] \in Nat) /\ (\A j \in S : less[j] \in Nat)
    BY <1>1
  <2>2. \A x : x \in Numbered(count, S) <=>
          \E j \in S, n \in Nat : 1 <= n /\ n <= count[j] /\ x = <<j, n>>
    BY ONLY <2>1, NumberedMembers
  <2>3. \A x : x \in Numbered(less, S) <=>
          \E j \in S, n \in Nat : 1 <= n /\ n <= less[j] /\ x = <<j, n>>
    BY ONLY <2>1, NumberedMembers
  <2> QED BY <2>2, <2>3
<1>3. ASSUME NEW y \in Numbered(less, S) PROVE y \in Numbered(count, S)
  <2>1. PICK j \in S, n \in Nat : 1 <= n /\ n <= less[j] /\ y = <<j, n>>
    BY <1>2
  <2>2. n <= count[j]
    BY <1>1, <2>1
  <2> QED BY <1>2, <2>1, <2>2
<1>4. IsFiniteSet(Numbered(less, S))
  BY <1>3, FS_Subset
<1>5. count[i] = less[i] + 1 /\ \A j \in D \ {i} : count[j] = less[j]
  BY <1>1
<1>6. less \in [D -> Nat] /\ IsFiniteSet(Numbered(less, S))
  BY <1>4
<1> QED BY <1>4, <1>5, <1>6, OneMore

(* The elements of S whose key is d.                                        *)
Keyed(S, key, d) == {s \in S : key[s] = d}

(* Each d counted once more per element of S with key d: as many new ones   *)
(* as S has elements, at most.                                              *)
LEMMA NumberedGrowth ==
  ASSUME NEW D, NEW S, NEW key, NEW count, NEW more, IsFiniteSet(S),
         \A d \in D : count[d] \in Nat /\ more[d] = count[d] + Cardinality(Keyed(S, key, d)),
         IsFiniteSet(Numbered(count, D))
  PROVE  /\ IsFiniteSet(Numbered(more, D)) /\ Cardinality(Numbered(more, D)) \in Nat
         /\ Cardinality(Numbered(more, D)) <= Cardinality(Numbered(count, D)) + Cardinality(S)
         /\ Cardinality(Numbered(count, D)) \in Nat /\ Cardinality(S) \in Nat
<1> DEFINE With(d) == Keyed(S, key, d)
           Old == Numbered(count, D)
           All == Numbered(more, D)
           New == All \ Old
<1>1. \A d \in D : /\ IsFiniteSet(With(d)) /\ Cardinality(With(d)) \in Nat
                    /\ count[d] \in Nat /\ more[d] \in Nat
                    /\ more[d] = count[d] + Cardinality(With(d))
  <2>1. \A d \in D : IsFiniteSet(With(d)) /\ Cardinality(With(d)) \in Nat
    BY FS_Subset, FS_CardinalityType DEF Keyed
  <2> QED BY <2>1
<1> DEFINE Nth == [d \in D |-> CHOOSE f : f \in Bijection(1 .. Cardinality(With(d)), With(d))]
<1>2. ASSUME NEW d \in D
      PROVE  Nth[d] \in Injection(1 .. Cardinality(With(d)), With(d))
  <2>1. ExistsBijection(1 .. Cardinality(With(d)), With(d))
    BY <1>1, FS_CardinalityType
  <2> HIDE DEF With
  <2>2. \E f : f \in Bijection(1 .. Cardinality(With(d)), With(d))
    BY <2>1 DEF ExistsBijection
  <2>3. Nth[d] \in Bijection(1 .. Cardinality(With(d)), With(d))
    BY <2>2
  <2> QED BY <2>3 DEF Bijection
<1>3. /\ \A x : x \in Old <=> \E d \in D, n \in Nat : 1 <= n /\ n <= count[d] /\ x = <<d, n>>
      /\ \A x : x \in All <=> \E d \in D, n \in Nat : 1 <= n /\ n <= more[d] /\ x = <<d, n>>
  <2>1. (\A d \in D : count[d] \in Nat) /\ (\A d \in D : more[d] \in Nat)
    BY <1>1
  <2>2. \A x : x \in Old <=> \E d \in D, n \in Nat : 1 <= n /\ n <= count[d] /\ x = <<d, n>>
    BY ONLY <2>1, NumberedMembers
  <2>3. \A x : x \in All <=> \E d \in D, n \in Nat : 1 <= n /\ n <= more[d] /\ x = <<d, n>>
    BY ONLY <2>1, NumberedMembers
  <2> QED BY <2>2, <2>3
<1>4. \A d, s : s \in With(d) <=> s \in S /\ key[s] = d
  BY DEF Keyed
<1> HIDE DEF Nth, With, Old, All
<1>5. ASSUME NEW x \in New
      PROVE  /\ x = <<x[1], x[2]>> /\ x[1] \in D /\ x[2] \in Nat
             /\ x[2] - count[x[1]] \in 1 .. Cardinality(With(x[1]))
  <2>1. PICK d \in D, n \in Nat : 1 <= n /\ n <= more[d] /\ x = <<d, n>>
    BY <1>3
  <2>2. ~(n <= count[d])
    BY <1>3, <2>1
  <2>3. n - count[d] \in 1 .. Cardinality(With(d))
    BY <1>1, <2>1, <2>2
  <2> QED BY <2>1, <2>3
<1> DEFINE f == [x \in New |-> Nth[x[1]][x[2] - count[x[1]]]]
<1>6. ASSUME NEW x \in New
      PROVE  f[x] \in With(x[1]) /\ f[x] \in S
  <2>1. f[x] \in With(x[1])
    BY <1>2, <1>5 DEF Injection
  <2> QED BY <1>4, <2>1
<1>7. ASSUME NEW x \in New, NEW y \in New, f[x] = f[y]
      PROVE  x = y
  <2>1. x[1] = y[1]
    BY <1>4, <1>6, <1>7
  <2> DEFINE d == x[1]
             k == x[2] - count[d]
             m == y[2] - count[d]
  <2>2. d \in D /\ k \in 1 .. Cardinality(With(d)) /\ m \in 1 .. Cardinality(With(d))
    BY <1>5, <2>1
  <2>3. Nth[d][k] = Nth[d][m]
    BY <1>7, <2>1
  <2> HIDE DEF d, k, m
  <2>4. k = m
    BY <1>2, <2>2, <2>3 DEF Injection, IsInjective
  <2>5. x[2] = y[2]
    BY <1>1, <1>5, <2>1, <2>4 DEF d, k, m
  <2> QED BY <1>5, <2>1, <2>5
<1>8. f \in Injection(New, S)
  BY <1>6, <1>7 DEF Injection, IsInjective
<1> HIDE DEF f
<1>9. IsFiniteSet(New) /\ Cardinality(New) <= Cardinality(S) /\ Cardinality(New) \in Nat
      /\ Cardinality(S) \in Nat
  BY <1>8, FS_Injection, FS_CardinalityType
<1>10. All \in SUBSET (Old \cup New)
  OBVIOUS
<1> HIDE DEF New
<1>11. IsFiniteSet(Old)
  BY DEF Old
<1>12. /\ IsFiniteSet(Old \cup New) /\ Cardinality(Old) \in Nat
       /\ Cardinality(Old \cup New) = Cardinality(Old) + Cardinality(New) - Cardinality(Old \cap New)
       /\ Cardinality(Old \cap New) \in Nat
  BY <1>9, <1>11, FS_Union, FS_Intersection, FS_CardinalityType
<1>13. /\ IsFiniteSet(All) /\ Cardinality(All) \in Nat
       /\ Cardinality(All) <= Cardinality(Old \cup New)
  BY <1>10, <1>12, FS_Subset, FS_CardinalityType
<1>14. Cardinality(All) <= Cardinality(Old) + Cardinality(S)
  BY <1>9, <1>12, <1>13
<1> QED BY <1>9, <1>12, <1>13, <1>14 DEF Old, All

(* A connection that ends makes as many messages of p ready as it held.     *)
LEMMA RequeuedMessages ==
  ASSUME TypeOK, NEW w \in Workers, Requeue(w), NEW p \in Predictions, IsFiniteSet(ReadyOf(p))
  PROVE  /\ IsFiniteSet(ReadyOf(p)') /\ Cardinality(ReadyOf(p)') \in Nat
         /\ Cardinality(ReadyOf(p)') <= Cardinality(ReadyOf(p)) + Cardinality(HoldersOf(Unacked(w), p))
         /\ Cardinality(ReadyOf(p)) \in Nat /\ Cardinality(HoldersOf(Unacked(w), p)) \in Nat
<1> DEFINE H == HoldersOf(Unacked(w), p)
           D == JobsOf(p)
<1>1. IsFiniteSet(H)
  <2>1. H \in SUBSET SlotsOf(w)
    BY SlotFacts DEF HoldersOf
  <2> QED BY <2>1, SlotsOfFinite
<1>2. \A j \in D : ready[j] \in Nat /\ ready'[j] = ready[j] + Cardinality(Keyed(H, job, j))
  <2> TAKE j \in D
  <2>1. j \in Job /\ j.pred = p
    BY DEF JobsOf
  <2>2. Keyed(H, job, j) = {s \in Unacked(w) : job[s] = j}
    BY <2>1 DEF HoldersOf, Keyed
  <2> QED BY <2>1, <2>2 DEF Requeue, TypeOK
<1>3. IsFiniteSet(Numbered(ready, D))
  BY DEF ReadyOf
<1>4. ReadyOf(p)' = Numbered(ready', D) /\ ReadyOf(p) = Numbered(ready, D)
  BY DEF ReadyOf, JobsOf
<1> HIDE DEF H, D
<1>5. /\ IsFiniteSet(Numbered(ready', D)) /\ Cardinality(Numbered(ready', D)) \in Nat
      /\ Cardinality(Numbered(ready', D)) <= Cardinality(Numbered(ready, D)) + Cardinality(H)
      /\ Cardinality(Numbered(ready, D)) \in Nat /\ Cardinality(H) \in Nat
  BY ONLY <1>1, <1>2, <1>3, NumberedGrowth
<1> QED BY <1>4, <1>5 DEF H

(* What RowsPaidFor says of one prediction. *)
RowsFor(p) ==
  /\ results[p] + Cardinality(Saving(p)) <= copies[p] + slipped[p]
  /\ IsFiniteSet(ReadyOf(p))
  /\ results[p] = 0 => Cardinality(ReadyOf(p)) + Cardinality(Handling(p)) <= copies[p]

LEMMA RowsFacts ==
  ASSUME TypeOK, NEW p \in Predictions
  PROVE  /\ results[p] \in Nat /\ copies[p] \in Nat /\ slipped[p] \in Nat
         /\ Saving(p) \subseteq Handling(p)
         /\ IsFiniteSet(Saving(p)) /\ Cardinality(Saving(p)) \in Nat
         /\ IsFiniteSet(Handling(p)) /\ Cardinality(Handling(p)) \in Nat
         /\ IsFiniteSet(Saving(p)') /\ Cardinality(Saving(p)') \in Nat
         /\ IsFiniteSet(Handling(p)') /\ Cardinality(Handling(p)') \in Nat
<1>1. Saving(p) \in SUBSET Slots /\ Handling(p) \in SUBSET Slots /\ Saving(p) \subseteq Handling(p)
  BY DEF Saving, Handling
<1>2. Saving(p)' \in SUBSET Slots /\ Handling(p)' \in SUBSET Slots
  BY DEF Saving, Handling
<1> QED BY <1>1, <1>2, SlotsFinite DEF TypeOK

(* Handlers of p may only come to an end, or leave the steps before a save. *)
LEMMA RowsFrame ==
  ASSUME TypeOK, NEW p \in Predictions, RowsFor(p), results'[p] = results[p], copies'[p] = copies[p],
         slipped'[p] = slipped[p],
         ready' = ready, Saving(p)' \subseteq Saving(p), Handling(p)' \subseteq Handling(p)
  PROVE  RowsFor(p)'
<1>1. ReadyOf(p)' = ReadyOf(p)
  BY DEF ReadyOf
<1>2. IsFiniteSet(ReadyOf(p)) /\ Cardinality(ReadyOf(p)) \in Nat
  BY FS_CardinalityType DEF RowsFor
<1>3. /\ Cardinality(Saving(p)') <= Cardinality(Saving(p))
      /\ Cardinality(Handling(p)') <= Cardinality(Handling(p))
  BY RowsFacts, FS_Subset
<1> QED BY <1>1, <1>2, <1>3, RowsFacts DEF RowsFor

(* One slot's step: what the sets of handlers gain or lose. *)
LEMMA SlotMoves ==
  ASSUME TypeOK, NEW s \in Slots, NEW p \in Predictions,
         \A r \in Slots \ {s} : pc'[r] = pc[r] /\ job'[r] = job[r]
  PROVE  /\ Saving(p)' = IF pc'[s] \in {"score", "save"} /\ job'[s].pred = p
                         THEN Saving(p) \cup {s} ELSE Saving(p) \ {s}
         /\ Handling(p)' = IF pc'[s] \notin {"idle", "ackOriginal"} /\ job'[s].pred = p
                           THEN Handling(p) \cup {s} ELSE Handling(p) \ {s}
         /\ s \in Saving(p) <=> pc[s] \in {"score", "save"} /\ job[s].pred = p
         /\ s \in Handling(p) <=> pc[s] \notin {"idle", "ackOriginal"} /\ job[s].pred = p
  BY DEF Saving, Handling

(* One message more or less. *)
LEMMA ReadyMore ==
  ASSUME TypeOK, NEW p \in Predictions, RowsFor(p), NEW i \in Job, ready' = [ready EXCEPT ![i] = @ + 1]
  PROVE  /\ IsFiniteSet(ReadyOf(p)') /\ Cardinality(ReadyOf(p)) \in Nat
         /\ i.pred = p => Cardinality(ReadyOf(p)') = Cardinality(ReadyOf(p)) + 1
         /\ i.pred # p => Cardinality(ReadyOf(p)') = Cardinality(ReadyOf(p))
<1>1. ready \in [Job -> Nat] /\ ready' \in [Job -> Nat]
  BY DEF TypeOK
<1>2. /\ ReadyOf(p) = Numbered(ready, JobsOf(p)) /\ ReadyOf(p)' = Numbered(ready', JobsOf(p))
      /\ JobsOf(p) \in SUBSET Job /\ (i \in JobsOf(p) <=> i.pred = p)
  BY DEF ReadyOf, JobsOf
<1>3. IsFiniteSet(Numbered(ready, JobsOf(p)))
  BY DEF RowsFor, ReadyOf
<1>4. ready'[i] = ready[i] + 1 /\ \A j \in Job \ {i} : ready'[j] = ready[j]
  BY <1>1
<1>5. /\ IsFiniteSet(Numbered(ready', JobsOf(p))) /\ Cardinality(Numbered(ready, JobsOf(p))) \in Nat
      /\ i \in JobsOf(p) => Cardinality(Numbered(ready', JobsOf(p))) = Cardinality(Numbered(ready, JobsOf(p))) + 1
      /\ i \notin JobsOf(p) => Cardinality(Numbered(ready', JobsOf(p))) = Cardinality(Numbered(ready, JobsOf(p)))
  <2>1. \A c, m \in [Job -> Nat] :
          IsFiniteSet(Numbered(c, JobsOf(p))) /\ m[i] = c[i] + 1 /\ (\A j \in Job \ {i} : m[j] = c[j]) =>
            /\ IsFiniteSet(Numbered(m, JobsOf(p))) /\ Cardinality(Numbered(c, JobsOf(p))) \in Nat
            /\ i \in JobsOf(p) => Cardinality(Numbered(m, JobsOf(p))) = Cardinality(Numbered(c, JobsOf(p))) + 1
            /\ i \notin JobsOf(p) => Cardinality(Numbered(m, JobsOf(p))) = Cardinality(Numbered(c, JobsOf(p)))
    BY <1>2, OneMore
  <2> QED BY <1>1, <1>3, <1>4, <2>1
<1> QED BY <1>2, <1>5

LEMMA ReadyLess ==
  ASSUME TypeOK, NEW p \in Predictions, RowsFor(p), NEW i \in Job, ready[i] > 0,
         ready' = [ready EXCEPT ![i] = @ - 1]
  PROVE  /\ IsFiniteSet(ReadyOf(p)') /\ Cardinality(ReadyOf(p)') \in Nat
         /\ i.pred = p => Cardinality(ReadyOf(p)) = Cardinality(ReadyOf(p)') + 1
         /\ i.pred # p => Cardinality(ReadyOf(p)) = Cardinality(ReadyOf(p)')
<1>1. ready \in [Job -> Nat] /\ ready' \in [Job -> Nat]
  BY DEF TypeOK
<1>2. /\ ReadyOf(p) = Numbered(ready, JobsOf(p)) /\ ReadyOf(p)' = Numbered(ready', JobsOf(p))
      /\ JobsOf(p) \in SUBSET Job /\ (i \in JobsOf(p) <=> i.pred = p)
  BY DEF ReadyOf, JobsOf
<1>3. IsFiniteSet(Numbered(ready, JobsOf(p)))
  BY DEF RowsFor, ReadyOf
<1>4. ready'[i] = ready[i] - 1 /\ \A j \in Job \ {i} : ready'[j] = ready[j]
  BY <1>1
<1>5. /\ IsFiniteSet(Numbered(ready', JobsOf(p))) /\ Cardinality(Numbered(ready', JobsOf(p))) \in Nat
      /\ i \in JobsOf(p) => Cardinality(Numbered(ready, JobsOf(p))) = Cardinality(Numbered(ready', JobsOf(p))) + 1
      /\ i \notin JobsOf(p) => Cardinality(Numbered(ready, JobsOf(p))) = Cardinality(Numbered(ready', JobsOf(p)))
  <2>1. \A c, m \in [Job -> Nat] :
          IsFiniteSet(Numbered(c, JobsOf(p))) /\ c[i] > 0 /\ m[i] = c[i] - 1 /\ (\A j \in Job \ {i} : m[j] = c[j]) =>
            /\ IsFiniteSet(Numbered(m, JobsOf(p))) /\ Cardinality(Numbered(m, JobsOf(p))) \in Nat
            /\ i \in JobsOf(p) => Cardinality(Numbered(c, JobsOf(p))) = Cardinality(Numbered(m, JobsOf(p))) + 1
            /\ i \notin JobsOf(p) => Cardinality(Numbered(c, JobsOf(p))) = Cardinality(Numbered(m, JobsOf(p)))
    BY <1>2, OneLess
  <2> QED BY <1>1, <1>3, <1>4, <2>1
<1> QED BY <1>2, <1>5

LEMMA RowsChecked ==
  ASSUME TypeOK, NEW s \in Slots, CheckExisting(s), NEW p \in Predictions, RowsFor(p)
  PROVE  RowsFor(p)'
<1>1. /\ pc[s] = "check" /\ ready' = ready /\ results' = results /\ copies' = copies /\ slipped' = slipped /\ job' = job
      /\ pc'[s] = IF results[job[s].pred] > 0 THEN "ack" ELSE "score"
      /\ \A r \in Slots \ {s} : pc'[r] = pc[r] /\ job'[r] = job[r]
  BY DEF CheckExisting, HandlerStep, TypeOK, brokerVars, lateVars
<1>2. Handling(p)' = Handling(p) /\ (s \in Handling(p) <=> job[s].pred = p) /\ s \notin Saving(p)
  <2>1. pc'[s] \notin {"idle", "ackOriginal"} /\ job'[s] = job[s]
    BY <1>1
  <2>2. Handling(p)' = (IF job[s].pred = p THEN Handling(p) \cup {s} ELSE Handling(p) \ {s})
    BY <1>1, <2>1, SlotMoves
  <2> QED BY <1>1, <2>2 DEF Handling, Saving
<1>3. CASE job[s].pred = p /\ results[p] = 0
  <2>1. Saving(p)' = Saving(p) \cup {s} /\ Saving(p)' \subseteq Handling(p)
    BY <1>1, <1>2, <1>3, SlotMoves, RowsFacts
  <2>2. Cardinality(Saving(p)') <= Cardinality(Handling(p))
    BY <2>1, RowsFacts, FS_Subset
  <2>3. ReadyOf(p)' = ReadyOf(p) /\ Cardinality(ReadyOf(p)) \in Nat
    BY <1>1, FS_CardinalityType DEF ReadyOf, RowsFor
  <2> QED BY <1>1, <1>2, <1>3, <2>2, <2>3, RowsFacts DEF RowsFor
<1>4. CASE ~(job[s].pred = p /\ results[p] = 0)
  <2>1. Saving(p)' \subseteq Saving(p)
    BY <1>1, <1>4, SlotMoves, RowsFacts
  <2> QED BY <1>1, <1>2, <2>1, RowsFrame
<1> QED BY <1>3, <1>4

(* A row is stored: its handler no longer stands for one. *)
LEMMA RowsSaved ==
  ASSUME TypeOK, NEW s \in Slots, pc[s] = "save", pc'[s] \in {"incr", "retry"},
         ready' = ready, copies' = copies, slipped' = slipped, job' = job,
         results' = [results EXCEPT ![job[s].pred] = @ + 1],
         \A r \in Slots \ {s} : pc'[r] = pc[r] /\ job'[r] = job[r],
         NEW p \in Predictions, RowsFor(p)
  PROVE  RowsFor(p)'
<1>0. pc[s] \notin {"idle", "ackOriginal"} /\ pc'[s] \notin {"score", "save", "idle", "ackOriginal"} /\ job'[s] = job[s]
  OBVIOUS
<1>1. job[s].pred \in Predictions
  BY RunningSlot
<1>2. Handling(p)' = Handling(p) /\ Saving(p)' = Saving(p) \ {s} /\ (s \in Saving(p) <=> job[s].pred = p)
  <2>1. Handling(p)' = Handling(p)
    BY <1>0 DEF Handling
  <2>2. Saving(p)' = Saving(p) \ {s}
    BY <1>0 DEF Saving
  <2> QED BY <2>1, <2>2 DEF Saving
<1>3. CASE job[s].pred = p
  <2>1. results'[p] = results[p] + 1
    BY <1>1, <1>3 DEF TypeOK
  <2>2. Cardinality(Saving(p)') = Cardinality(Saving(p)) - 1
    <3>1. s \in Saving(p) /\ Saving(p)' = Saving(p) \ {s} /\ IsFiniteSet(Saving(p))
      BY <1>2, <1>3, RowsFacts
    <3> QED BY <3>1, FS_RemoveElement
  <2>3. ReadyOf(p)' = ReadyOf(p)
    BY DEF ReadyOf
  <2> QED BY <2>1, <2>2, <2>3, RowsFacts DEF RowsFor
<1>4. CASE job[s].pred # p
  <2>1. results'[p] = results[p]
    BY <1>1, <1>4 DEF TypeOK
  <2> QED BY <1>2, <2>1, RowsFrame
<1> QED BY <1>3, <1>4

LEMMA RowsDelivered ==
  ASSUME TypeOK, NEW s \in Slots, NEW i \in Job, Deliver(s, i), NEW p \in Predictions, RowsFor(p)
  PROVE  RowsFor(p)'
<1>1. /\ pc[s] = "idle" /\ pc'[s] = "check" /\ job'[s] = i /\ results' = results /\ copies' = copies /\ slipped' = slipped
      /\ ready[i] > 0 /\ ready' = [ready EXCEPT ![i] = @ - 1]
      /\ \A r \in Slots \ {s} : pc'[r] = pc[r] /\ job'[r] = job[r]
  BY DEF Deliver, HandlerStep, TypeOK, adminVars, lateVars
<1>2. Saving(p)' = Saving(p) /\ s \notin Handling(p)
      /\ (i.pred = p => Handling(p)' = Handling(p) \cup {s})
      /\ (i.pred # p => Handling(p)' = Handling(p))
  <2>1. Saving(p)' = Saving(p) /\ s \notin Handling(p)
    BY <1>1 DEF Saving, Handling
  <2>2. i.pred = p => Handling(p)' = Handling(p) \cup {s}
    BY <1>1 DEF Handling
  <2>3. i.pred # p => Handling(p)' = Handling(p)
    BY <1>1 DEF Handling
  <2> QED BY <2>1, <2>2, <2>3
<1>3. /\ IsFiniteSet(ReadyOf(p)') /\ Cardinality(ReadyOf(p)') \in Nat
      /\ i.pred = p => Cardinality(ReadyOf(p)) = Cardinality(ReadyOf(p)') + 1
      /\ i.pred # p => Cardinality(ReadyOf(p)) = Cardinality(ReadyOf(p)')
  BY <1>1, ReadyLess
<1>4. CASE i.pred = p
  <2>1. IsFiniteSet(Handling(p)) /\ s \notin Handling(p)
    BY <1>2, RowsFacts
  <2>2. Cardinality(Handling(p) \cup {s}) = Cardinality(Handling(p)) + 1
    BY <2>1, FS_AddElement
  <2>3. Cardinality(Handling(p)') = Cardinality(Handling(p)) + 1
    BY <1>2, <1>4, <2>2
  <2> QED BY <1>1, <1>2, <1>3, <1>4, <2>3, RowsFacts DEF RowsFor
<1>5. CASE i.pred # p
  BY <1>1, <1>2, <1>3, <1>5, RowsFacts DEF RowsFor
<1> QED BY <1>4, <1>5

(* A message more: for a copy more, or for a handler less. *)
LEMMA RowsPublished ==
  ASSUME TypeOK, NEW t \in Triggers, NEW q \in Predictions, PublishJob(t, q), NEW p \in Predictions, RowsFor(p)
  PROVE  RowsFor(p)'
<1>1. PICK i \in Job : i.pred = q /\ ready' = [ready EXCEPT ![i] = @ + 1]
  <2>1. [pred |-> q, retry |-> 0] \in Job
    BY MaxRetriesAssumption DEF Job
  <2> QED BY <2>1 DEF PublishJob
<1>2. /\ pc' = pc /\ job' = job /\ results' = results /\ slipped' = slipped
      /\ q = p => copies'[p] = copies[p] + 1
      /\ q # p => copies'[p] = copies[p]
  BY DEF PublishJob, TypeOK, lateVars
<1>3. Saving(p)' = Saving(p) /\ Handling(p)' = Handling(p)
  BY <1>2 DEF Saving, Handling
<1>4. /\ IsFiniteSet(ReadyOf(p)') /\ Cardinality(ReadyOf(p)) \in Nat
      /\ q = p => Cardinality(ReadyOf(p)') = Cardinality(ReadyOf(p)) + 1
      /\ q # p => Cardinality(ReadyOf(p)') = Cardinality(ReadyOf(p))
  BY <1>1, ReadyMore
<1> QED BY <1>2, <1>3, <1>4, RowsFacts DEF RowsFor

LEMMA RowsRepublished ==
  ASSUME TypeOK, NEW s \in Slots, Republish(s), NEW p \in Predictions, RowsFor(p)
  PROVE  RowsFor(p)'
<1>1. pc[s] = "retry" /\ pc'[s] = "ackOriginal" /\ job' = job /\ results' = results /\ copies' = copies /\ slipped' = slipped
      /\ \A r \in Slots \ {s} : pc'[r] = pc[r] /\ job'[r] = job[r]
  BY DEF Republish, HandlerStep, TypeOK, lateVars
<1>2. PICK i \in Job : i.pred = job[s].pred /\ ready' = [ready EXCEPT ![i] = @ + 1]
  <2>1. [pred |-> job[s].pred, retry |-> RetryCount(s)] \in Job
    BY <1>1, RunningSlot, MaxRetriesAssumption DEF Republish, RetryCount, Job
  <2> QED BY <2>1 DEF Republish
<1>3. /\ IsFiniteSet(ReadyOf(p)') /\ Cardinality(ReadyOf(p)) \in Nat
      /\ i.pred = p => Cardinality(ReadyOf(p)') = Cardinality(ReadyOf(p)) + 1
      /\ i.pred # p => Cardinality(ReadyOf(p)') = Cardinality(ReadyOf(p))
  BY <1>2, ReadyMore
<1>4. Saving(p)' = Saving(p) /\ Handling(p)' = Handling(p) \ {s} /\ (s \in Handling(p) <=> i.pred = p)
  <2>1. s \notin Saving(p) /\ Saving(p)' = Saving(p) \ {s} /\ Handling(p)' = Handling(p) \ {s}
        /\ (s \in Handling(p) <=> job[s].pred = p)
    BY <1>1, SlotMoves
  <2> QED BY <1>2, <2>1
<1>5. CASE i.pred = p
  <2>1. IsFiniteSet(Handling(p)) /\ s \in Handling(p)
    BY <1>4, <1>5, RowsFacts
  <2>2. Cardinality(Handling(p) \ {s}) = Cardinality(Handling(p)) - 1
    BY <2>1, FS_RemoveElement
  <2> QED BY <1>1, <1>3, <1>4, <1>5, <2>2, RowsFacts DEF RowsFor
<1>6. CASE i.pred # p
  <2>1. Handling(p)' = Handling(p)
    BY <1>4, <1>6
  <2> QED BY <1>1, <1>3, <1>4, <1>6, <2>1, RowsFacts DEF RowsFor
<1> QED BY <1>5, <1>6

(* The messages of a lost connection are ready again while its handlers run *)
(* on: each of them is a copy more.                                         *)
LEMMA RowsDisconnected ==
  ASSUME TypeOK, NEW w \in Workers, Disconnect(w), NEW p \in Predictions, RowsFor(p)
  PROVE  RowsFor(p)'
<1>1. pc' = pc /\ job' = job /\ results' = results /\ slipped' = slipped /\ Requeue(w)
      /\ copies'[p] = copies[p] + Cardinality(HoldersOf(Unacked(w), p))
  BY DEF Disconnect, Duplicated, lateVars
<1>2. Saving(p)' = Saving(p) /\ Handling(p)' = Handling(p)
  BY <1>1 DEF Saving, Handling
<1>3. /\ IsFiniteSet(ReadyOf(p)') /\ Cardinality(ReadyOf(p)') \in Nat
      /\ Cardinality(ReadyOf(p)') <= Cardinality(ReadyOf(p)) + Cardinality(HoldersOf(Unacked(w), p))
      /\ Cardinality(ReadyOf(p)) \in Nat /\ Cardinality(HoldersOf(Unacked(w), p)) \in Nat
  BY <1>1, RequeuedMessages DEF RowsFor
<1> QED BY <1>1, <1>2, <1>3, RowsFacts DEF RowsFor

(* A restart ends the worker's handlers; only a message whose copy had been *)
(* put back counts anew.                                                    *)
LEMMA RowsRestarted ==
  ASSUME TypeOK, NEW w \in Workers, Restart(w), NEW p \in Predictions, RowsFor(p)
  PROVE  RowsFor(p)'
<1> DEFINE Held == HoldersOf(Unacked(w), p)
           Back == HoldersOf({s \in Unacked(w) : pc[s] = "ackOriginal"}, p)
           Gone == Held \ Back
<1>1. results' = results /\ slipped' = slipped /\ Requeue(w) /\ copies'[p] = copies[p] + Cardinality(Back)
  BY DEF Restart, Duplicated
<1>2. \A s \in Slots : /\ s \in SlotsOf(w) => pc'[s] = "idle"
                       /\ s \notin SlotsOf(w) => pc'[s] = pc[s] /\ job'[s] = job[s]
  BY DEF Restart
<1>3. Saving(p)' \subseteq Saving(p) /\ Handling(p)' \subseteq Handling(p)
  BY <1>2 DEF Saving, Handling
<1>4. Gone \subseteq Handling(p) /\ Gone \cap Handling(p)' = {}
  <2>1. \A s \in Gone : s \in Slots /\ s \in SlotsOf(w) /\ pc[s] \notin {"idle", "ackOriginal"} /\ job[s].pred = p
    BY SlotFacts DEF HoldersOf, Unacked
  <2> QED BY <1>2, <2>1 DEF Handling
<1>5. Back \subseteq Held
  BY DEF HoldersOf
<1>6. IsFiniteSet(Held) /\ IsFiniteSet(Back) /\ IsFiniteSet(Gone)
      /\ Cardinality(Held) \in Nat /\ Cardinality(Back) \in Nat /\ Cardinality(Gone) \in Nat
  <2>1. Held \in SUBSET Slots /\ Back \in SUBSET Slots /\ Gone \in SUBSET Slots
    BY SlotFacts DEF HoldersOf
  <2> QED BY <2>1, SlotsFinite
<1> HIDE DEF Held, Back
<1>7. Cardinality(Gone) = Cardinality(Held) - Cardinality(Back)
  <2>1. Held \cap Back = Back
    BY <1>5
  <2> QED BY <1>6, <2>1, FS_Difference
<1> HIDE DEF Gone
<1>8. Cardinality(Handling(p)') + Cardinality(Gone) <= Cardinality(Handling(p))
  <2>1. /\ Cardinality(Handling(p)' \cup Gone) = Cardinality(Handling(p)') + Cardinality(Gone)
        /\ IsFiniteSet(Handling(p)' \cup Gone)
    <3>1. Handling(p)' \cap Gone = {} /\ IsFiniteSet(Handling(p)') /\ IsFiniteSet(Gone)
          /\ Cardinality(Handling(p)') \in Nat
      BY <1>4, <1>6, RowsFacts
    <3>2. /\ IsFiniteSet(Handling(p)' \cup Gone)
          /\ Cardinality(Handling(p)' \cup Gone) =
               Cardinality(Handling(p)') + Cardinality(Gone) - Cardinality(Handling(p)' \cap Gone)
      BY <3>1, FS_Union
    <3>3. Cardinality(Handling(p)' \cap Gone) = 0
      BY <3>1, FS_EmptySet
    <3> QED BY <1>6, <3>1, <3>2, <3>3
  <2>2. Cardinality(Handling(p)' \cup Gone) <= Cardinality(Handling(p))
    <3>1. Handling(p)' \cup Gone \in SUBSET Handling(p)
      BY <1>3, <1>4
    <3> QED BY <3>1, RowsFacts, FS_Subset
  <2> QED BY <2>1, <2>2
<1>9. /\ IsFiniteSet(ReadyOf(p)') /\ Cardinality(ReadyOf(p)') \in Nat
      /\ Cardinality(ReadyOf(p)') <= Cardinality(ReadyOf(p)) + Cardinality(Held)
      /\ Cardinality(ReadyOf(p)) \in Nat
  BY <1>1, RequeuedMessages DEF RowsFor, Held
<1>10. Cardinality(Saving(p)') <= Cardinality(Saving(p))
  BY <1>3, RowsFacts, FS_Subset
<1> QED BY <1>1, <1>6, <1>7, <1>8, <1>9, <1>10, RowsFacts DEF RowsFor

(* An INSERT in flight commits: as the first row of a copy, or past a check. *)
LEMMA RowsInserted ==
  ASSUME TypeOK, OnlyQueuedJobs, NEW q \in Predictions, LateInsert(q), NEW p \in Predictions, RowsFor(p)
  PROVE  RowsFor(p)'
<1>1. /\ UNCHANGED <<pc, job, ready, copies>> /\ inflight[q] > 0
      /\ results'[q] = results[q] + 1
      /\ \/ results[q] = 0 /\ Saving(q) = {} /\ slipped'[q] = slipped[q]
         \/ slipped'[q] = slipped[q] + 1
      /\ p # q => results'[p] = results[p] /\ slipped'[p] = slipped[p]
  BY DEF LateInsert, TypeOK, brokerVars
<1>2. Saving(p)' = Saving(p) /\ Handling(p)' = Handling(p) /\ ReadyOf(p)' = ReadyOf(p)
  BY <1>1 DEF Saving, Handling, ReadyOf
<1>3. copies[q] > 0
  BY <1>1 DEF OnlyQueuedJobs
<1>4. CASE p = q
  <2>1. Saving(p) = {} => Cardinality(Saving(p)) = 0
    BY FS_EmptySet
  <2> QED BY <1>1, <1>2, <1>3, <1>4, <2>1, RowsFacts DEF RowsFor
<1>5. CASE p # q
  BY <1>1, <1>2, <1>5, RowsFrame
<1> QED BY <1>4, <1>5

LEMMA RowsStep ==
  ASSUME TypeOK, RowsPaidFor, OnlyQueuedJobs, [Next]_vars
  PROVE  RowsPaidFor'
<1> SUFFICES ASSUME NEW p \in Predictions PROVE RowsFor(p)'
  BY DEF RowsPaidFor, RowsFor
<1>0. RowsFor(p)
  BY DEF RowsPaidFor, RowsFor
<1>1. ASSUME UNCHANGED <<results, copies, slipped, ready, pc, job>> PROVE RowsFor(p)'
  <2>1. Saving(p)' = Saving(p) /\ Handling(p)' = Handling(p)
    BY <1>1 DEF Saving, Handling
  <2> QED BY <1>0, <1>1, <2>1, RowsFrame
<1>2. ASSUME NEW q \in Predictions, CreatePrediction(q) PROVE RowsFor(p)'
  BY <1>1, <1>2 DEF CreatePrediction, brokerVars, lateVars
<1>3. ASSUME NEW t \in Triggers, RunTrigger(t) PROVE RowsFor(p)'
  <2>1. ASSUME NEW q \in Predictions, PublishJob(t, q) PROVE RowsFor(p)'
    BY <1>0, <2>1, RowsPublished
  <2>2. CASE \/ SelectUnprocessed(t) \/ ReadTotal(t) \/ SetTotal(t) \/ SetProcessed(t)
             \/ FinishTrigger(t) \/ FailTrigger(t)
    BY <1>1, <2>2 DEF SelectUnprocessed, ReadTotal, SetTotal, SetProcessed, FinishTrigger, FailTrigger, brokerVars, lateVars
  <2> QED BY <1>3, <2>1, <2>2 DEF RunTrigger
<1>4. ASSUME NEW s \in Slots, NEW j \in Job, Deliver(s, j) PROVE RowsFor(p)'
  BY <1>0, <1>4, RowsDelivered
<1>5. ASSUME NEW w \in Workers, Restart(w) PROVE RowsFor(p)'
  BY <1>0, <1>5, RowsRestarted
<1>6. ASSUME NEW s \in Slots, pc'[s] \notin {"score", "save"} \/ pc[s] \in {"score", "save"},
             pc'[s] \in {"idle", "ackOriginal"} \/ pc[s] \notin {"idle", "ackOriginal"},
             pc'[s] \in {"idle", "ackOriginal"} \/ job'[s] = job[s],
             UNCHANGED <<results, copies, slipped, ready>>,
             \A r \in Slots \ {s} : pc'[r] = pc[r] /\ job'[r] = job[r]
      PROVE  RowsFor(p)'
  <2>1. Saving(p)' \subseteq Saving(p) /\ Handling(p)' \subseteq Handling(p)
    BY <1>6, SlotMoves
  <2> QED BY <1>0, <1>6, <2>1, RowsFrame
<1>7. ASSUME NEW s \in Slots, RunHandler(s) PROVE RowsFor(p)'
  <2>1. CASE CheckExisting(s)
    BY <1>0, <2>1, RowsChecked
  <2>2. CASE ScorePrediction(s) \/ CountProcessed(s)
    <3>1. /\ pc[s] \in {"score", "incr"} /\ pc'[s] \in {"retry", "save", "ack"}
          /\ pc'[s] = "save" => pc[s] = "score"
          /\ UNCHANGED <<results, copies, slipped, ready, job>> /\ \A r \in Slots \ {s} : pc'[r] = pc[r]
      BY <2>2 DEF ScorePrediction, CountProcessed, HandlerStep, TypeOK, brokerVars, lateVars
    <3> QED BY <1>6, <3>1
  <2>3. CASE SaveResult(s)
    <3>1. /\ pc[s] = "save" /\ pc'[s] = "incr" /\ ready' = ready /\ copies' = copies /\ slipped' = slipped /\ job' = job
          /\ results' = [results EXCEPT ![job[s].pred] = @ + 1]
          /\ \A r \in Slots \ {s} : pc'[r] = pc[r] /\ job'[r] = job[r]
      BY <2>3 DEF SaveResult, HandlerStep, TypeOK, brokerVars, lateVars
    <3> QED BY <1>0, <3>1, RowsSaved
  <2>4. CASE AckJob(s) \/ AckOriginal(s) \/ DeadLetter(s)
    <3>1. /\ pc'[s] = "idle" /\ UNCHANGED <<results, copies, slipped, ready>>
          /\ \A r \in Slots \ {s} : pc'[r] = pc[r] /\ job'[r] = job[r]
      BY <2>4 DEF AckJob, AckOriginal, DeadLetter, FreeSlot, HandlerStep, TypeOK, brokerVars, lateVars
    <3> QED BY <1>6, <3>1
  <2>5. CASE Republish(s)
    BY <1>0, <2>5, RowsRepublished
  <2>6. CASE ChannelClosed(s)
    BY <1>5, <2>6 DEF ChannelClosed, Slots
  <2> QED BY <1>7, <2>1, <2>2, <2>3, <2>4, <2>5, <2>6 DEF RunHandler
<1>8. ASSUME NEW s \in Slots, HandlerFault(s) PROVE RowsFor(p)'
  <2>1. /\ pc[s] \in {"check", "score", "save", "incr"} /\ pc'[s] = "retry"
        /\ UNCHANGED <<results, copies, slipped, ready, job>>
        /\ \A r \in Slots \ {s} : pc'[r] = pc[r] /\ job'[r] = job[r]
    BY <1>8 DEF HandlerFault, TypeOK, brokerVars
  <2> QED BY <1>6, <2>1
<1>9. ASSUME NEW w \in Workers, Crash(w) \/ Disconnect(w) PROVE RowsFor(p)'
  BY <1>0, <1>5, <1>9, RowsDisconnected DEF Crash
<1>10. CASE Rest \/ UNCHANGED vars
  BY <1>1, <1>10 DEF Rest, vars
<1>11. ASSUME NEW q \in Predictions, LateInsert(q) PROVE RowsFor(p)'
  BY <1>0, <1>11, RowsInserted
<1>12. CASE LateCount \/ Resend
  BY <1>1, <1>12 DEF LateCount, Resend, brokerVars
<1> QED BY <1>2, <1>3, <1>4, <1>7, <1>8, <1>9, <1>10, <1>11, <1>12 DEF Next

LEMMA InitRows == Init => RowsPaidFor
<1> SUFFICES ASSUME Init, NEW p \in Predictions PROVE RowsFor(p)
  BY DEF RowsPaidFor, RowsFor
<1>1. /\ ready \in [Job -> Nat] /\ \A j \in JobsOf(p) : ready[j] = 0
      /\ JobsOf(p) \in SUBSET Job
  BY DEF Init, JobsOf
<1>2. IsFiniteSet(ReadyOf(p)) /\ Cardinality(ReadyOf(p)) = 0
  BY <1>1, NothingNumbered DEF ReadyOf
<1>3. Saving(p) = {} /\ Handling(p) = {} /\ results[p] = 0 /\ copies[p] = 0 /\ slipped[p] = 0
  BY DEF Init, Saving, Handling
<1> QED BY <1>2, <1>3, FS_EmptySet DEF RowsFor

-----------------------------------------------------------------------------
(* The counter accounts for the rows: a handler that will count has stored  *)
(* a row nobody counted, and a row nobody will count is that of a handler   *)
(* cut short.                                                               *)
LEMMA CountsFacts ==
  ASSUME TypeOK, CountsPaidFor
  PROVE  /\ processed \in Nat /\ wiped \in Nat /\ lateCounts \in Nat /\ resent \in Nat
         /\ IsFiniteSet(Counting) /\ Cardinality(Counting) \in Nat
         /\ Cardinality(ResultRows) \in Nat /\ Cardinality(RowsInFlight) \in Nat
         /\ IsFiniteSet(Disconnected) /\ Cardinality(Disconnected) \in Nat
         /\ Prefetch \in Nat /\ FailedCalls \in Int /\ Ended \in Int
<1>1. Counting \in SUBSET Slots /\ Disconnected \in SUBSET Workers
  BY DEF Counting, Disconnected
<1>2. IsFiniteSet(Disconnected) /\ Cardinality(Disconnected) \in Nat
  BY <1>1, WorkersAssumption, FS_Subset, FS_CardinalityType
<1>3. Cardinality(ResultRows) \in Nat /\ Cardinality(RowsInFlight) \in Nat
  BY FS_CardinalityType DEF CountsPaidFor
<1>4. Prefetch \in Nat /\ FailedCalls \in Int /\ Ended \in Int
  BY <1>2, WorkersAssumption, BudgetAssumption DEF TypeOK, FailedCalls, Ended
<1> QED BY <1>1, <1>2, <1>3, <1>4, SlotsFinite DEF TypeOK

(* The same of the next state. *)
LEMMA NextFacts ==
  ASSUME TypeOK'
  PROVE  /\ processed' \in Nat /\ wiped' \in Nat /\ lateCounts' \in Nat /\ resent' \in Nat
         /\ IsFiniteSet(Counting') /\ Cardinality(Counting') \in Nat
         /\ IsFiniteSet(Disconnected') /\ Cardinality(Disconnected') \in Nat
         /\ FailedCalls' \in Int /\ Ended' \in Int
<1>1. Counting' \in SUBSET Slots /\ Disconnected' \in SUBSET Workers
  BY DEF Counting, Disconnected
<1>2. IsFiniteSet(Disconnected') /\ Cardinality(Disconnected') \in Nat
  BY <1>1, WorkersAssumption, FS_Subset, FS_CardinalityType
<1>3. FailedCalls' \in Int /\ Ended' \in Int
  BY <1>2, BudgetAssumption DEF TypeOK, FailedCalls, Ended
<1> QED BY <1>1, <1>2, <1>3, SlotsFinite DEF TypeOK

(* Both bounds survive a step that brings the counter no further ahead of   *)
(* the rows and, counting the handlers ended, no further behind them.       *)
LEMMA CountsMove ==
  ASSUME TypeOK, TypeOK', CountsPaidFor, IsFiniteSet(ResultRows'), IsFiniteSet(RowsInFlight'),
         NEW rows \in Int, Cardinality(ResultRows') = Cardinality(ResultRows) + rows,
         NEW sent \in Int, Cardinality(RowsInFlight') <= Cardinality(RowsInFlight) + sent,
         NEW ended \in Nat, Ended' >= Ended + ended,
         (processed' + wiped' + Cardinality(Counting') + lateCounts') + resent <=
           (processed + wiped + Cardinality(Counting) + lateCounts) + rows + resent',
         rows + sent + (processed + wiped + Cardinality(Counting)) + FailedCalls <=
           (processed' + wiped' + Cardinality(Counting')) + FailedCalls' + Prefetch * ended
  PROVE  CountsPaidFor'
<1>1. Cardinality(ResultRows') \in Nat /\ Cardinality(RowsInFlight') \in Nat
  BY FS_CardinalityType
<1>2. Prefetch * Ended + Prefetch * ended <= Prefetch * Ended'
  <2>1. PICK d \in Nat : Ended' = (Ended + ended) + d
    <3>1. Ended' - (Ended + ended) \in Nat
      BY CountsFacts, NextFacts
    <3>2. Ended' = (Ended + ended) + (Ended' - (Ended + ended))
      BY CountsFacts, NextFacts
    <3> QED BY <3>1, <3>2
  <2>2. \A n, d2 \in Nat : n * d2 \in Nat
    OBVIOUS
  <2>3. \A n, e2, d2 \in Nat : \A i \in Int : n * ((i + e2) + d2) = n * i + n * e2 + n * d2
    OBVIOUS
  <2>4. Prefetch * Ended' = Prefetch * Ended + Prefetch * ended + Prefetch * d
    BY <2>1, <2>3, CountsFacts
  <2>5. Prefetch * d \in Nat /\ Prefetch * ended \in Nat /\ Prefetch * Ended \in Int
    BY <2>2, CountsFacts
  <2> QED BY <2>4, <2>5
<1>3. Prefetch * Ended \in Int /\ Prefetch * Ended' \in Int /\ Prefetch * ended \in Int
  BY CountsFacts, NextFacts
<1> DEFINE a == Prefetch * Ended
           b == Prefetch * Ended'
           c == Prefetch * ended
<1>4. /\ processed' + wiped' + Cardinality(Counting') + lateCounts' <= Cardinality(ResultRows') + resent'
      /\ Cardinality(ResultRows') + Cardinality(RowsInFlight') <=
           processed' + wiped' + Cardinality(Counting') + FailedCalls' + b
  <2>1. a \in Int /\ b \in Int /\ c \in Int /\ a + c <= b
    BY <1>2, <1>3
  <2>2. /\ processed + wiped + Cardinality(Counting) + lateCounts <= Cardinality(ResultRows) + resent
        /\ Cardinality(ResultRows) + Cardinality(RowsInFlight) <=
             processed + wiped + Cardinality(Counting) + FailedCalls + a
        /\ rows + sent + (processed + wiped + Cardinality(Counting)) + FailedCalls <=
             (processed' + wiped' + Cardinality(Counting')) + FailedCalls' + c
    BY DEF CountsPaidFor
  <2> HIDE DEF a, b, c
  <2> QED BY <1>1, <2>1, <2>2, CountsFacts, NextFacts
<1> QED BY <1>4 DEF CountsPaidFor

(* No row is stored or in flight anew, and no worker or channel ends.       *)
LEMMA CountsFrame ==
  ASSUME TypeOK, TypeOK', CountsPaidFor,
         UNCHANGED <<results, inflight, crashes, disconnects, conn>>,
         (processed' + wiped' + Cardinality(Counting') + lateCounts') + resent <=
           (processed + wiped + Cardinality(Counting) + lateCounts) + resent',
         (processed + wiped + Cardinality(Counting)) + FailedCalls <=
           (processed' + wiped' + Cardinality(Counting')) + FailedCalls'
  PROVE  CountsPaidFor'
<1>1. ResultRows' = ResultRows /\ RowsInFlight' = RowsInFlight /\ Ended' = Ended
  BY DEF ResultRows, RowsInFlight, Ended, Disconnected
<1>2. IsFiniteSet(ResultRows') /\ IsFiniteSet(RowsInFlight')
  BY <1>1 DEF CountsPaidFor
<1>3. /\ Cardinality(ResultRows') = Cardinality(ResultRows) + 0
      /\ Cardinality(RowsInFlight') <= Cardinality(RowsInFlight) + 0
      /\ Ended' >= Ended + 0
  BY <1>1, CountsFacts
<1>4. Prefetch * 0 = 0
  BY CountsFacts
<1>5. /\ (processed' + wiped' + Cardinality(Counting') + lateCounts') + resent <=
           (processed + wiped + Cardinality(Counting) + lateCounts) + 0 + resent'
      /\ 0 + 0 + (processed + wiped + Cardinality(Counting)) + FailedCalls <=
           (processed' + wiped' + Cardinality(Counting')) + FailedCalls' + Prefetch * 0
  BY <1>4, CountsFacts, NextFacts
<1>6. 0 \in Int /\ 0 \in Nat
  OBVIOUS
<1> QED BY <1>2, <1>3, <1>5, <1>6, CountsMove

(* A step that touches nothing the bounds speak of. *)
LEMMA CountsSame ==
  ASSUME TypeOK, TypeOK', CountsPaidFor,
         UNCHANGED <<results, inflight, crashes, disconnects, conn, lateCounts, resent, processed,
                     wiped, faults>>,
         \A s \in Slots : pc'[s] = "incr" <=> pc[s] = "incr"
  PROVE  CountsPaidFor'
<1>1. Counting' = Counting /\ FailedCalls' = FailedCalls
  BY DEF Counting, FailedCalls
<1> QED BY <1>1, CountsFrame, CountsFacts

(* One more row of q, or one more of its INSERTs. *)
LEMMA OneRow ==
  ASSUME NEW q \in Predictions, NEW c \in [Predictions -> Nat], NEW m \in [Predictions -> Nat],
         m[q] = c[q] + 1, \A p \in Predictions \ {q} : m[p] = c[p]
  PROVE  /\ IsFiniteSet(Numbered(c, Predictions)) =>
              /\ IsFiniteSet(Numbered(m, Predictions)) /\ Cardinality(Numbered(c, Predictions)) \in Nat
              /\ Cardinality(Numbered(m, Predictions)) = Cardinality(Numbered(c, Predictions)) + 1
         /\ IsFiniteSet(Numbered(m, Predictions)) =>
              /\ IsFiniteSet(Numbered(c, Predictions)) /\ Cardinality(Numbered(c, Predictions)) \in Nat
              /\ Cardinality(Numbered(m, Predictions)) = Cardinality(Numbered(c, Predictions)) + 1
<1>1. Predictions \in SUBSET Predictions
  OBVIOUS
<1>2. ASSUME IsFiniteSet(Numbered(c, Predictions))
      PROVE  /\ IsFiniteSet(Numbered(m, Predictions)) /\ Cardinality(Numbered(c, Predictions)) \in Nat
             /\ Cardinality(Numbered(m, Predictions)) = Cardinality(Numbered(c, Predictions)) + 1
  BY <1>1, <1>2, OneMore
<1>3. ASSUME IsFiniteSet(Numbered(m, Predictions))
      PROVE  /\ IsFiniteSet(Numbered(c, Predictions)) /\ Cardinality(Numbered(c, Predictions)) \in Nat
             /\ Cardinality(Numbered(m, Predictions)) = Cardinality(Numbered(c, Predictions)) + 1
  <2>1. m[q] > 0 /\ c[q] = m[q] - 1 /\ \A p \in Predictions \ {q} : c[p] = m[p]
    <3>1. c[q] \in Nat
      OBVIOUS
    <3> QED BY <3>1
  <2> QED BY <1>1, <1>3, <2>1, OneLess
<1> QED BY <1>2, <1>3

LEMMA CountsSaved ==
  ASSUME TypeOK, TypeOK', CountsPaidFor, NEW s \in Slots, SaveResult(s)
  PROVE  CountsPaidFor'
<1>1. /\ pc[s] = "save" /\ pc' = [pc EXCEPT ![s] = "incr"] /\ processed' = processed
      /\ results' = [results EXCEPT ![job[s].pred] = @ + 1]
      /\ UNCHANGED <<inflight, lateCounts, resent, wiped, faults, crashes, disconnects, conn>>
  BY DEF SaveResult, HandlerStep, lateVars, budgetVars
<1>2. job[s].pred \in Predictions
  BY <1>1, RunningSlot
<1>3. s \notin Counting /\ Counting' = Counting \cup {s}
  BY <1>1 DEF Counting, TypeOK
<1>4. Cardinality(Counting') = Cardinality(Counting) + 1
  <2>1. IsFiniteSet(Counting)
    BY CountsFacts
  <2> QED BY <1>3, <2>1, FS_AddElement
<1>5. IsFiniteSet(ResultRows') /\ Cardinality(ResultRows') = Cardinality(ResultRows) + 1
  <2>1. /\ results \in [Predictions -> Nat] /\ results' \in [Predictions -> Nat]
        /\ results'[job[s].pred] = results[job[s].pred] + 1
        /\ \A p \in Predictions \ {job[s].pred} : results'[p] = results[p]
    BY <1>1, <1>2 DEF TypeOK
  <2>2. IsFiniteSet(Numbered(results, Predictions))
    BY DEF CountsPaidFor, ResultRows
  <2>3. /\ IsFiniteSet(Numbered(results', Predictions))
        /\ Cardinality(Numbered(results', Predictions)) = Cardinality(Numbered(results, Predictions)) + 1
    BY ONLY <1>2, <2>1, <2>2, OneRow
  <2> QED BY <2>3 DEF ResultRows
<1>6. RowsInFlight' = RowsInFlight /\ Ended' = Ended /\ FailedCalls' = FailedCalls
  BY <1>1 DEF RowsInFlight, Ended, Disconnected, FailedCalls
<1>7. /\ IsFiniteSet(RowsInFlight') /\ Ended' >= Ended + 0 /\ Prefetch * 0 = 0
      /\ Cardinality(RowsInFlight') <= Cardinality(RowsInFlight) + 0
  BY <1>6, CountsFacts DEF CountsPaidFor
<1>8. /\ (processed' + wiped' + Cardinality(Counting') + lateCounts') + resent <=
           (processed + wiped + Cardinality(Counting) + lateCounts) + 1 + resent'
      /\ 1 + 0 + (processed + wiped + Cardinality(Counting)) + FailedCalls <=
           (processed' + wiped' + Cardinality(Counting')) + FailedCalls' + Prefetch * 0
  BY <1>1, <1>4, <1>6, <1>7, CountsFacts
<1>9. 0 \in Int /\ 1 \in Int /\ 0 \in Nat
  OBVIOUS
<1> QED BY <1>5, <1>7, <1>8, <1>9, CountsMove

LEMMA CountsInserted ==
  ASSUME TypeOK, TypeOK', CountsPaidFor, NEW q \in Predictions, LateInsert(q)
  PROVE  CountsPaidFor'
<1>1. /\ inflight[q] > 0 /\ inflight' = [inflight EXCEPT ![q] = @ - 1]
      /\ results' = [results EXCEPT ![q] = @ + 1]
      /\ UNCHANGED <<pc, processed, lateCounts, resent, wiped, faults, crashes, disconnects, conn>>
  BY DEF LateInsert, budgetVars
<1>2. Counting' = Counting /\ Ended' = Ended /\ FailedCalls' = FailedCalls
  BY <1>1 DEF Counting, Ended, Disconnected, FailedCalls
<1>3. IsFiniteSet(ResultRows') /\ Cardinality(ResultRows') = Cardinality(ResultRows) + 1
  <2>1. /\ results \in [Predictions -> Nat] /\ results' \in [Predictions -> Nat]
        /\ results'[q] = results[q] + 1 /\ \A p \in Predictions \ {q} : results'[p] = results[p]
    BY <1>1 DEF TypeOK
  <2>2. IsFiniteSet(Numbered(results, Predictions))
    BY DEF CountsPaidFor, ResultRows
  <2>3. /\ IsFiniteSet(Numbered(results', Predictions))
        /\ Cardinality(Numbered(results', Predictions)) = Cardinality(Numbered(results, Predictions)) + 1
    BY ONLY <2>1, <2>2, q \in Predictions, OneRow
  <2> QED BY <2>3 DEF ResultRows
<1>4. IsFiniteSet(RowsInFlight') /\ Cardinality(RowsInFlight) = Cardinality(RowsInFlight') + 1
      /\ Cardinality(RowsInFlight') \in Nat
  <2>1. /\ inflight \in [Predictions -> Nat] /\ inflight' \in [Predictions -> Nat]
        /\ inflight[q] = inflight'[q] + 1 /\ \A p \in Predictions \ {q} : inflight[p] = inflight'[p]
    BY <1>1 DEF TypeOK
  <2>2. IsFiniteSet(Numbered(inflight, Predictions))
    BY DEF CountsPaidFor, RowsInFlight
  <2>3. /\ IsFiniteSet(Numbered(inflight', Predictions))
        /\ Cardinality(Numbered(inflight, Predictions)) = Cardinality(Numbered(inflight', Predictions)) + 1
        /\ Cardinality(Numbered(inflight', Predictions)) \in Nat
    BY ONLY <2>1, <2>2, q \in Predictions, OneRow
  <2> QED BY <2>3 DEF RowsInFlight
<1>5. /\ Ended' >= Ended + 0 /\ Prefetch * 0 = 0
      /\ Cardinality(RowsInFlight') <= Cardinality(RowsInFlight) + (-1)
  BY <1>2, <1>4, CountsFacts
<1>6. /\ (processed' + wiped' + Cardinality(Counting') + lateCounts') + resent <=
           (processed + wiped + Cardinality(Counting) + lateCounts) + 1 + resent'
      /\ 1 + (-1) + (processed + wiped + Cardinality(Counting)) + FailedCalls <=
           (processed' + wiped' + Cardinality(Counting')) + FailedCalls' + Prefetch * 0
  BY <1>1, <1>2, <1>5, CountsFacts
<1>7. -1 \in Int /\ 1 \in Int /\ 0 \in Nat
  OBVIOUS
<1> QED BY <1>3, <1>4, <1>5, <1>6, <1>7, CountsMove

(* Handlers that end or go on without an answer: each leaves at most one    *)
(* INSERT in flight or one row uncounted.                                   *)
LEMMA Abandoned ==
  ASSUME TypeOK, TypeOK', CountsPaidFor, NEW S \in SUBSET Slots, Abandon(S), Counting' = Counting \ S
  PROVE  /\ IsFiniteSet(RowsInFlight') /\ Cardinality(RowsInFlight') \in Nat /\ Cardinality(S) \in Nat
         /\ Cardinality(RowsInFlight') + Cardinality(Counting) <=
              Cardinality(RowsInFlight) + Cardinality(Counting') + Cardinality(S)
         /\ Cardinality(Counting') + lateCounts' = Cardinality(Counting) + lateCounts
<1> DEFINE saving   == {s \in S : pc[s] = "save"}
           counting == {s \in S : pc[s] = "incr"}
           key      == [s \in saving |-> job[s].pred]
<1>1. /\ IsFiniteSet(saving) /\ IsFiniteSet(counting) /\ IsFiniteSet(S)
      /\ Cardinality(saving) \in Nat /\ Cardinality(counting) \in Nat /\ Cardinality(S) \in Nat
  <2>1. saving \in SUBSET Slots /\ counting \in SUBSET Slots
    OBVIOUS
  <2> QED BY <2>1, SlotsFinite
<1>2. saving \cap counting = {} /\ saving \cup counting \in SUBSET S
  OBVIOUS
<1>3. Counting \cap S = counting
  BY DEF Counting
<1>4. /\ \A p \in Predictions : inflight[p] \in Nat
      /\ \A p \in Predictions : inflight'[p] = inflight[p] + Cardinality(Keyed(saving, key, p))
      /\ lateCounts' = lateCounts + Cardinality(counting)
  <2>1. \A p \in Predictions : Keyed(saving, key, p) = HoldersOf({s \in S : pc[s] = "save"}, p)
    BY DEF HoldersOf, Keyed
  <2> QED BY <2>1 DEF Abandon, TypeOK
<1> HIDE DEF saving, counting, key
<1>5. /\ IsFiniteSet(RowsInFlight') /\ Cardinality(RowsInFlight') \in Nat
      /\ Cardinality(RowsInFlight') <= Cardinality(RowsInFlight) + Cardinality(saving)
  <2>1. IsFiniteSet(Numbered(inflight, Predictions))
    BY DEF CountsPaidFor, RowsInFlight
  <2>2. /\ IsFiniteSet(Numbered(inflight', Predictions)) /\ Cardinality(Numbered(inflight', Predictions)) \in Nat
        /\ Cardinality(Numbered(inflight', Predictions)) <= Cardinality(Numbered(inflight, Predictions)) + Cardinality(saving)
    BY ONLY <1>1, <1>4, <2>1, NumberedGrowth
  <2> QED BY <2>2 DEF RowsInFlight
<1>6. Cardinality(saving) + Cardinality(counting) <= Cardinality(S)
  <2>1. /\ Cardinality(saving \cup counting) =
             Cardinality(saving) + Cardinality(counting) - Cardinality(saving \cap counting)
        /\ IsFiniteSet(saving \cup counting)
    BY <1>1, FS_Union
  <2>2. Cardinality(saving \cap counting) = 0
    BY <1>2, FS_EmptySet
  <2>3. Cardinality(saving \cup counting) <= Cardinality(S)
    BY <1>1, <1>2, FS_Subset
  <2> QED BY <1>1, <2>1, <2>2, <2>3
<1>7. Cardinality(Counting') = Cardinality(Counting) - Cardinality(counting)
  <2>1. IsFiniteSet(Counting)
    BY CountsFacts
  <2>2. Cardinality(Counting \ S) = Cardinality(Counting) - Cardinality(Counting \cap S)
    BY <1>1, <2>1, FS_Difference
  <2> QED BY <1>3, <2>2
<1> QED BY <1>1, <1>4, <1>5, <1>6, <1>7, CountsFacts

LEMMA CountsFaulted ==
  ASSUME TypeOK, TypeOK', CountsPaidFor, NEW s \in Slots, HandlerFault(s)
  PROVE  CountsPaidFor'
<1>1. /\ faults' = faults - 1 /\ pc' = [pc EXCEPT ![s] = "retry"] /\ Abandon({s})
      /\ UNCHANGED <<results, processed, resent, wiped, crashes, disconnects, conn>>
  BY DEF HandlerFault
<1>2. {s} \in SUBSET Slots /\ Counting' = Counting \ {s} /\ Cardinality({s}) = 1
  BY <1>1, FS_Singleton DEF Counting, TypeOK
<1>3. /\ IsFiniteSet(RowsInFlight') /\ Cardinality(RowsInFlight') \in Nat
      /\ Cardinality(RowsInFlight') + Cardinality(Counting) <=
           Cardinality(RowsInFlight) + Cardinality(Counting') + Cardinality({s})
      /\ Cardinality(Counting') + lateCounts' = Cardinality(Counting) + lateCounts
  BY <1>1, <1>2, Abandoned
<1>4. ResultRows' = ResultRows /\ Ended' = Ended
  BY <1>1 DEF ResultRows, Ended, Disconnected
<1>5. FailedCalls' = FailedCalls + 1
  BY <1>1, BudgetAssumption DEF FailedCalls, TypeOK
<1> DEFINE sent == Cardinality(RowsInFlight') - Cardinality(RowsInFlight)
<1>6. /\ sent \in Int /\ IsFiniteSet(ResultRows') /\ Ended' >= Ended + 0 /\ Prefetch * 0 = 0
      /\ Cardinality(ResultRows') = Cardinality(ResultRows) + 0
      /\ Cardinality(RowsInFlight') <= Cardinality(RowsInFlight) + sent
  BY <1>3, <1>4, CountsFacts DEF CountsPaidFor
<1>7. /\ (processed' + wiped' + Cardinality(Counting') + lateCounts') + resent <=
           (processed + wiped + Cardinality(Counting) + lateCounts) + 0 + resent'
      /\ 0 + sent + (processed + wiped + Cardinality(Counting)) + FailedCalls <=
           (processed' + wiped' + Cardinality(Counting')) + FailedCalls' + Prefetch * 0
  BY <1>1, <1>2, <1>3, <1>5, <1>6, CountsFacts, NextFacts
<1>8. 0 \in Int /\ 0 \in Nat
  OBVIOUS
<1> HIDE DEF sent
<1> QED BY <1>3, <1>6, <1>7, <1>8, CountsMove

LEMMA CountsRestarted ==
  ASSUME TypeOK, TypeOK', CountsPaidFor, NEW w \in Workers, Restart(w), Ended' >= Ended + 1
  PROVE  CountsPaidFor'
<1>1. Abandon(SlotsOf(w)) /\ UNCHANGED <<results, processed, resent, wiped, faults>>
  BY DEF Restart
<1>2. SlotsOf(w) \in SUBSET Slots /\ Counting' = Counting \ SlotsOf(w)
  BY SlotFacts DEF Restart, Counting
<1>3. Cardinality(SlotsOf(w)) = Prefetch
  <2>1. 1 \in Int /\ Prefetch \in Int /\ Prefetch \in Nat /\ Prefetch >= 1
    BY WorkersAssumption
  <2>2. IsFiniteSet(1 .. Prefetch) /\ Cardinality(1 .. Prefetch) = Prefetch
    <3>1. /\ IsFiniteSet(1 .. Prefetch)
          /\ Cardinality(1 .. Prefetch) = IF 1 > Prefetch THEN 0 ELSE Prefetch - 1 + 1
      BY ONLY <2>1, FS_Interval
    <3> QED BY <2>1, <3>1
  <2>3. IsFiniteSet({w}) /\ Cardinality({w}) = 1
    BY FS_Singleton
  <2>4. Cardinality({w} \X (1 .. Prefetch)) = Cardinality({w}) * Cardinality(1 .. Prefetch)
    BY ONLY <2>2, <2>3, FS_Product
  <2> QED BY <2>1, <2>2, <2>3, <2>4 DEF SlotsOf
<1>4. /\ IsFiniteSet(RowsInFlight') /\ Cardinality(RowsInFlight') \in Nat
      /\ Cardinality(RowsInFlight') + Cardinality(Counting) <=
           Cardinality(RowsInFlight) + Cardinality(Counting') + Cardinality(SlotsOf(w))
      /\ Cardinality(Counting') + lateCounts' = Cardinality(Counting) + lateCounts
  BY <1>1, <1>2, Abandoned
<1>5. ResultRows' = ResultRows /\ FailedCalls' = FailedCalls
  BY <1>1 DEF ResultRows, FailedCalls
<1> DEFINE sent == Cardinality(RowsInFlight') - Cardinality(RowsInFlight)
<1>6. /\ sent \in Int /\ IsFiniteSet(ResultRows') /\ Prefetch * 1 = Prefetch
      /\ Cardinality(ResultRows') = Cardinality(ResultRows) + 0
      /\ Cardinality(RowsInFlight') <= Cardinality(RowsInFlight) + sent
  BY <1>4, <1>5, CountsFacts DEF CountsPaidFor
<1>7. /\ (processed' + wiped' + Cardinality(Counting') + lateCounts') + resent <=
           (processed + wiped + Cardinality(Counting) + lateCounts) + 0 + resent'
      /\ 0 + sent + (processed + wiped + Cardinality(Counting)) + FailedCalls <=
           (processed' + wiped' + Cardinality(Counting')) + FailedCalls' + Prefetch * 1
  BY <1>1, <1>3, <1>4, <1>5, <1>6, CountsFacts, NextFacts
<1>8. 0 \in Int /\ 1 \in Nat
  OBVIOUS
<1> HIDE DEF sent
<1> QED BY <1>4, <1>6, <1>7, <1>8, CountsMove

(* How many workers are without their channel when one of them restarts or  *)
(* loses it.                                                                *)
LEMMA DisconnectedFacts ==
  ASSUME TypeOK, NEW w \in Workers, conn' = [conn EXCEPT ![w] = ~@] \/ conn' = [conn EXCEPT ![w] = TRUE]
  PROVE  /\ conn' = [conn EXCEPT ![w] = TRUE] /\ conn[w] =>
              Cardinality(Disconnected') = Cardinality(Disconnected)
         /\ conn' = [conn EXCEPT ![w] = TRUE] /\ ~conn[w] =>
              Cardinality(Disconnected') = Cardinality(Disconnected) - 1
         /\ conn' = [conn EXCEPT ![w] = FALSE] /\ conn[w] =>
              Cardinality(Disconnected') = Cardinality(Disconnected) + 1
<1>1. IsFiniteSet(Disconnected)
  BY WorkersAssumption, FS_Subset DEF Disconnected
<1>2. w \in Disconnected <=> ~conn[w]
  BY DEF Disconnected
<1>3. ASSUME conn' = [conn EXCEPT ![w] = TRUE]
      PROVE  Disconnected' = Disconnected \ {w}
  BY <1>3 DEF Disconnected, TypeOK
<1>4. ASSUME conn' = [conn EXCEPT ![w] = FALSE]
      PROVE  Disconnected' = Disconnected \cup {w}
  BY <1>4 DEF Disconnected, TypeOK
<1>5. /\ w \notin Disconnected => Disconnected \ {w} = Disconnected
      /\ w \in Disconnected => Cardinality(Disconnected \ {w}) = Cardinality(Disconnected) - 1
      /\ w \notin Disconnected => Cardinality(Disconnected \cup {w}) = Cardinality(Disconnected) + 1
  BY <1>1, FS_RemoveElement, FS_AddElement
<1> QED BY <1>2, <1>3, <1>4, <1>5

LEMMA CountsStep ==
  ASSUME TypeOK, CountsPaidFor, [Next]_vars
  PROVE  CountsPaidFor'
<1>0. TypeOK'
  BY StepTypeOK
<1>1. /\ FaultBudget \in Nat /\ CrashBudget \in Nat /\ DisconnectBudget \in Nat
      /\ faults \in Nat /\ crashes \in Nat /\ disconnects \in Nat
  BY BudgetAssumption DEF TypeOK
<1>2. ASSUME NEW p \in Predictions, CreatePrediction(p) PROVE CountsPaidFor'
  BY <1>0, <1>2, CountsSame DEF CreatePrediction, budgetVars, lateVars
<1>3. ASSUME ResetProcessed, UNCHANGED <<results, inflight, crashes, disconnects, conn, lateCounts, pc>>,
             resent' \in {resent, resent + 1}, FailedCalls' = FailedCalls
      PROVE  CountsPaidFor'
  <2>1. Counting' = Counting
    BY <1>3 DEF Counting
  <2> QED BY <1>0, <1>3, <2>1, CountsFrame, CountsFacts DEF ResetProcessed
<1>4. ASSUME NEW t \in Triggers, RunTrigger(t) PROVE CountsPaidFor'
  <2>1. CASE SetProcessed(t)
    <3>1. /\ ResetProcessed /\ resent' = resent /\ FailedCalls' = FailedCalls
          /\ UNCHANGED <<results, inflight, crashes, disconnects, conn, lateCounts, pc>>
      BY <2>1 DEF SetProcessed, budgetVars, FailedCalls
    <3> QED BY <1>3, <3>1
  <2>2. CASE \/ SelectUnprocessed(t) \/ ReadTotal(t) \/ SetTotal(t) \/ FinishTrigger(t)
             \/ FailTrigger(t) \/ \E p \in Predictions : PublishJob(t, p)
    BY <1>0, <2>2, CountsSame
       DEF SelectUnprocessed, ReadTotal, SetTotal, PublishJob, FinishTrigger, FailTrigger,
           budgetVars, lateVars
  <2> QED BY <1>4, <2>1, <2>2 DEF RunTrigger
<1>5. ASSUME NEW s \in Slots, NEW j \in Job, Deliver(s, j) PROVE CountsPaidFor'
  <2>1. \A r \in Slots : pc'[r] = "incr" <=> pc[r] = "incr"
    BY <1>5 DEF Deliver, HandlerStep, TypeOK
  <2> QED BY <1>0, <1>5, <2>1, CountsSame DEF Deliver, budgetVars, lateVars
<1>6. ASSUME NEW w \in Workers, Crash(w) PROVE CountsPaidFor'
  <2>1. /\ Restart(w) /\ conn' = [conn EXCEPT ![w] = TRUE]
        /\ crashes' = crashes - 1 /\ disconnects' = disconnects
    BY <1>6 DEF Crash, Restart
  <2>2. Cardinality(Disconnected') \in {Cardinality(Disconnected), Cardinality(Disconnected) - 1}
    BY <2>1, DisconnectedFacts
  <2>3. Ended' >= Ended + 1
    BY <1>0, <1>1, <2>1, <2>2, CountsFacts, NextFacts DEF Ended
  <2> QED BY <1>0, <2>1, <2>3, CountsRestarted
<1>7. ASSUME NEW s \in Slots, ChannelClosed(s) PROVE CountsPaidFor'
  <2>1. /\ s[1] \in Workers /\ Restart(s[1]) /\ conn' = [conn EXCEPT ![s[1]] = TRUE] /\ ~conn[s[1]]
        /\ crashes' = crashes /\ disconnects' = disconnects
    BY <1>7 DEF ChannelClosed, Restart, Slots
  <2>2. Cardinality(Disconnected') = Cardinality(Disconnected) - 1
    BY <2>1, DisconnectedFacts
  <2>3. Ended' >= Ended + 1
    BY <1>0, <1>1, <2>1, <2>2, CountsFacts, NextFacts DEF Ended
  <2> QED BY <1>0, <2>1, <2>3, CountsRestarted
<1>8. ASSUME NEW w \in Workers, Disconnect(w) PROVE CountsPaidFor'
  <2>1. /\ conn[w] /\ conn' = [conn EXCEPT ![w] = FALSE] /\ disconnects' = disconnects - 1
        /\ UNCHANGED <<crashes, faults, pc, results, processed, inflight, lateCounts, resent, wiped>>
    BY <1>8 DEF Disconnect, lateVars
  <2>2. conn' = [conn EXCEPT ![w] = ~@]
    BY <2>1 DEF TypeOK
  <2>3. Cardinality(Disconnected') = Cardinality(Disconnected) + 1
    BY <2>1, <2>2, DisconnectedFacts
  <2>4. Ended' = Ended
    BY <1>0, <1>1, <2>1, <2>3, CountsFacts, NextFacts DEF Ended
  <2>5. /\ Counting' = Counting /\ ResultRows' = ResultRows /\ RowsInFlight' = RowsInFlight
        /\ FailedCalls' = FailedCalls
    BY <2>1 DEF Counting, ResultRows, RowsInFlight, FailedCalls
  <2> QED BY <2>1, <2>4, <2>5 DEF CountsPaidFor
<1>9. ASSUME NEW s \in Slots, RunHandler(s) PROVE CountsPaidFor'
  <2>1. CASE CheckExisting(s) \/ ScorePrediction(s) \/ AckJob(s) \/ Republish(s) \/ AckOriginal(s) \/ DeadLetter(s)
    <3>1. /\ UNCHANGED <<results, inflight, crashes, disconnects, conn, lateCounts, resent, processed,
                         wiped, faults>>
          /\ \A r \in Slots : pc'[r] = "incr" <=> pc[r] = "incr"
      BY <2>1 DEF CheckExisting, ScorePrediction, AckJob, Republish, AckOriginal, DeadLetter,
                  HandlerStep, TypeOK, budgetVars, lateVars
    <3> QED BY <1>0, <3>1, CountsSame
  <2>2. CASE SaveResult(s)
    BY <1>0, <2>2, CountsSaved
  <2>3. CASE CountProcessed(s)
    <3>1. /\ pc[s] = "incr" /\ pc' = [pc EXCEPT ![s] = "ack"] /\ processed' = processed + 1
          /\ UNCHANGED <<results, inflight, crashes, disconnects, conn, lateCounts, resent, wiped, faults>>
      BY <2>3 DEF CountProcessed, HandlerStep, budgetVars, lateVars
    <3>2. s \in Counting /\ Counting' = Counting \ {s} /\ FailedCalls' = FailedCalls
      BY <3>1 DEF Counting, FailedCalls, TypeOK
    <3>3. Cardinality(Counting') = Cardinality(Counting) - 1
      <4>1. IsFiniteSet(Counting)
        BY CountsFacts
      <4> QED BY <3>2, <4>1, FS_RemoveElement
    <3> QED BY <1>0, <3>1, <3>2, <3>3, CountsFrame, CountsFacts
  <2> QED BY <1>7, <1>9, <2>1, <2>2, <2>3 DEF RunHandler
<1>10. ASSUME NEW s \in Slots, HandlerFault(s) PROVE CountsPaidFor'
  BY <1>0, <1>10, CountsFaulted
<1>11. ASSUME NEW p \in Predictions, LateInsert(p) PROVE CountsPaidFor'
  BY <1>0, <1>11, CountsInserted
<1>12. CASE LateCount
  <2>1. /\ lateCounts' = lateCounts - 1 /\ processed' = processed + 1
        /\ UNCHANGED <<results, inflight, crashes, disconnects, conn, pc, resent, wiped, faults>>
    BY <1>12 DEF LateCount, budgetVars
  <2>2. Counting' = Counting /\ FailedCalls' = FailedCalls
    BY <2>1 DEF Counting, FailedCalls
  <2> QED BY <1>0, <2>1, <2>2, CountsFrame, CountsFacts
<1>13. CASE Resend
  <2>1. /\ faults' = faults - 1 /\ resent' = resent + 1
        /\ UNCHANGED <<results, inflight, crashes, disconnects, conn, lateCounts, pc>>
        /\ \/ processed' = processed + 1 /\ wiped' = wiped
           \/ processed' = processed /\ wiped' = wiped
           \/ ResetProcessed
    BY <1>13 DEF Resend
  <2>2. Counting' = Counting /\ FailedCalls' = FailedCalls
    BY <1>1, <2>1, CountsFacts DEF Counting, FailedCalls
  <2>3. CASE ResetProcessed
    BY <1>3, <2>1, <2>2, <2>3
  <2>4. CASE processed' \in {processed, processed + 1} /\ wiped' = wiped
    BY <1>0, <2>1, <2>2, <2>4, CountsFrame, CountsFacts
  <2> QED BY <2>1, <2>3, <2>4
<1>14. CASE Rest \/ UNCHANGED vars
  BY <1>0, <1>14, CountsSame DEF Rest, vars
<1> QED BY <1>2, <1>4, <1>5, <1>6, <1>8, <1>9, <1>10, <1>11, <1>12, <1>13, <1>14 DEF Next

LEMMA InitCounts == Init => CountsPaidFor
<1> SUFFICES ASSUME Init PROVE CountsPaidFor
  OBVIOUS
<1>1. /\ results \in [Predictions -> Nat] /\ \A p \in Predictions : results[p] = 0
      /\ inflight \in [Predictions -> Nat] /\ \A p \in Predictions : inflight[p] = 0
      /\ Predictions \in SUBSET Predictions
  BY DEF Init
<1>2. /\ IsFiniteSet(ResultRows) /\ Cardinality(ResultRows) = 0
      /\ IsFiniteSet(RowsInFlight) /\ Cardinality(RowsInFlight) = 0
  BY <1>1, NothingNumbered DEF ResultRows, RowsInFlight
<1>3. /\ Counting = {} /\ Disconnected = {}
      /\ processed = 0 /\ wiped = 0 /\ lateCounts = 0 /\ resent = 0
  BY DEF Init, Counting, Disconnected
<1>4. Cardinality(Counting) = 0 /\ Cardinality(Disconnected) = 0
  BY <1>3, FS_EmptySet
<1>5. FailedCalls = 0 /\ Ended = 0
  BY <1>3, <1>4, BudgetAssumption DEF Init, FailedCalls, Ended
<1>6. Prefetch * 0 = 0
  BY WorkersAssumption
<1> QED BY <1>2, <1>3, <1>4, <1>5, <1>6 DEF CountsPaidFor

-----------------------------------------------------------------------------
(* The inductive invariant and what follows from it.                        *)
LEMMA InitIInv == Init => IInv
<1> SUFFICES ASSUME Init
             PROVE  IInv
  OBVIOUS
<1>1. TypeOK
  BY InitTypeOK
<1>2. RowBeforeAck /\ OnlyQueuedJobs
  BY DEF Init, RowBeforeAck, OnlyQueuedJobs, Job
<1>3. RetriesNeedFaults /\ DeadLetterNeedsFaults
  BY BudgetAssumption DEF Init, RetriesNeedFaults, DeadLetterNeedsFaults, FailedCalls
<1>4. NoLostPrediction
  BY DEF Init, NoLostPrediction
<1>5. RowsPaidFor /\ CountsPaidFor
  BY InitRows, InitCounts
<1> QED BY <1>1, <1>2, <1>3, <1>4, <1>5 DEF IInv

LEMMA StepIInv == IInv /\ [Next]_vars => IInv'
  BY StepTypeOK, RowBeforeAckStep, OnlyQueuedStep, RetriesStep, NoLostStep, DeadLetterStep,
     RowsStep, CountsStep
     DEF IInv

LEMMA AlwaysIInv == Spec => []IInv
  BY InitIInv, StepIInv, PTL DEF Spec

(* No job is lost, whatever crashes, lost connections, failed calls and     *)
(* orders of acknowledgement: what a trigger queued has a result row, is    *)
(* dead-lettered, or is still going to be delivered.                        *)
THEOREM NoJobLost == Spec => []NoLostPrediction
<1>1. IInv => NoLostPrediction
  BY DEF IInv
<1> QED BY <1>1, AlwaysIInv, PTL

(* A prediction has at most one result row per time its job was handed out  *)
(* anew and per INSERT that committed after the check of the next handler:  *)
(* however handlers interleave and whatever crashes or fails, retries and   *)
(* redeliveries add no other.                                               *)
THEOREM RowsPerCopy == Spec => []RowsBoundedByCopies
<1>1. ASSUME IInv PROVE RowsBoundedByCopies
  <2> SUFFICES ASSUME NEW p \in Predictions PROVE results[p] <= copies[p] + slipped[p]
    BY DEF RowsBoundedByCopies
  <2>1. TypeOK /\ RowsFor(p)
    BY <1>1 DEF IInv, RowsPaidFor, RowsFor
  <2> QED BY <2>1, RowsFacts DEF RowsFor
<1> QED BY <1>1, AlwaysIInv, PTL

(* prediction:stats:processed and what its resets threw away account for    *)
(* the rows of table results: too many only by commands sent twice, too few *)
(* only by handlers that have yet to count or were kept from it, at most    *)
(* one row for a failed call and Prefetch rows for a worker that ended or   *)
(* lost its channel.                                                        *)
THEOREM CounterAccounts == Spec => []CounterAccountsForRows
<1>1. ASSUME IInv PROVE CounterAccountsForRows
  <2>1. TypeOK /\ CountsPaidFor
    BY <1>1 DEF IInv
  <2>2. /\ processed \in Nat /\ wiped \in Nat /\ lateCounts \in Nat /\ resent \in Nat
        /\ Cardinality(Counting) \in Nat /\ Cardinality(ResultRows) \in Nat
        /\ Cardinality(RowsInFlight) \in Nat /\ Cardinality(Disconnected) \in Nat
        /\ Prefetch \in Nat /\ FailedCalls \in Int /\ Ended \in Int
    BY <2>1, CountsFacts
  <2> DEFINE used == (CrashBudget - crashes) + (DisconnectBudget - disconnects)
  <2>3. used \in Int /\ Ended = used - Cardinality(Disconnected)
    <3>1. crashes \in Nat /\ disconnects \in Nat
      BY <2>1 DEF TypeOK
    <3> QED BY <2>2, <3>1, BudgetAssumption DEF Ended
  <2>4. CutShort = FailedCalls + Prefetch * used
    BY DEF CutShort
  <2> HIDE DEF used
  <2>5. Prefetch * Ended <= Prefetch * used
    <3>1. \A a, b, n \in Nat : n * b >= 0
      OBVIOUS
    <3>2. Prefetch * used = Prefetch * Ended + Prefetch * Cardinality(Disconnected)
      BY <2>2, <2>3
    <3>3. Prefetch * Cardinality(Disconnected) >= 0
      BY <2>2, <3>1
    <3> QED BY <2>2, <2>3, <3>2, <3>3
  <2>6. Prefetch * Ended \in Int /\ Prefetch * used \in Int
    BY <2>2, <2>3
  <2> QED BY <2>1, <2>2, <2>4, <2>5, <2>6 DEF CountsPaidFor, CounterAccountsForRows
<1> QED BY <1>1, AlwaysIInv, PTL

(* What the comment at the check for processed predictions and the monitor's *)
(* message claim is true while no job is handed out twice, no late INSERT    *)
(* slipped past a check, no command was sent twice and the total stands for  *)
(* every prediction queued: then each counted row is of another prediction,  *)
(* so as many rows as the total leave none without one.                      *)
THEOREM ClaimsHold == Spec => []ClaimsHoldOnce
<1>1. ASSUME TypeOK, RowsBoundedByCopies, CounterAccountsForRows, IsFiniteSet(ResultRows),
             \A p \in Predictions : copies[p] <= 1 /\ slipped[p] = 0, resent = 0
      PROVE  /\ AtMostOneResult
             /\ total # NoStats /\ Cardinality(HandedOut) <= total => CompleteMeansDone
  <2>1. \A p \in Predictions : results[p] \in Nat /\ copies[p] \in Nat /\ results[p] <= copies[p]
    <3>1. \A p \in Predictions : /\ results[p] \in Nat /\ copies[p] \in Nat /\ slipped[p] = 0
                                 /\ results[p] <= copies[p] + slipped[p]
      BY <1>1 DEF TypeOK, RowsBoundedByCopies
    <3> QED BY <3>1
  <2>2. \A p \in Predictions : results[p] <= 1
    BY <1>1, <2>1
  <2>3. ASSUME total # NoStats, Cardinality(HandedOut) <= total, processed >= total,
               NEW q \in Predictions, copies[q] > 0, ~Outcome(q)
        PROVE  FALSE
    <3> DEFINE others == HandedOut \ {q}
               of     == [x \in ResultRows |-> x[1]]
    <3>1. results[q] = 0
      BY <2>1, <2>3 DEF Outcome
    <3>2. \A x \in ResultRows : \E p \in others : x = <<p, 1>>
      <4> SUFFICES ASSUME NEW x \in ResultRows
                   PROVE  \E p \in others : x = <<p, 1>>
        OBVIOUS
      <4>1. PICK p \in Predictions, n \in Nat : 1 <= n /\ n <= results[p] /\ x = <<p, n>>
        BY <2>1, NumberedMembers DEF ResultRows
      <4>2. n = 1 /\ copies[p] > 0 /\ p # q
        BY <2>1, <2>2, <3>1, <4>1
      <4> QED BY <4>1, <4>2 DEF HandedOut
    <3>3. of \in Injection(ResultRows, others)
      <4>1. of \in [ResultRows -> others]
        BY <3>2
      <4>2. \A x, y \in ResultRows : of[x] = of[y] => x = y
        BY <3>2
      <4> QED BY <4>1, <4>2 DEF Injection, IsInjective
    <3>4. IsFiniteSet(HandedOut) /\ q \in HandedOut
      BY <2>3, PredictionsAssumption, FS_Subset DEF HandedOut
    <3>5. IsFiniteSet(others) /\ Cardinality(others) = Cardinality(HandedOut) - 1
      BY <3>4, FS_RemoveElement
    <3>6. Cardinality(ResultRows) <= Cardinality(others)
      BY <1>1, <3>3, <3>5, FS_Injection
    <3>7. /\ Cardinality(ResultRows) \in Nat /\ Cardinality(HandedOut) \in Nat
          /\ processed \in Nat /\ wiped \in Nat /\ total \in Nat
      BY <1>1, <2>3, <3>4, FS_CardinalityType DEF TypeOK
    <3>8. processed + wiped <= Cardinality(ResultRows)
      BY <1>1, <3>7 DEF CounterAccountsForRows
    <3> HIDE DEF others, of
    <3> QED BY <2>3, <3>5, <3>6, <3>7, <3>8
  <2> QED BY <2>2, <2>3 DEF AtMostOneResult, CompleteMeansDone
<1>2. IInv => TypeOK /\ IsFiniteSet(ResultRows)
  BY DEF IInv, CountsPaidFor
<1> QED BY <1>1, <1>2, AlwaysIInv, RowsPerCopy, CounterAccounts, PTL DEF ClaimsHoldOnce

(* A prediction whose payload can be scored reaches the dead letter queue   *)
(* only after MaxRetries failed calls of its handlers.                      *)
THEOREM DeadLettersPaidFor == Spec => []DeadLetterNeedsFaults
<1>1. IInv => DeadLetterNeedsFaults
  BY DEF IInv
<1> QED BY <1>1, AlwaysIInv, PTL

-----------------------------------------------------------------------------
(* Refinement: each step of the pipeline moves every prediction along the   *)
(* life cycle of ScoringLifecycle, or leaves it where it is.                *)
LEMMA InitRefines == Init => Lifecycle!Init
  BY DEF Init, Lifecycle!Init, Status, Live, Job

(* A result row is never removed.                                           *)
LEMMA RowsKept ==
  ASSUME TypeOK, [Next]_vars, NEW p \in Predictions, results[p] > 0
  PROVE  results'[p] > 0
<1>1. ASSUME NEW q \in Predictions, LateInsert(q)
      PROVE  results'[p] > 0
  BY <1>1 DEF LateInsert, TypeOK
<1>2. CASE results' = results
  BY <1>2
<1>3. ASSUME NEW s \in Slots, SaveResult(s)
      PROVE  results'[p] > 0
  BY <1>3 DEF SaveResult, TypeOK
<1> QED
  BY <1>1, <1>2, <1>3
     DEF Next, CreatePrediction, RunTrigger, SelectUnprocessed, ReadTotal, SetTotal,
         SetProcessed, PublishJob, FinishTrigger, FailTrigger, Deliver, RunHandler,
         CheckExisting, ScorePrediction, CountProcessed, HandlerFault, AckJob, Republish, AckOriginal,
         DeadLetter, ChannelClosed, Restart, Crash, Disconnect, LateCount, Resend, Rest, vars

(* A prediction nobody queued has no message and no handler, so no step     *)
(* gives it an outcome; and only a stored one can be queued.                *)
LEMMA UnqueuedStays ==
  ASSUME IInv, [Next]_vars, NEW p \in Predictions, ~(copies[p] > 0), ~Outcome(p)
  PROVE  /\ ~Outcome(p)'
         /\ copies'[p] > 0 => p \in stored
         /\ p \in stored => p \in stored'
<1> USE DEF IInv
<1>1. \A s \in Slots : pc[s] # "idle" => job[s].pred # p
  BY DEF OnlyQueuedJobs
<1>2. ~Outcome(p)'
  <2>1. ASSUME NEW s \in Slots, SaveResult(s) \/ DeadLetter(s)
        PROVE  ~Outcome(p)'
    <3>1. pc[s] # "idle"
      BY <2>1 DEF SaveResult, DeadLetter, HandlerStep
    <3>2. job[s].pred # p /\ job[s].pred \in Predictions
      BY <1>1, <3>1, RunningSlot
    <3>3. results'[p] = results[p] /\ dlq'[p] = dlq[p]
      BY <2>1, <3>2 DEF SaveResult, DeadLetter, brokerVars, TypeOK
    <3> QED BY <3>3 DEF Outcome
  <2>2. CASE UNCHANGED <<results, dlq>>
    BY <2>2 DEF Outcome
  <2>3. ASSUME NEW q \in Predictions, LateInsert(q)
        PROVE  ~Outcome(p)'
    <3>1. q # p
      BY <2>3 DEF LateInsert, OnlyQueuedJobs
    <3> QED BY <2>3, <3>1 DEF LateInsert, Outcome, brokerVars, TypeOK
  <2> QED
    BY <2>1, <2>2, <2>3
       DEF Next, CreatePrediction, RunTrigger, SelectUnprocessed, ReadTotal, SetTotal,
           SetProcessed, PublishJob, FinishTrigger, FailTrigger, Deliver, RunHandler,
           CheckExisting, ScorePrediction, CountProcessed, HandlerFault, AckJob, Republish,
           AckOriginal, ChannelClosed, Restart, Crash, Disconnect, LateCount, Resend, Rest, vars,
           brokerVars
<1>3. copies'[p] > 0 => p \in stored
  <2>1. ASSUME NEW t \in Triggers, NEW q \in Predictions, PublishJob(t, q), copies'[p] > 0
        PROVE  p \in stored
    BY <2>1 DEF PublishJob, OnlyQueuedJobs, TypeOK
  <2>2. ASSUME NEW w \in Workers, NEW S \in SUBSET Unacked(w), Duplicated(S)
        PROVE  ~(copies'[p] > 0)
    <3>1. \A s \in S : s \in Slots /\ pc[s] # "idle"
      BY SlotFacts DEF Unacked
    <3> QED BY <1>1, <2>2, <3>1, DuplicatedFacts
  <2>3. ASSUME NEW w \in Workers, Restart(w)
        PROVE  ~(copies'[p] > 0)
    <3>1. {s \in Unacked(w) : pc[s] = "ackOriginal"} \in SUBSET Unacked(w)
      OBVIOUS
    <3> QED BY <2>2, <2>3, <3>1 DEF Restart
  <2>4. ASSUME NEW s \in Slots, ChannelClosed(s)
        PROVE  ~(copies'[p] > 0)
    BY <2>3, <2>4 DEF ChannelClosed, Slots
  <2>5. ASSUME NEW w \in Workers, Disconnect(w)
        PROVE  ~(copies'[p] > 0)
    BY <2>2, <2>5 DEF Disconnect
  <2>6. CASE UNCHANGED copies
    BY <2>6
  <2> QED
    BY <2>1, <2>3, <2>4, <2>5, <2>6
       DEF Next, CreatePrediction, RunTrigger, SelectUnprocessed, ReadTotal, SetTotal,
           SetProcessed, FinishTrigger, FailTrigger, Deliver, RunHandler, CheckExisting,
           ScorePrediction, SaveResult, CountProcessed, HandlerFault, AckJob, Republish,
           AckOriginal, DeadLetter, Crash, LateInsert, LateCount, Resend, Rest, vars
<1>4. p \in stored => p \in stored'
  BY DEF Next, CreatePrediction, RunTrigger, SelectUnprocessed, ReadTotal, SetTotal,
         SetProcessed, PublishJob, FinishTrigger, FailTrigger, Deliver, RunHandler,
         CheckExisting, ScorePrediction, SaveResult, CountProcessed, HandlerFault, AckJob,
         Republish, AckOriginal, DeadLetter, ChannelClosed, Restart, Crash, Disconnect,
         LateInsert, LateCount, Resend, Rest, vars, adminVars
<1> QED BY <1>2, <1>3, <1>4

(* One step of the pipeline is one step of each prediction's life cycle.   *)
LEMMA StatusStep ==
  ASSUME IInv, [Next]_vars, NEW p \in Predictions
  PROVE  Status(p)' \in Lifecycle!Successors[Status(p)] \cup {Status(p)}
<1>0. IInv' /\ TypeOK /\ RowBeforeAck /\ NoLostPrediction /\ OnlyQueuedJobs'
  BY StepIInv DEF IInv
<1>1. CASE results[p] > 0
  BY <1>0, <1>1, RowsKept DEF Status, Lifecycle!Successors
<1>2. CASE ~(results[p] > 0) /\ Live(p)
  <2>1. Live(p)' \/ Outcome(p)'
    BY <1>0, <1>2, LiveKept
  <2>2. Status(p) = "queued" /\ Status(p)' \in {"queued", "scored", "dead"}
    BY <1>2, <2>1 DEF Status, Outcome
  <2> QED BY <2>2 DEF Lifecycle!Successors
<1>3. CASE ~(results[p] > 0) /\ ~Live(p) /\ dlq[p] > 0
  <2>1. Outcome(p)'
    BY <1>0, <1>3, OutcomeKept DEF Outcome
  <2>2. Status(p) = "dead" /\ Status(p)' \in {"queued", "scored", "dead"}
    BY <1>3, <2>1 DEF Status, Outcome
  <2> QED BY <2>2 DEF Lifecycle!Successors
<1>4. CASE ~Outcome(p) /\ ~Live(p)
  <2>1. ~(copies[p] > 0)
    BY <1>0, <1>4 DEF NoLostPrediction
  <2>2. /\ ~Outcome(p)'
        /\ Live(p)' => p \in stored
        /\ p \in stored => p \in stored'
    <3>1. Live(p)' => copies'[p] > 0
      BY <1>0 DEF Live, OnlyQueuedJobs
    <3> QED BY <1>4, <2>1, <3>1, UnqueuedStays
  <2>3. CASE p \in stored
    <3>1. Status(p) = "stored" /\ Status(p)' \in {"stored", "queued"}
      BY <1>4, <2>2, <2>3 DEF Status, Outcome
    <3> QED BY <3>1 DEF Lifecycle!Successors
  <2>4. CASE p \notin stored
    <3>1. Status(p) = "absent" /\ Status(p)' \in {"absent", "stored"}
      BY <1>4, <2>2, <2>4 DEF Status, Outcome
    <3> QED BY <3>1 DEF Lifecycle!Successors
  <2> QED BY <2>3, <2>4
<1> QED BY <1>1, <1>2, <1>3, <1>4 DEF Outcome

(* The safety part of ImplementsLifecycle, for every size of the system: a  *)
(* queued prediction never falls back, and a scored one is final.           *)
THEOREM RefinesLifecycle == Spec => Lifecycle!SafeSpec
<1>1. ASSUME IInv, [Next]_vars
      PROVE  [Lifecycle!Next]_([p \in Predictions |-> Status(p)])
  <2>1. \A p \in Predictions : Status(p)' \in Lifecycle!Successors[Status(p)] \cup {Status(p)}
    BY <1>1, StatusStep
  <2>2. \A p \in Predictions : Status(p)' \in Lifecycle!Statuses
    BY DEF Status, Lifecycle!Statuses
  <2> QED BY <2>1, <2>2 DEF Lifecycle!Next
<1> QED BY <1>1, InitRefines, AlwaysIInv, PTL DEF Spec, Lifecycle!SafeSpec
=============================================================================
