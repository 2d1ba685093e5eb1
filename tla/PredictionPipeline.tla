-------------------------- MODULE PredictionPipeline --------------------------
(***************************************************************************)
(* The asynchronous scoring pipeline: users store predictions, an admin    *)
(* request queues every prediction without a result on RabbitMQ, and       *)
(* worker processes consume the jobs, store one result row per job and     *)
(* count it in Redis.  Every await of the code is a point where the other  *)
(* requests, handlers and workers may run, so it is a step boundary here.  *)
(*                                                                         *)
(*   PredictionService     createPrediction, queueAllPredictionsForProcessing *)
(*   PredictionProcessor   processPredictionJob                            *)
(*   RabbitMQService       consume, processMessage, handleMessageRetry     *)
(*                                                                         *)
(* RabbitMQ itself is external: a durable queue that hands each ready      *)
(* message to one consumer, keeps it until it is acknowledged, and makes   *)
(* it ready again when the consumer's connection ends first.               *)
(***************************************************************************)
EXTENDS Integers, FiniteSets

CONSTANTS
  Predictions,      (* identities of the predictions users may store         *)
  Malformed,        (* those whose payload makes flatten or scoring throw    *)
  Workers,          (* worker processes (docker-compose runs three)          *)
  Prefetch,         (* handlers a worker runs at once: channel.prefetch(n)   *)
  Triggers,         (* admin trigger requests, each handled once             *)
  MaxRetries,       (* rabbitmq.maxRetries                                   *)
  CrashBudget,      (* bound: worker processes killed                        *)
  DisconnectBudget, (* bound: worker connections lost while the process runs *)
  FaultBudget,      (* bound: calls whose database or Redis connection fails *)
  NoJob,            (* the job of a handler slot that runs nothing           *)
  NoStats           (* prediction:stats:total is absent from Redis           *)

Job   == [pred : Predictions, retry : 0 .. (MaxRetries - 1)]
Slots == Workers \X (1 .. Prefetch)

ASSUME PredictionsAssumption == IsFiniteSet(Predictions) /\ Malformed \subseteq Predictions
ASSUME WorkersAssumption     == IsFiniteSet(Workers) /\ Prefetch \in Nat \ {0}
ASSUME MaxRetriesAssumption  == MaxRetries \in Nat \ {0}
ASSUME BudgetAssumption      == CrashBudget \in Nat /\ DisconnectBudget \in Nat /\ FaultBudget \in Nat
ASSUME NoJobAssumption       == NoJob \notin Job
ASSUME NoStatsAssumption     == NoStats \notin Nat

VARIABLES
  stored,     (* rows of table predictions                                   *)
  results,    (* number of rows of table results per prediction              *)
  total,      (* Redis prediction:stats:total                                *)
  processed,  (* Redis prediction:stats:processed                            *)
  trigPc,     (* where each trigger request is                               *)
  todo,       (* the predictions it selected and has not published yet       *)
  ready,      (* queue prediction.process: ready messages per job            *)
  dlq,        (* queue prediction.process.dlq: messages per prediction       *)
  conn,       (* worker's connection to RabbitMQ is open                     *)
  pc,         (* where the handler of each slot is                           *)
  job,        (* the message it holds                                        *)
  inflight,   (* INSERTs on their way whose handler no longer waits          *)
  lateCounts, (* INCRs on their way whose handler no longer waits            *)
  crashes, disconnects, faults,   (* what is left of the budgets             *)
  copies,     (* history: how often a prediction's job was handed out anew,  *)
              (* by a trigger or by a redelivery that left a second holder   *)
  slipped,    (* history: INSERTs in flight that the check of another        *)
              (* handler of the prediction did not see                       *)
  resent,     (* history: Redis commands carried out and then sent again     *)
  wiped       (* history: what the resets of prediction:stats:processed threw away *)

adminVars  == <<stored, trigPc, todo, total>>
brokerVars == <<ready, dlq>>
budgetVars == <<crashes, disconnects, faults>>
lateVars   == <<inflight, lateCounts, slipped, resent, wiped>>

vars == <<stored, results, total, processed, trigPc, todo, ready, dlq,
          conn, pc, job, crashes, disconnects, faults, copies,
          inflight, lateCounts, slipped, resent, wiped>>

TriggerPcs == {"new", "stats", "setTotal", "setProcessed", "publish", "done", "failed"}
HandlerPcs == {"idle", "check", "score", "save", "incr", "ack", "retry", "ackOriginal"}

TypeOK ==
  /\ stored \in SUBSET Predictions
  /\ results \in [Predictions -> Nat]
  /\ total \in Nat \cup {NoStats}
  /\ processed \in Nat
  /\ trigPc \in [Triggers -> TriggerPcs]
  /\ todo \in [Triggers -> SUBSET Predictions]
  /\ ready \in [Job -> Nat]
  /\ dlq \in [Predictions -> Nat]
  /\ conn \in [Workers -> BOOLEAN]
  /\ pc \in [Slots -> HandlerPcs]
  /\ job \in [Slots -> Job \cup {NoJob}]
  /\ \A s \in Slots : job[s] = NoJob <=> pc[s] = "idle"
  /\ crashes \in Nat /\ disconnects \in Nat /\ faults \in Nat
  /\ copies \in [Predictions -> Nat]
  /\ inflight \in [Predictions -> Nat] /\ lateCounts \in Nat
  /\ slipped \in [Predictions -> Nat] /\ resent \in Nat /\ wiped \in Nat

Init ==
  /\ stored = {}
  /\ results = [p \in Predictions |-> 0]
  /\ total = NoStats
  /\ processed = 0
  /\ trigPc = [t \in Triggers |-> "new"]
  /\ todo = [t \in Triggers |-> {}]
  /\ ready = [j \in Job |-> 0]
  /\ dlq = [p \in Predictions |-> 0]
  /\ conn = [w \in Workers |-> TRUE]
  /\ pc = [s \in Slots |-> "idle"]
  /\ job = [s \in Slots |-> NoJob]
  /\ crashes = CrashBudget
  /\ disconnects = DisconnectBudget
  /\ faults = FaultBudget
  /\ copies = [p \in Predictions |-> 0]
  /\ inflight = [p \in Predictions |-> 0]
  /\ slipped = [p \in Predictions |-> 0]
  /\ lateCounts = 0 /\ resent = 0 /\ wiped = 0

-----------------------------------------------------------------------------
(* The API process: PredictionService.                                      *)

(* createPrediction: the row is stored, nothing is queued. *)
CreatePrediction(p) ==
  /\ p \notin stored
  /\ stored' = stored \cup {p}
  /\ UNCHANGED <<results, total, processed, trigPc, todo, brokerVars, conn, pc, job, budgetVars, copies, lateVars>>

(* A prediction the trigger's LEFT JOIN ... IS NULL query returns. *)
Unprocessed(p) == p \in stored /\ results[p] = 0

TriggerStep(t, from, to) == trigPc[t] = from /\ trigPc' = [trigPc EXCEPT ![t] = to]

SelectUnprocessed(t) ==
  /\ TriggerStep(t, "new", "stats")
  /\ todo' = [todo EXCEPT ![t] = {p \in Predictions : Unprocessed(p)}]
  /\ UNCHANGED <<stored, results, total, processed, brokerVars, conn, pc, job, budgetVars, copies, lateVars>>

(* The value read is a string: "0" is truthy, only an absent key is not. *)
ReadTotal(t) ==
  /\ TriggerStep(t, "stats", IF total = NoStats THEN "setTotal" ELSE "publish")
  /\ UNCHANGED <<stored, results, total, processed, todo, brokerVars, conn, pc, job, budgetVars, copies, lateVars>>

SetTotal(t) ==
  /\ TriggerStep(t, "setTotal", "setProcessed")
  /\ total' = Cardinality(todo[t])
  /\ UNCHANGED <<stored, results, processed, todo, brokerVars, conn, pc, job, budgetVars, copies, lateVars>>

ResetProcessed == processed' = 0 /\ wiped' = wiped + processed

SetProcessed(t) ==
  /\ TriggerStep(t, "setProcessed", "publish")
  /\ ResetProcessed
  /\ UNCHANGED <<stored, results, total, todo, brokerVars, conn, pc, job, budgetVars, copies,
                 inflight, lateCounts, slipped, resent>>

(* One turn of the publish loop; the query has no ORDER BY. *)
PublishJob(t, p) ==
  /\ trigPc[t] = "publish"
  /\ p \in todo[t]
  /\ todo' = [todo EXCEPT ![t] = @ \ {p}]
  /\ ready' = [ready EXCEPT ![[pred |-> p, retry |-> 0]] = @ + 1]
  /\ copies' = [copies EXCEPT ![p] = @ + 1]
  /\ UNCHANGED <<stored, results, total, processed, trigPc, dlq, conn, pc, job, budgetVars, lateVars>>

FinishTrigger(t) ==
  /\ TriggerStep(t, "publish", "done")
  /\ todo[t] = {}
  /\ UNCHANGED <<stored, results, total, processed, todo, brokerVars, conn, pc, job, budgetVars, copies, lateVars>>

(* A rejected query, Redis call or publish ends the request where it is, as *)
(* does the end of the API process: what was published stays published.     *)
FailTrigger(t) ==
  /\ trigPc[t] \in {"new", "stats", "setTotal", "setProcessed", "publish"}
  /\ trigPc' = [trigPc EXCEPT ![t] = "failed"]
  /\ todo' = [todo EXCEPT ![t] = {}]
  /\ UNCHANGED <<stored, results, total, processed, brokerVars, conn, pc, job, budgetVars, copies, lateVars>>

-----------------------------------------------------------------------------
(* A worker's handlers: RabbitMQService.processMessage around               *)
(* PredictionProcessor.processPredictionJob.                                *)

HandlerStep(s, from, to) == pc[s] = from /\ pc' = [pc EXCEPT ![s] = to]

(* RabbitMQ hands a ready message to a consumer below its prefetch limit. *)
Deliver(s, j) ==
  /\ conn[s[1]]
  /\ ready[j] > 0
  /\ HandlerStep(s, "idle", "check")
  /\ job' = [job EXCEPT ![s] = j]
  /\ ready' = [ready EXCEPT ![j] = @ - 1]
  /\ UNCHANGED <<adminVars, results, processed, dlq, conn, budgetVars, copies, lateVars>>

(* Mutant of CheckExisting: the result is not looked for. *)
CheckNothing(s) ==
  /\ HandlerStep(s, "check", "score")
  /\ UNCHANGED <<adminVars, results, processed, brokerVars, conn, job, budgetVars, copies, lateVars>>

(* Mutant of CheckExisting: a skipped job is counted as processed. *)
CheckThenCount(s) ==
  /\ HandlerStep(s, "check", IF results[job[s].pred] > 0 THEN "incr" ELSE "score")
  /\ UNCHANGED <<adminVars, results, processed, brokerVars, conn, job, budgetVars, copies, lateVars>>

(* "Check if already processed": the job is acknowledged unscored. *)
CheckExisting(s) ==
  /\ HandlerStep(s, "check", IF results[job[s].pred] > 0 THEN "ack" ELSE "score")
  /\ UNCHANGED <<adminVars, results, processed, brokerVars, conn, job, budgetVars, copies, lateVars>>

(* Load the prediction and the correct groups, flatten and score.  Neither  *)
(* of the two reads races with a write of the pipeline.                     *)
ScorePrediction(s) ==
  /\ HandlerStep(s, "score", IF job[s].pred \in Malformed THEN "retry" ELSE "save")
  /\ UNCHANGED <<adminVars, results, processed, brokerVars, conn, job, budgetVars, copies, lateVars>>

(* The slots of S whose message is of p. *)
HoldersOf(S, p) == {s \in S : job[s].pred = p}

SaveResult(s) ==
  /\ HandlerStep(s, "save", "incr")
  /\ results' = [results EXCEPT ![job[s].pred] = @ + 1]
  /\ UNCHANGED <<adminVars, processed, brokerVars, conn, job, budgetVars, copies, lateVars>>

CountProcessed(s) ==
  /\ HandlerStep(s, "incr", "ack")
  /\ processed' = processed + 1
  /\ UNCHANGED <<adminVars, results, brokerVars, conn, job, budgetVars, copies, lateVars>>

(* The handlers S end or go on without an answer.  The INSERT or INCR they   *)
(* asked for may be carried out later, or never.                            *)
Abandon(S) ==
  /\ inflight' = [p \in Predictions |->
                    inflight[p] + Cardinality(HoldersOf({s \in S : pc[s] = "save"}, p))]
  /\ lateCounts' = lateCounts + Cardinality({s \in S : pc[s] = "incr"})

(* A database or Redis call of the handler rejects: its connection failed,   *)
(* not necessarily what it asked for.                                        *)
HandlerFault(s) ==
  /\ faults > 0
  /\ faults' = faults - 1
  /\ pc' = [pc EXCEPT ![s] = "retry"]
  /\ pc[s] \in {"check", "score", "save", "incr"}
  /\ Abandon({s})
  /\ UNCHANGED <<adminVars, results, processed, brokerVars, conn, job, crashes, disconnects, copies,
                 slipped, resent, wiped>>

(* Mutant of FreeSlot: the message stays with the slot. *)
KeepJob(s) == UNCHANGED job

FreeSlot(s) == job' = [job EXCEPT ![s] = NoJob]

AckJob(s) ==
  /\ conn[s[1]]
  /\ HandlerStep(s, "ack", "idle")
  /\ FreeSlot(s)
  /\ UNCHANGED <<adminVars, results, processed, brokerVars, conn, budgetVars, copies, lateVars>>

(* Mutants of RetryCount: the header is never raised, or raised twice. *)
RetryCountStuck(s) == job[s].retry
RetryCountTwice(s) == job[s].retry + 2

(* handleMessageRetry, first half: a copy with the next x-retry-count. *)
RetryCount(s) == job[s].retry + 1

Republish(s) ==
  /\ conn[s[1]]
  /\ HandlerStep(s, "retry", "ackOriginal")
  /\ RetryCount(s) < MaxRetries
  /\ ready' = [ready EXCEPT ![[pred |-> job[s].pred, retry |-> RetryCount(s)]] = @ + 1]
  /\ UNCHANGED <<adminVars, results, processed, dlq, conn, job, budgetVars, copies, lateVars>>

(* handleMessageRetry, second half: acknowledge the original. *)
AckOriginal(s) ==
  /\ conn[s[1]]
  /\ HandlerStep(s, "ackOriginal", "idle")
  /\ FreeSlot(s)
  /\ UNCHANGED <<adminVars, results, processed, brokerVars, conn, budgetVars, copies, lateVars>>

(* Retries exhausted: nack without requeue, RabbitMQ dead-letters the job. *)
DeadLetter(s) ==
  /\ conn[s[1]]
  /\ HandlerStep(s, "retry", "idle")
  /\ RetryCount(s) >= MaxRetries
  /\ FreeSlot(s)
  /\ dlq' = [dlq EXCEPT ![job[s].pred] = @ + 1]
  /\ UNCHANGED <<adminVars, results, processed, ready, conn, budgetVars, copies, lateVars>>

-----------------------------------------------------------------------------
(* Failures of workers and connections.                                     *)

SlotsOf(w) == {w} \X (1 .. Prefetch)

(* Mutant of Unacked: consume with noAck, RabbitMQ forgets what it delivers. *)
UnackedNone(w) == {}

(* Slots of w whose message RabbitMQ still holds unacknowledged. *)
Unacked(w) == {s \in SlotsOf(w) : pc[s] # "idle" /\ conn[w]}

(* The unacknowledged messages of w become ready again, headers unchanged. *)
Requeue(w) ==
  ready' = [j \in Job |-> ready[j] + Cardinality({s \in Unacked(w) : job[s] = j})]

(* The requeued originals whose job is also alive elsewhere. *)
Duplicated(S) ==
  copies' = [p \in Predictions |-> copies[p] + Cardinality(HoldersOf(S, p))]

(* The process of w ends and its container starts it again. *)
Restart(w) ==
  /\ Requeue(w)
  /\ Abandon(SlotsOf(w))
  /\ Duplicated({s \in Unacked(w) : pc[s] = "ackOriginal"})
  /\ conn' = [conn EXCEPT ![w] = TRUE]
  /\ pc' = [s \in Slots |-> IF s \in SlotsOf(w) THEN "idle" ELSE pc[s]]
  /\ job' = [s \in Slots |-> IF s \in SlotsOf(w) THEN NoJob ELSE job[s]]
  /\ UNCHANGED <<adminVars, results, processed, dlq, disconnects, faults, slipped, resent, wiped>>

Crash(w) ==
  /\ crashes > 0
  /\ crashes' = crashes - 1
  /\ Restart(w)

(* The connection closes under a running worker: the 'close' handler only   *)
(* logs, no handler is stopped and nothing connects again.                  *)
Disconnect(w) ==
  /\ disconnects > 0
  /\ disconnects' = disconnects - 1
  /\ conn[w]
  /\ conn' = [conn EXCEPT ![w] = FALSE]
  /\ Requeue(w)
  /\ Duplicated(Unacked(w))
  /\ UNCHANGED <<adminVars, results, processed, dlq, pc, job, crashes, faults, lateVars>>

(* ack, publish and nack throw on a closed channel; the rejection reaches   *)
(* nobody and Node ends the process.                                        *)
ChannelClosed(s) ==
  /\ ~conn[s[1]]
  /\ pc[s] \in {"ack", "retry", "ackOriginal"}
  /\ Restart(s[1])
  /\ UNCHANGED crashes

-----------------------------------------------------------------------------
(* Commands that are carried out when nobody waits for them, or twice.       *)

(* Handlers of p past their check, with the row still to be stored.          *)
Saving(p) == {s \in Slots : pc[s] \in {"score", "save"} /\ job[s].pred = p}

(* An INSERT in flight commits.  Another handler of the prediction may have  *)
(* stored its row by now, or looked for one and found none.                  *)
LateInsert(p) ==
  /\ inflight[p] > 0
  /\ inflight' = [inflight EXCEPT ![p] = @ - 1]
  /\ results' = [results EXCEPT ![p] = @ + 1]
  /\ slipped' = IF results[p] > 0 \/ Saving(p) # {} THEN [slipped EXCEPT ![p] = @ + 1] ELSE slipped
  /\ UNCHANGED <<adminVars, processed, brokerVars, conn, pc, job, budgetVars, copies,
                 lateCounts, resent, wiped>>

LateCount ==
  /\ lateCounts > 0
  /\ lateCounts' = lateCounts - 1
  /\ processed' = processed + 1
  /\ UNCHANGED <<adminVars, results, brokerVars, conn, pc, job, budgetVars, copies,
                 inflight, slipped, resent, wiped>>

(* ioredis connects again and sends the commands that were not answered once *)
(* more; Redis has carried this one out already, and its caller waits on.    *)
Resend ==
  /\ faults > 0
  /\ faults' = faults - 1
  /\ resent' = resent + 1
  /\ \/ /\ \E s \in Slots : pc[s] = "incr"
        /\ processed' = processed + 1
        /\ UNCHANGED <<total, wiped>>
     \/ /\ \E t \in Triggers : trigPc[t] = "setTotal" /\ total' = Cardinality(todo[t])
        /\ UNCHANGED <<processed, wiped>>
     \/ /\ \E t \in Triggers : trigPc[t] = "setProcessed"
        /\ ResetProcessed
        /\ UNCHANGED total
  /\ UNCHANGED <<stored, trigPc, todo, results, brokerVars, conn, pc, job, crashes, disconnects, copies,
                 inflight, lateCounts, slipped>>

-----------------------------------------------------------------------------
RunHandler(s) ==
  \/ CheckExisting(s) \/ ScorePrediction(s) \/ SaveResult(s) \/ CountProcessed(s)
  \/ AckJob(s) \/ Republish(s) \/ AckOriginal(s) \/ DeadLetter(s) \/ ChannelClosed(s)

RunTrigger(t) ==
  \/ SelectUnprocessed(t) \/ ReadTotal(t) \/ SetTotal(t) \/ SetProcessed(t)
  \/ \E p \in Predictions : PublishJob(t, p)
  \/ FinishTrigger(t) \/ FailTrigger(t)

(* Nothing is left to do: every request is answered, every queue drained.   *)
Idle ==
  /\ stored = Predictions
  /\ \A t \in Triggers : trigPc[t] \in {"done", "failed"}
  /\ \A j \in Job : ready[j] = 0
  /\ \A s \in Slots : pc[s] = "idle"

Rest == Idle /\ UNCHANGED vars

Next ==
  \/ \E p \in Predictions : CreatePrediction(p)
  \/ \E t \in Triggers : RunTrigger(t)
  \/ \E s \in Slots, j \in Job : Deliver(s, j)
  \/ \E s \in Slots : RunHandler(s) \/ HandlerFault(s)
  \/ \E w \in Workers : Crash(w) \/ Disconnect(w)
  \/ \E p \in Predictions : LateInsert(p)
  \/ LateCount \/ Resend
  \/ Rest

(* Handlers run to their next await, and RabbitMQ delivers what is ready    *)
(* while a consumer has room.  Requests, crashes and faults are not forced, *)
(* nor is a command in flight ever carried out.                             *)
Fairness ==
  /\ \A j \in Job : WF_vars(\E s \in Slots : Deliver(s, j))
  /\ \A s \in Slots : WF_vars(RunHandler(s))

Spec == Init /\ [][Next]_vars

FairSpec == Spec /\ Fairness

-----------------------------------------------------------------------------
(* Properties.                                                              *)

Outcome(p) == results[p] > 0 \/ dlq[p] > 0

(* A message of p is ready, or a handler holds it that has not yet put a copy *)
(* of it back: acknowledging an original is safe because of the copy.        *)
Live(p) ==
  \/ \E j \in Job : j.pred = p /\ ready[j] > 0
  \/ \E s \in Slots : /\ pc[s] \notin {"idle", "ackOriginal"}
                      /\ conn[s[1]]
                      /\ job[s].pred = p

(* No crash, lost connection, failed call or order of acknowledgements loses *)
(* a job: what a trigger queued has a result row, is dead-lettered, or will  *)
(* still be delivered.                                                       *)
NoLostPrediction == \A p \in Predictions : copies[p] > 0 => Outcome(p) \/ Live(p)

(* The check before scoring lets a redelivery or a retry add a row only where *)
(* it can see none: a prediction has at most one row per time its job was     *)
(* handed out anew, and one per INSERT that its dying or failing handler had  *)
(* sent and that committed after the check of the next (prediction.processor.ts:85). *)
RowsBoundedByCopies == \A p \in Predictions : results[p] <= copies[p] + slipped[p]

(* What a counter per element of S counts, one by one. *)
Numbered(count, S) == UNION {{<<x, n>> : n \in 1 .. count[x]} : x \in S}

(* The rows of table results. *)
ResultRows == Numbered(results, Predictions)

(* Handlers that have stored their row and not counted it. *)
Counting == {s \in Slots : pc[s] = "incr"}

(* Calls of handlers that failed. *)
FailedCalls == FaultBudget - faults - resent

(* Handlers that a failed call, a dead process or a closed channel may have  *)
(* kept from counting their row.                                            *)
CutShort ==
  FailedCalls + Prefetch * ((CrashBudget - crashes) + (DisconnectBudget - disconnects))

(* prediction:stats:processed, with what its resets threw away, accounts for *)
(* the result rows: it is ahead of them only by commands sent twice, and     *)
(* behind them only by the handlers that are about to count or were kept     *)
(* from it by a failure, each of which costs it at most one row.             *)
CounterAccountsForRows ==
  /\ processed + wiped <= Cardinality(ResultRows) + resent
  /\ Cardinality(ResultRows) <= processed + wiped + Cardinality(Counting) + CutShort

(* Only payloads that cannot be scored are dead-lettered without cause: for  *)
(* any other prediction MaxRetries calls of its handlers failed first, in    *)
(* whatever workers and whatever number of redeliveries.                     *)
DeadLetterNeedsFaults ==
  \A p \in Predictions \ Malformed : dlq[p] > 0 => FailedCalls >= MaxRetries

(* Claimed by "Check if already processed" (prediction.processor.ts:84) and  *)
(* its test: a prediction is scored into one result row.                     *)
AtMostOneResult == \A p \in Predictions : results[p] <= 1

(* Claimed by "Processing complete!" (monitor-processing.ts:79-82): once the *)
(* counters say so, no queued prediction is without its outcome.             *)
CompleteMeansDone ==
  total # NoStats /\ total > 0 /\ processed >= total =>
    \A p \in Predictions : copies[p] > 0 => Outcome(p)

(* Where both claims hold: no job was handed out twice, by triggers or by    *)
(* redeliveries, no late INSERT slipped past a check and no command was sent *)
(* twice, and for the second the total is that of every prediction queued so *)
(* far, as it is after a single trigger.                                     *)
HandedOut == {p \in Predictions : copies[p] > 0}

ClaimsHoldOnce ==
  (\A p \in Predictions : copies[p] <= 1 /\ slipped[p] = 0) /\ resent = 0 =>
    /\ AtMostOneResult
    /\ total # NoStats /\ Cardinality(HandedOut) <= total => CompleteMeansDone

-----------------------------------------------------------------------------
(* The promise of ScoringLifecycle, read off the pipeline's state.           *)

Status(p) ==
  IF results[p] > 0 THEN "scored"
  ELSE IF Live(p) THEN "queued"
  ELSE IF dlq[p] > 0 THEN "dead"
  ELSE IF p \in stored THEN "stored"
  ELSE "absent"

Lifecycle == INSTANCE ScoringLifecycle WITH status <- [p \in Predictions |-> Status(p)]

(* The pipeline implements ScoringLifecycle: whatever is crashed, redelivered *)
(* or retried, a queued prediction is never forgotten nor stuck, and a result *)
(* row is final.                                                              *)
ImplementsLifecycle == Lifecycle!Spec

(* The workers always come to rest: copies put back by retries, crashes and  *)
(* lost connections do not circulate for ever.                               *)
QueueDrains ==
  <>[](/\ \A j \in Job : ready[j] = 0
       /\ \A s \in Slots : pc[s] = "idle")
-----------------------------------------------------------------------------
(* The strengthening under which the safety properties are inductive.       *)

(* A handler about to acknowledge its message leaves a result row behind.   *)
RowBeforeAck ==
  \A s \in Slots : pc[s] \in {"incr", "ack"} => results[job[s].pred] > 0

(* A message with retry count n has n failed calls in its past, and a       *)
(* handler in handleMessageRetry one more.                                  *)
RetriesNeedFaults ==
  /\ FailedCalls >= 0
  /\ \A j \in Job : ready[j] > 0 /\ j.pred \notin Malformed => FailedCalls >= j.retry
  /\ \A s \in Slots : pc[s] # "idle" /\ job[s].pred \notin Malformed =>
       /\ FailedCalls >= job[s].retry
       /\ pc[s] = "retry" => FailedCalls >= job[s].retry + 1

(* Every message in flight is of a stored prediction that was queued.       *)
OnlyQueuedJobs ==
  /\ \A t \in Triggers : todo[t] \subseteq stored
  /\ \A p \in Predictions : copies[p] > 0 => p \in stored
  /\ \A j \in Job : ready[j] > 0 => copies[j.pred] > 0
  /\ \A s \in Slots : pc[s] # "idle" => copies[job[s].pred] > 0
  /\ \A p \in Predictions : inflight[p] > 0 => copies[p] > 0

(* The messages of p that are ready, one by one.                            *)
JobsOf(p)  == {j \in Job : j.pred = p}
ReadyOf(p) == Numbered(ready, JobsOf(p))

(* Handlers of p, of a lost connection too.                                 *)
Handling(p) == {s \in Slots : pc[s] \notin {"idle", "ackOriginal"} /\ job[s].pred = p}

(* A row, or a handler that will not look again, stands for a copy of the    *)
(* job or for an INSERT that slipped past a check; while there is no row,    *)
(* every message and every handler stands for a copy.                        *)
RowsPaidFor ==
  \A p \in Predictions :
    /\ results[p] + Cardinality(Saving(p)) <= copies[p] + slipped[p]
    /\ IsFiniteSet(ReadyOf(p))
    /\ results[p] = 0 => Cardinality(ReadyOf(p)) + Cardinality(Handling(p)) <= copies[p]

(* The rows that are still on their way, and how often a worker's handlers   *)
(* have been ended: not yet where the channel is lost and the process runs.  *)
RowsInFlight == Numbered(inflight, Predictions)
Disconnected == {w \in Workers : ~conn[w]}
Ended ==
  (CrashBudget - crashes) + (DisconnectBudget - disconnects) - Cardinality(Disconnected)

(* A counted row has been stored, and so has the row of a handler that will  *)
(* count it and of an INCR in flight; a row nobody will count, stored or in  *)
(* flight, is that of a handler whose call failed or that was ended.         *)
CountsPaidFor ==
  /\ IsFiniteSet(ResultRows) /\ IsFiniteSet(RowsInFlight)
  /\ processed + wiped + Cardinality(Counting) + lateCounts <= Cardinality(ResultRows) + resent
  /\ Cardinality(ResultRows) + Cardinality(RowsInFlight) <=
       processed + wiped + Cardinality(Counting) + FailedCalls + Prefetch * Ended

IInv ==
  /\ TypeOK
  /\ RowBeforeAck
  /\ OnlyQueuedJobs
  /\ RetriesNeedFaults
  /\ NoLostPrediction
  /\ DeadLetterNeedsFaults
  /\ RowsPaidFor
  /\ CountsPaidFor
=============================================================================
