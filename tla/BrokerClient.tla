------------------------------ MODULE BrokerClient ------------------------------
(***************************************************************************)
(* RabbitMQService in the API process, where PredictionPipeline only sees  *)
(* that a publish puts a job on the queue.  All requests of the process    *)
(* share one channel: a call that expects a reply waits for the one before *)
(* it, a publish is written at once and never confirmed, and the channel   *)
(* is opened when the process starts and at no other time.                 *)
(*                                                                         *)
(* The wire holds what the process has written and RabbitMQ has not read   *)
(* yet.  RabbitMQ, its reply and what the client library does with a       *)
(* channel the server closes are external.                                 *)
(***************************************************************************)
EXTENDS Integers, Sequences, FiniteSets

CONSTANTS
  Triggers,         (* requests that run queueAllPredictionsForProcessing     *)
  Batch,            (* how many predictions each of them selects              *)
  Queries,          (* calls of getQueueMessageCount, isHealthy or purgeQueue *)
  Workers,          (* worker processes, each with a channel of its own       *)
  HighWater,        (* jobs on the wire from which sendToQueue returns false  *)
  DisconnectBudget, (* bound: connections lost                                *)
  CrashBudget       (* bound: processes killed                                *)

Requests == Triggers \cup Queries

ASSUME RequestsAssumption == Triggers \cap Queries = {} /\ Workers \cap Triggers = {}
ASSUME SizesAssumption    == Batch \in [Triggers -> Nat] /\ HighWater \in Nat
ASSUME BudgetsAssumption  == DisconnectBudget \in Nat /\ CrashBudget \in Nat

VARIABLES
  declared,   (* what exists in RabbitMQ; all of it is durable                *)
  queue,      (* jobs on the queue                                            *)
  wire,       (* frames written and not read                                  *)
  chan,       (* the channel: "open", "closed"; "down" while no process runs  *)
  pc,         (* where each request is                                        *)
  asserted,   (* how much of assertQueue a trigger or a worker has behind it  *)
  sent,       (* jobs a trigger has written                                   *)
  queuedCount,(* jobs it counts as queued                                     *)
  disconnects, crashes,   (* what is left of the budgets                      *)
  arrived,    (* history: jobs of each trigger that reached the queue         *)
  unroutable, (* history: jobs RabbitMQ had no queue for                      *)
  cutOff      (* history: triggers that had jobs on a wire that was cut       *)

brokerVars == <<declared, queue>>
tallyVars  == <<sent, queuedCount>>
budgetVars == <<disconnects, crashes>>
histVars   == <<arrived, unroutable, cutOff>>
vars == <<brokerVars, wire, chan, pc, asserted, tallyVars, budgetVars, histVars>>

(* Mutant of Order: the queue first, its dead-letter route afterwards. *)
OrderQueueFirst == <<"queue", "exchange", "deadLetters", "binding">>

(* assertQueue: one call after the other. *)
Order == <<"exchange", "deadLetters", "binding", "queue">>

Objects == {"exchange", "deadLetters", "binding", "queue"}
Targets == Objects \cup {"health_check_test"}

Frames == [op : {"declare", "depth", "health", "purge", "publish"}, to : Targets, by : Requests]

Frame(op, to, by) == [op |-> op, to |-> to, by |-> by]

JobsOf(t) == {i \in 1 .. Len(wire) : wire[i].op = "publish" /\ wire[i].by = t}
JobsOnWire == UNION {JobsOf(t) : t \in Triggers}

TypeOK ==
  /\ declared \subseteq Objects
  /\ queue \in Nat
  /\ wire \in Seq(Frames)
  /\ chan \in {"open", "closed", "down"}
  /\ chan # "open" => wire = <<>>
  /\ pc \in [Requests -> {"new", "ready", "waiting", "done", "failed"}]
  /\ \A r \in Requests : pc[r] = "waiting" =>
       \E i \in 1 .. Len(wire) : wire[i].by = r /\ wire[i].op # "publish"
  /\ asserted \in [Triggers \cup Workers -> 0 .. Len(Order)]
  /\ sent \in [Triggers -> Nat] /\ queuedCount \in [Triggers -> Nat]
  /\ \A t \in Triggers : queuedCount[t] <= sent[t] /\ sent[t] <= Batch[t]
  /\ disconnects \in Nat /\ crashes \in Nat
  /\ arrived \in [Triggers -> Nat] /\ unroutable \in Nat /\ cutOff \subseteq Triggers

Init ==
  /\ declared = {} /\ queue = 0
  /\ wire = <<>>
  /\ chan = "down"
  /\ pc = [r \in Requests |-> "new"]
  /\ asserted = [a \in Triggers \cup Workers |-> 0]
  /\ sent = [t \in Triggers |-> 0]
  /\ queuedCount = [t \in Triggers |-> 0]
  /\ disconnects = DisconnectBudget /\ crashes = CrashBudget
  /\ arrived = [t \in Triggers |-> 0] /\ unroutable = 0 /\ cutOff = {}

-----------------------------------------------------------------------------
(* Requests of the API process.                                             *)

AtCall(r) == pc[r] \in {"new", "ready"}

(* Mutant of Call: a channel that was closed is written to. *)
CallUnchecked(r, op, to) ==
  /\ AtCall(r)
  /\ chan # "down"
  /\ \A q \in Requests : pc[q] # "waiting"
  /\ wire' = Append(wire, Frame(op, to, r))
  /\ pc' = [pc EXCEPT ![r] = "waiting"]
  /\ UNCHANGED <<brokerVars, chan, asserted, tallyVars, budgetVars, histVars>>

(* A call with a reply: one is outstanding at a time on a channel. *)
Call(r, op, to) ==
  /\ AtCall(r)
  /\ chan = "open"
  /\ \A q \in Requests : pc[q] # "waiting"
  /\ wire' = Append(wire, Frame(op, to, r))
  /\ pc' = [pc EXCEPT ![r] = "waiting"]
  /\ UNCHANGED <<brokerVars, chan, asserted, tallyVars, budgetVars, histVars>>

(* publishToQueue asserts the queue again for every job. *)
NeedsAssert(t) == sent[t] < Batch[t] /\ asserted[t] < Len(Order)

AssertNext(t) ==
  /\ NeedsAssert(t)
  /\ Call(t, "declare", Order[asserted[t] + 1])

(* The write buffer is at its limit with the job written last. *)
Full == Cardinality(JobsOnWire) + 1 >= HighWater

(* Mutant of Written: a job the buffer has no room for is left out. *)
WrittenIfRoom(t) ==
  IF Full THEN wire ELSE Append(wire, Frame("publish", "queue", t))

(* sendToQueue writes the job whether or not it returns false. *)
Written(t) == Append(wire, Frame("publish", "queue", t))

(* The loop counts a job as queued only when sendToQueue returned true. *)
SendJob(t) ==
  /\ AtCall(t)
  /\ chan = "open"
  /\ sent[t] < Batch[t] /\ ~NeedsAssert(t)
  /\ wire' = Written(t)
  /\ pc' = [pc EXCEPT ![t] = "ready"]
  /\ asserted' = [asserted EXCEPT ![t] = 0]
  /\ sent' = [sent EXCEPT ![t] = @ + 1]
  /\ queuedCount' = [queuedCount EXCEPT ![t] = IF Full THEN @ ELSE @ + 1]
  /\ UNCHANGED <<brokerVars, chan, budgetVars, histVars>>

FinishTrigger(t) ==
  /\ AtCall(t)
  /\ chan # "down"
  /\ sent[t] = Batch[t]
  /\ pc' = [pc EXCEPT ![t] = "done"]
  /\ UNCHANGED <<brokerVars, wire, chan, asserted, tallyVars, budgetVars, histVars>>

(* Mutant of CheckedQueue: the depth is asked of a queue nobody declares. *)
CheckedQueueOther == "health_check_test"

CheckedQueue == "queue"

QueryDepth(q)  == Call(q, "depth", CheckedQueue)
QueryHealth(q) == Call(q, "health", "health_check_test")
Purge(q)       == Call(q, "purge", "queue")

(* How a call that rejects ends its request: a trigger with the error, a    *)
(* query with an answer of its own (depth 0, healthy) or with the error.    *)
Rejected(r) == IF r \in Triggers THEN "failed" ELSE "done"

(* Mutant of Refuse: the error is swallowed and the call made again. *)
RefuseAndRetry(r) ==
  /\ AtCall(r)
  /\ chan = "closed"
  /\ r \in Triggers => sent[r] < Batch[r]
  /\ pc' = [pc EXCEPT ![r] = "ready"]
  /\ UNCHANGED <<brokerVars, wire, chan, asserted, tallyVars, budgetVars, histVars>>

(* On a closed channel every call throws before anything is written. *)
Refuse(r) ==
  /\ AtCall(r)
  /\ chan = "closed"
  /\ r \in Triggers => sent[r] < Batch[r]
  /\ pc' = [pc EXCEPT ![r] = Rejected(r)]
  /\ UNCHANGED <<brokerVars, wire, chan, asserted, tallyVars, budgetVars, histVars>>

-----------------------------------------------------------------------------
(* RabbitMQ reads the wire.                                                 *)

Reading(op) == chan = "open" /\ wire # <<>> /\ Head(wire).op = op

Declare ==
  LET f == Head(wire)
  IN  /\ Reading("declare")
      /\ declared' = declared \cup {f.to}
      /\ wire' = Tail(wire)
      /\ pc' = [pc EXCEPT ![f.by] = "ready"]
      /\ asserted' = [asserted EXCEPT ![f.by] = @ + 1]
      /\ UNCHANGED <<queue, chan, tallyVars, budgetVars, histVars>>

(* A job for a queue that does not exist is dropped without a word. *)
AcceptJob ==
  LET t == Head(wire).by
  IN  /\ Reading("publish")
      /\ wire' = Tail(wire)
      /\ IF "queue" \in declared
         THEN /\ queue' = queue + 1
              /\ arrived' = [arrived EXCEPT ![t] = @ + 1]
              /\ UNCHANGED unroutable
         ELSE unroutable' = unroutable + 1 /\ UNCHANGED <<queue, arrived>>
      /\ UNCHANGED <<declared, chan, pc, asserted, tallyVars, budgetVars, cutOff>>

Answer ==
  LET f == Head(wire)
  IN  /\ \E op \in {"depth", "health", "purge"} : Reading(op)
      /\ f.to \in declared
      /\ queue' = IF f.op = "purge" THEN 0 ELSE queue
      /\ wire' = Tail(wire)
      /\ pc' = [pc EXCEPT ![f.by] = "done"]
      /\ UNCHANGED <<declared, chan, asserted, tallyVars, budgetVars, histVars>>

(* The wire is cut: what is on it is gone, outstanding calls reject, and    *)
(* when the process ends its requests end with it.                          *)
Cut(next) ==
  /\ chan' = next
  /\ wire' = <<>>
  /\ pc' = [r \in Requests |->
              IF pc[r] = "waiting" /\ next = "closed" THEN Rejected(r)
              ELSE IF pc[r] \in {"waiting", "ready"} /\ next = "down" THEN "failed"
              ELSE pc[r]]
  /\ cutOff' = cutOff \cup {t \in Triggers : JobsOf(t) # {}}
  /\ UNCHANGED <<brokerVars, tallyVars, arrived, unroutable>>

(* The server answers a query for a missing queue by closing the channel.   *)
(* No listener is on the channel for the error: the library's event may or  *)
(* may not end the process.                                                 *)
CloseOnMissing ==
  /\ \E op \in {"depth", "health", "purge"} : Reading(op)
  /\ Head(wire).to \notin declared
  /\ \E next \in {"closed", "down"} : Cut(next)
  /\ UNCHANGED <<asserted, budgetVars>>

(* The 'close' handler of the connection logs and does nothing else. *)
Disconnect ==
  /\ chan = "open"
  /\ disconnects > 0
  /\ disconnects' = disconnects - 1
  /\ Cut("closed")
  /\ UNCHANGED <<asserted, crashes>>

Crash ==
  /\ chan # "down"
  /\ crashes > 0
  /\ crashes' = crashes - 1
  /\ Cut("down")
  /\ UNCHANGED <<asserted, disconnects>>

(* connect, at the start of the process: the container's, or a new one. *)
Connect ==
  /\ chan = "down"
  /\ chan' = "open"
  /\ UNCHANGED <<brokerVars, wire, pc, asserted, tallyVars, budgetVars, histVars>>

-----------------------------------------------------------------------------
(* Workers: consume asserts the queue, call by call, before it takes jobs.  *)

WorkerAsserts(w) ==
  /\ asserted[w] < Len(Order)
  /\ declared' = declared \cup {Order[asserted[w] + 1]}
  /\ asserted' = [asserted EXCEPT ![w] = @ + 1]
  /\ UNCHANGED <<queue, wire, chan, pc, tallyVars, budgetVars, histVars>>

WorkerTakes(w) ==
  /\ asserted[w] = Len(Order)
  /\ queue > 0
  /\ queue' = queue - 1
  /\ UNCHANGED <<declared, wire, chan, pc, asserted, tallyVars, budgetVars, histVars>>

WorkerCrashes(w) ==
  /\ crashes > 0
  /\ crashes' = crashes - 1
  /\ asserted' = [asserted EXCEPT ![w] = 0]
  /\ UNCHANGED <<brokerVars, wire, chan, pc, tallyVars, disconnects, histVars>>

RunTrigger(t) == AssertNext(t) \/ SendJob(t) \/ FinishTrigger(t)
RunQuery(q)   == QueryDepth(q) \/ QueryHealth(q) \/ Purge(q)
Broker        == Declare \/ AcceptJob \/ Answer \/ CloseOnMissing

Next ==
  \/ \E t \in Triggers : RunTrigger(t)
  \/ \E q \in Queries : RunQuery(q)
  \/ \E r \in Requests : Refuse(r)
  \/ Broker
  \/ Disconnect \/ Crash \/ Connect
  \/ \E w \in Workers : WorkerAsserts(w) \/ WorkerTakes(w) \/ WorkerCrashes(w)

(* RabbitMQ reads what is written, a process that ended is started again    *)
(* (restart: unless-stopped), and the event loop runs a request that can go *)
(* on.  Nothing makes a request arrive.                                     *)
Fairness ==
  /\ WF_vars(Broker) /\ WF_vars(Connect)
  /\ \A t \in Triggers : WF_vars(pc[t] # "new" /\ (RunTrigger(t) \/ Refuse(t)))

Spec == Init /\ [][Next]_vars /\ Fairness

-----------------------------------------------------------------------------
(* Properties.                                                              *)

(* Whatever order the processes declare things in and die in between: a     *)
(* queue that exists has its dead-letter route, so that a job rejected for  *)
(* good has somewhere to go, and no job is sent to a queue not yet there.   *)
RoutesStand ==
  /\ "queue" \in declared => declared = Objects
  /\ unroutable = 0

(* A trigger that answers has handed over every job it selected, however    *)
(* few it counts as queued: the ones sendToQueue returned false for are on   *)
(* their way all the same.  Only a cut wire can have taken some.            *)
AnsweredMeansHandedOver ==
  \A t \in Triggers : pc[t] = "done" /\ t \notin cutOff =>
    arrived[t] + Cardinality(JobsOf(t)) = Batch[t]

(* Once a trigger has put a job on the queue or a worker consumes from it,  *)
(* asking for its depth or purging it does not cost the process its channel: *)
(* the channel ends with the connection, with the process, or by a health   *)
(* check, whose queue nobody declares.                                      *)
ChannelKeptByQueries ==
  [][chan = "open" /\ chan' # "open" /\ "queue" \in declared
       => \/ disconnects' < disconnects \/ crashes' < crashes
          \/ Head(wire).op = "health"]_vars

(* Every trigger that has begun is answered, with success or an error,      *)
(* although its calls may be outstanding when the wire is cut.              *)
TriggersEnd == \A t \in Triggers : pc[t] # "new" ~> pc[t] \in {"done", "failed"}

-----------------------------------------------------------------------------
(* The strengthening under which the safety properties are inductive.       *)

(* A frame in place: a job is a trigger's, for a queue that exists; a call   *)
(* is of a request that waits for it, and declares what comes next or asks. *)
InPlace(f) ==
  /\ f.op = "publish" => f.by \in Triggers /\ "queue" \in declared
  /\ f.op # "publish" => pc[f.by] = "waiting"
  /\ f.op = "declare" => /\ f.by \in Triggers
                         /\ asserted[f.by] < Len(Order)
                         /\ f.to = Order[asserted[f.by] + 1]
  /\ f.op \in {"depth", "health", "purge"} => f.by \in Queries
  /\ f.op \in {"depth", "purge"} => f.to \in Objects

(* All frames are, and at most one of them is a call. *)
WireWellFormed ==
  /\ \A i \in 1 .. Len(wire) : InPlace(wire[i])
  /\ \A i, j \in 1 .. Len(wire) : wire[i].op # "publish" /\ wire[j].op # "publish" => i = j

(* What a trigger or a worker has asserted is there. *)
AssertedIsDeclared ==
  \A a \in Triggers \cup Workers : \A i \in 1 .. asserted[a] : Order[i] \in declared

(* The jobs of a trigger whose wire was not cut are with RabbitMQ or on     *)
(* their way.                                                               *)
NoJobUnaccounted ==
  \A t \in Triggers :
    /\ t \notin cutOff => arrived[t] + Cardinality(JobsOf(t)) = sent[t]
    /\ pc[t] = "done" => sent[t] = Batch[t]

IndInv == TypeOK /\ WireWellFormed /\ AssertedIsDeclared /\ RoutesStand /\ NoJobUnaccounted
=============================================================================
