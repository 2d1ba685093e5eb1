-------------------------- MODULE BrokerClientProofs --------------------------
(***************************************************************************)
(* Machine-checked proofs about BrokerClient, for every set of triggers,   *)
(* queries and workers, every batch, high-water mark and budget.           *)
(***************************************************************************)
EXTENDS BrokerClient, FiniteSetTheorems, FunctionTheorems, TLAPS

(* The invariant without the account of the jobs. *)
CoreInv == TypeOK /\ WireWellFormed /\ AssertedIsDeclared /\ RoutesStand

-----------------------------------------------------------------------------
(* Sequences of frames, and the order of the declarations.                  *)

LEMMA FrameFacts ==
  ASSUME NEW f \in Frames
  PROVE  /\ f.op \in {"declare", "depth", "health", "purge", "publish"}
         /\ f.to \in Targets /\ f.by \in Requests
  BY DEF Frames

LEMMA FrameType ==
  ASSUME NEW op \in {"declare", "depth", "health", "purge", "publish"}, NEW to \in Targets,
         NEW by \in Requests
  PROVE  /\ Frame(op, to, by) \in Frames
         /\ Frame(op, to, by).op = op /\ Frame(op, to, by).to = to /\ Frame(op, to, by).by = by
  BY DEF Frame, Frames

LEMMA AppendFacts ==
  ASSUME NEW w \in Seq(Frames), NEW f \in Frames
  PROVE  /\ Append(w, f) \in Seq(Frames)
         /\ Len(w) \in Nat /\ Len(Append(w, f)) = Len(w) + 1
         /\ \A i \in 1 .. Len(w) : Append(w, f)[i] = w[i] /\ w[i] \in Frames
         /\ Append(w, f)[Len(w) + 1] = f
  OBVIOUS

LEMMA TailFacts ==
  ASSUME NEW w \in Seq(Frames), w # <<>>
  PROVE  /\ Tail(w) \in Seq(Frames)
         /\ Len(w) \in Nat /\ Len(w) > 0 /\ Len(Tail(w)) = Len(w) - 1
         /\ Head(w) = w[1] /\ w[1] \in Frames
         /\ \A i \in 1 .. Len(Tail(w)) : Tail(w)[i] = w[i + 1] /\ w[i + 1] \in Frames
  OBVIOUS

(* The last call of assertQueue declares the queue, when all else stands. *)
LEMMA OrderFacts ==
  /\ Len(Order) = 4
  /\ \A k \in 0 .. 3 : Order[k + 1] \in Objects
  /\ \A k \in 0 .. 3 : Order[k + 1] = "queue" => k = 3
  /\ \A D \in SUBSET Objects : (\A i \in 1 .. 3 : Order[i] \in D) => D \cup {Order[4]} = Objects
  /\ Order[4] = "queue"
<1>1. /\ Len(Order) = 4 /\ Order[1] = "exchange" /\ Order[2] = "deadLetters"
      /\ Order[3] = "binding" /\ Order[4] = "queue"
  BY DEF Order
<1>2. /\ \A k \in 0 .. 3 : k = 0 \/ k = 1 \/ k = 2 \/ k = 3
      /\ 0 + 1 = 1 /\ 1 + 1 = 2 /\ 2 + 1 = 3 /\ 3 + 1 = 4
      /\ 1 \in 1 .. 3 /\ 2 \in 1 .. 3 /\ 3 \in 1 .. 3
  OBVIOUS
<1>3. \A k \in 0 .. 3 : Order[k + 1] \in Objects /\ (Order[k + 1] = "queue" => k = 3)
  BY <1>1, <1>2 DEF Objects
<1>4. ASSUME NEW D \in SUBSET Objects, \A i \in 1 .. 3 : Order[i] \in D
      PROVE  D \cup {Order[4]} = Objects
  <2>1. "exchange" \in D /\ "deadLetters" \in D /\ "binding" \in D
    BY <1>1, <1>2, <1>4
  <2> QED BY <1>1, <2>1 DEF Objects
<1> QED BY <1>1, <1>3, <1>4

LEMMA TargetFacts == Objects \subseteq Targets /\ "health_check_test" \in Targets /\ "queue" \in Objects
  BY DEF Targets, Objects

-----------------------------------------------------------------------------
LEMMA InitCore == Init => CoreInv
<1> SUFFICES ASSUME Init PROVE CoreInv
  OBVIOUS
<1>1. TypeOK
  BY SizesAssumption, BudgetsAssumption, OrderFacts DEF Init, TypeOK, Objects
<1>2. Len(wire) = 0 /\ declared = {} /\ unroutable = 0
  BY DEF Init
<1>3. \A a \in Triggers \cup Workers : asserted[a] = 0
  BY DEF Init
<1> QED BY <1>1, <1>2, <1>3 DEF CoreInv, WireWellFormed, AssertedIsDeclared, RoutesStand

(* A frame more: the others stay in place, the new one is. *)
LEMMA AppendCore ==
  ASSUME CoreInv, NEW f \in Frames, wire' = Append(wire, f), declared' = declared,
         InPlace(f)',
         f.op # "publish" => \A i \in 1 .. Len(wire) : wire[i].op = "publish",
         \A r \in Requests : pc[r] = "waiting" => pc'[r] = "waiting" /\ (r \in Triggers => asserted'[r] = asserted[r])
  PROVE  WireWellFormed'
<1>1. wire \in Seq(Frames)
  BY DEF CoreInv, TypeOK
<1>2. /\ Len(wire) \in Nat /\ Len(wire') = Len(wire) + 1
      /\ \A i \in 1 .. Len(wire) : wire'[i] = wire[i] /\ wire[i] \in Frames
      /\ wire'[Len(wire) + 1] = f
  BY <1>1, AppendFacts
<1>3. ASSUME NEW i \in 1 .. Len(wire)
      PROVE  InPlace(wire[i])'
  <2>1. InPlace(wire[i]) /\ wire'[i] = wire[i] /\ wire[i].by \in Requests
    BY <1>2, FrameFacts DEF CoreInv, WireWellFormed
  <2> QED BY <2>1 DEF InPlace
<1>4. \A i \in 1 .. Len(wire') : i \in 1 .. Len(wire) \/ i = Len(wire) + 1
  BY <1>2
<1>5. \A i \in 1 .. Len(wire') : InPlace(wire[i])'
  BY <1>2, <1>3, <1>4 DEF InPlace
<1>6. \A i, j \in 1 .. Len(wire') : wire'[i].op # "publish" /\ wire'[j].op # "publish" => i = j
  <2> SUFFICES ASSUME NEW i \in 1 .. Len(wire'), NEW j \in 1 .. Len(wire'),
                      wire'[i].op # "publish", wire'[j].op # "publish"
               PROVE  i = j
    OBVIOUS
  <2>1. CASE f.op # "publish"
    BY <1>2, <1>4, <2>1
  <2>2. CASE f.op = "publish"
    <3>1. i \in 1 .. Len(wire) /\ j \in 1 .. Len(wire)
      BY <1>2, <1>4, <2>2
    <3> QED BY <1>2, <3>1 DEF CoreInv, WireWellFormed
  <2> QED BY <2>1, <2>2
<1> QED BY <1>5, <1>6 DEF WireWellFormed

(* A request that waits has its call on the wire: the others' are still there. *)
LEMMA AppendWaiting ==
  ASSUME TypeOK, NEW f \in Frames, wire' = Append(wire, f),
         \A q \in Requests : pc'[q] = "waiting" => pc[q] = "waiting" \/ (f.by = q /\ f.op # "publish")
  PROVE  /\ wire' \in Seq(Frames)
         /\ \A q \in Requests : pc'[q] = "waiting" =>
              \E i \in 1 .. Len(wire') : wire'[i].by = q /\ wire'[i].op # "publish"
<1>1. /\ wire' \in Seq(Frames)
      /\ Len(wire) \in Nat /\ Len(wire') = Len(wire) + 1
      /\ \A i \in 1 .. Len(wire) : wire'[i] = wire[i]
      /\ wire'[Len(wire) + 1] = f
  BY AppendFacts DEF TypeOK
<1>2. ASSUME NEW q \in Requests, pc'[q] = "waiting"
      PROVE  \E i \in 1 .. Len(wire') : wire'[i].by = q /\ wire'[i].op # "publish"
  <2>1. CASE pc[q] = "waiting"
    <3>1. PICK i \in 1 .. Len(wire) : wire[i].by = q /\ wire[i].op # "publish"
      BY <2>1 DEF TypeOK
    <3>2. i \in 1 .. Len(wire') /\ wire'[i] = wire[i]
      BY <1>1, <3>1
    <3> QED BY <3>1, <3>2
  <2>2. CASE f.by = q /\ f.op # "publish"
    <3>1. Len(wire) + 1 \in 1 .. Len(wire')
      BY <1>1
    <3> QED BY <1>1, <2>2, <3>1
  <2> QED BY <1>2, <2>1, <2>2
<1> QED BY <1>1, <1>2

(* A call adds one frame, for a request that now waits for it. *)
LEMMA CallCore ==
  ASSUME CoreInv, NEW r \in Requests,
         NEW op \in {"declare", "depth", "health", "purge"}, NEW to \in Targets,
         Call(r, op, to),
         op = "declare" => r \in Triggers /\ asserted[r] < Len(Order) /\ to = Order[asserted[r] + 1],
         op # "declare" => r \in Queries,
         op \in {"depth", "purge"} => to \in Objects
  PROVE  CoreInv'
<1> DEFINE f == Frame(op, to, r)
<1>1. f \in Frames /\ f.op = op /\ f.to = to /\ f.by = r
  BY FrameType
<1>2. wire' = Append(wire, f)
  BY DEF Call
<1> HIDE DEF f
<1>3. /\ chan = "open" /\ pc[r] \in {"new", "ready"} /\ pc' = [pc EXCEPT ![r] = "waiting"]
      /\ \A q \in Requests : pc[q] # "waiting"
      /\ declared' = declared /\ asserted' = asserted /\ chan' = chan
      /\ UNCHANGED <<queue, tallyVars, budgetVars, histVars>>
  BY DEF Call, AtCall, brokerVars
<1>4. TypeOK /\ pc \in [Requests -> {"new", "ready", "waiting", "done", "failed"}]
  BY DEF CoreInv, TypeOK
<1>5. pc'[r] = "waiting" /\ \A q \in Requests \ {r} : pc'[q] = pc[q]
  BY <1>3, <1>4
<1>6. TypeOK'
  <2>1. /\ wire' \in Seq(Frames)
        /\ \A q \in Requests : pc'[q] = "waiting" =>
             \E i \in 1 .. Len(wire') : wire'[i].by = q /\ wire'[i].op # "publish"
    BY <1>1, <1>2, <1>4, <1>5, AppendWaiting
  <2>2. pc' \in [Requests -> {"new", "ready", "waiting", "done", "failed"}]
    BY <1>3, <1>4
  <2> QED BY <1>3, <2>1, <2>2 DEF CoreInv, TypeOK, tallyVars, budgetVars, histVars
<1>7. WireWellFormed'
  <2>1. \A i \in 1 .. Len(wire) : wire[i].op = "publish"
    <3>1. \A i \in 1 .. Len(wire) : wire[i] \in Frames
      BY <1>4 DEF TypeOK
    <3> QED BY <1>3, <3>1, FrameFacts DEF CoreInv, WireWellFormed, InPlace
  <2>2. InPlace(f)'
    BY <1>1, <1>3, <1>5 DEF InPlace
  <2> QED BY <1>1, <1>2, <1>3, <1>5, <2>1, <2>2, AppendCore
<1>8. AssertedIsDeclared' /\ RoutesStand'
  BY <1>3 DEF CoreInv, AssertedIsDeclared, RoutesStand, histVars
<1> QED BY <1>6, <1>7, <1>8 DEF CoreInv

LEMMA SendCore ==
  ASSUME CoreInv, NEW t \in Triggers, SendJob(t)
  PROVE  CoreInv'
<1> DEFINE f == Frame("publish", "queue", t)
<1>1. f \in Frames /\ f.op = "publish" /\ f.by = t /\ t \in Requests
  BY FrameType, TargetFacts DEF Requests
<1>2. wire' = Append(wire, f)
  BY DEF SendJob, Written
<1> HIDE DEF f
<1>3. /\ chan = "open" /\ pc[t] \in {"new", "ready"} /\ pc' = [pc EXCEPT ![t] = "ready"]
      /\ sent[t] < Batch[t] /\ asserted' = [asserted EXCEPT ![t] = 0]
      /\ sent' = [sent EXCEPT ![t] = sent[t] + 1]
      /\ \E n \in {queuedCount[t], queuedCount[t] + 1} : queuedCount' = [queuedCount EXCEPT ![t] = n]
      /\ declared' = declared /\ chan' = chan
      /\ UNCHANGED <<queue, budgetVars, histVars>>
  BY DEF SendJob, AtCall, brokerVars
<1>4. TypeOK /\ pc \in [Requests -> {"new", "ready", "waiting", "done", "failed"}]
      /\ asserted \in [Triggers \cup Workers -> 0 .. 4]
  BY OrderFacts DEF CoreInv, TypeOK
<1>5. pc'[t] = "ready" /\ \A q \in Requests \ {t} : pc'[q] = pc[q]
  BY <1>1, <1>3, <1>4
<1>6. "queue" \in declared
  <2>1. asserted[t] = 4
    BY <1>3, <1>4, OrderFacts DEF SendJob, NeedsAssert
  <2> QED BY <2>1, OrderFacts DEF CoreInv, AssertedIsDeclared
<1>7. TypeOK'
  <2>1. /\ wire' \in Seq(Frames)
        /\ \A q \in Requests : pc'[q] = "waiting" =>
             \E i \in 1 .. Len(wire') : wire'[i].by = q /\ wire'[i].op # "publish"
    BY <1>1, <1>2, <1>4, <1>5, AppendWaiting
  <2>2. pc' \in [Requests -> {"new", "ready", "waiting", "done", "failed"}]
    BY <1>3, <1>4
  <2>3. asserted' \in [Triggers \cup Workers -> 0 .. Len(Order)]
    BY <1>3, <1>4, OrderFacts
  <2>4. /\ sent' \in [Triggers -> Nat] /\ queuedCount' \in [Triggers -> Nat]
        /\ \A u \in Triggers : queuedCount'[u] <= sent'[u] /\ sent'[u] <= Batch[u]
    <3>1. /\ sent \in [Triggers -> Nat] /\ queuedCount \in [Triggers -> Nat] /\ Batch \in [Triggers -> Nat]
          /\ \A u \in Triggers : queuedCount[u] <= sent[u] /\ sent[u] <= Batch[u]
      BY <1>4, SizesAssumption DEF TypeOK
    <3>2. PICK n \in {queuedCount[t], queuedCount[t] + 1} : queuedCount' = [queuedCount EXCEPT ![t] = n]
      BY <1>3
    <3>3. n \in Nat /\ n <= sent[t] + 1 /\ sent[t] + 1 <= Batch[t]
      BY <1>3, <3>1
    <3> QED BY <1>3, <3>1, <3>2, <3>3
  <2> QED BY <1>3, <2>1, <2>2, <2>3, <2>4 DEF CoreInv, TypeOK, budgetVars, histVars
<1>8. WireWellFormed'
  <2>1. InPlace(f)'
    BY <1>1, <1>3, <1>6 DEF InPlace
  <2>2. \A r \in Triggers : r # t => asserted'[r] = asserted[r]
    BY <1>3, <1>4
  <2> QED BY <1>1, <1>2, <1>3, <1>5, <2>1, <2>2, AppendCore
<1>9. AssertedIsDeclared'
  <2>1. \A a \in Triggers \cup Workers : asserted'[a] = 0 \/ asserted'[a] = asserted[a]
    BY <1>3, <1>4
  <2> QED BY <1>3, <2>1 DEF CoreInv, AssertedIsDeclared
<1>10. RoutesStand'
  BY <1>3 DEF CoreInv, RoutesStand, histVars
<1> QED BY <1>7, <1>8, <1>9, <1>10 DEF CoreInv

-----------------------------------------------------------------------------
(* Steps that leave the wire alone.                                         *)

LEMMA SameWire ==
  ASSUME CoreInv, wire' = wire, declared \subseteq declared',
         \A r \in Requests : pc'[r] = "waiting" <=> pc[r] = "waiting",
         \A t \in Triggers : asserted'[t] = asserted[t]
  PROVE  /\ WireWellFormed' /\ wire' \in Seq(Frames)
         /\ \A r \in Requests : pc'[r] = "waiting" =>
              \E i \in 1 .. Len(wire') : wire'[i].by = r /\ wire'[i].op # "publish"
<1>1. \A i \in 1 .. Len(wire) : wire[i].by \in Requests /\ InPlace(wire[i])
  <2>1. \A i \in 1 .. Len(wire) : wire[i] \in Frames
    BY DEF CoreInv, TypeOK
  <2> QED BY <2>1, FrameFacts DEF CoreInv, WireWellFormed
<1>2. \A i \in 1 .. Len(wire) : InPlace(wire[i])'
  BY <1>1 DEF InPlace
<1> QED BY <1>2 DEF CoreInv, TypeOK, WireWellFormed

(* A request that waits for nothing ends. *)
LEMMA EndCore ==
  ASSUME CoreInv, NEW r \in Requests, NEW to \in {"done", "failed"}, AtCall(r),
         pc' = [pc EXCEPT ![r] = to],
         UNCHANGED <<brokerVars, wire, chan, asserted, tallyVars, budgetVars, histVars>>
  PROVE  CoreInv'
<1>1. pc \in [Requests -> {"new", "ready", "waiting", "done", "failed"}]
  BY DEF CoreInv, TypeOK
<1>2. /\ pc' \in [Requests -> {"new", "ready", "waiting", "done", "failed"}]
      /\ \A q \in Requests : pc'[q] = "waiting" <=> pc[q] = "waiting"
  BY <1>1 DEF AtCall
<1>3. /\ WireWellFormed' /\ wire' \in Seq(Frames)
      /\ \A q \in Requests : pc'[q] = "waiting" =>
           \E i \in 1 .. Len(wire') : wire'[i].by = q /\ wire'[i].op # "publish"
  BY <1>2, SameWire DEF brokerVars
<1>4. TypeOK'
  BY <1>2, <1>3 DEF CoreInv, TypeOK, brokerVars, tallyVars, budgetVars, histVars
<1>5. AssertedIsDeclared' /\ RoutesStand'
  BY DEF CoreInv, AssertedIsDeclared, RoutesStand, brokerVars, histVars
<1> QED BY <1>3, <1>4, <1>5 DEF CoreInv

LEMMA ConnectCore == ASSUME CoreInv, Connect PROVE CoreInv'
<1>1. WireWellFormed'
  BY SameWire DEF Connect, brokerVars
<1>2. TypeOK'
  BY DEF CoreInv, TypeOK, Connect, brokerVars, tallyVars, budgetVars, histVars
<1>3. AssertedIsDeclared' /\ RoutesStand'
  BY DEF CoreInv, AssertedIsDeclared, RoutesStand, Connect, brokerVars, histVars
<1> QED BY <1>1, <1>2, <1>3 DEF CoreInv

(* What one more declaration does to the route. *)
LEMMA DeclareNext ==
  ASSUME CoreInv, NEW a \in Triggers \cup Workers, asserted[a] < 4,
         declared' = declared \cup {Order[asserted[a] + 1]},
         asserted' = [asserted EXCEPT ![a] = asserted[a] + 1], unroutable' = unroutable
  PROVE  /\ declared' \subseteq Objects
         /\ asserted' \in [Triggers \cup Workers -> 0 .. Len(Order)]
         /\ AssertedIsDeclared' /\ RoutesStand'
<1>1. asserted \in [Triggers \cup Workers -> 0 .. 4] /\ declared \subseteq Objects
  BY OrderFacts DEF CoreInv, TypeOK
<1>2. asserted[a] \in 0 .. 3 /\ asserted[a] + 1 \in 0 .. 4
  BY <1>1
<1>3. declared' \subseteq Objects /\ asserted' \in [Triggers \cup Workers -> 0 .. Len(Order)]
  BY <1>1, <1>2, OrderFacts
<1>4. \A b \in Triggers \cup Workers : asserted'[b] = IF b = a THEN asserted[a] + 1 ELSE asserted[b]
  BY <1>1
<1>5. AssertedIsDeclared'
  <2> SUFFICES ASSUME NEW b \in Triggers \cup Workers, NEW i \in 1 .. asserted'[b]
               PROVE  Order[i] \in declared'
    BY DEF AssertedIsDeclared
  <2>1. CASE i \in 1 .. asserted[b]
    BY <2>1 DEF CoreInv, AssertedIsDeclared
  <2>2. CASE i \notin 1 .. asserted[b]
    <3>1. b = a /\ i = asserted[a] + 1
      BY <1>1, <1>4, <2>2
    <3> QED BY <3>1
  <2> QED BY <2>1, <2>2
<1>6. RoutesStand'
  <2>1. CASE "queue" \in declared
    BY <1>3, <2>1 DEF CoreInv, RoutesStand
  <2>2. CASE "queue" \notin declared /\ "queue" \in declared'
    <3>1. asserted[a] = 3
      BY <1>2, <2>2, OrderFacts
    <3>2. \A i \in 1 .. 3 : Order[i] \in declared
      BY <3>1 DEF CoreInv, AssertedIsDeclared
    <3>3. declared' = declared \cup {Order[4]}
      BY <3>1
    <3>4. declared' = Objects
      BY <1>1, <3>2, <3>3, OrderFacts
    <3> QED BY <3>4 DEF CoreInv, RoutesStand
  <2>3. CASE "queue" \notin declared'
    BY <2>3 DEF CoreInv, RoutesStand
  <2> QED BY <2>1, <2>2, <2>3
<1> QED BY <1>3, <1>5, <1>6

LEMMA WorkerCore ==
  ASSUME CoreInv, NEW w \in Workers, WorkerAsserts(w) \/ WorkerTakes(w) \/ WorkerCrashes(w)
  PROVE  CoreInv'
<1>1. /\ asserted \in [Triggers \cup Workers -> 0 .. 4] /\ w \notin Triggers
      /\ queue \in Nat /\ crashes \in Nat
  BY OrderFacts, RequestsAssumption DEF CoreInv, TypeOK
<1>2. /\ wire' = wire /\ pc' = pc /\ chan' = chan /\ declared \subseteq declared'
      /\ UNCHANGED <<tallyVars, histVars, disconnects>>
      /\ \A t \in Triggers : asserted'[t] = asserted[t]
      /\ queue' \in Nat /\ crashes' \in Nat
  BY <1>1 DEF WorkerAsserts, WorkerTakes, WorkerCrashes, brokerVars, budgetVars
<1>3. WireWellFormed'
  BY <1>2, SameWire
<1>4. /\ declared' \subseteq Objects
      /\ asserted' \in [Triggers \cup Workers -> 0 .. Len(Order)]
      /\ AssertedIsDeclared' /\ RoutesStand'
  <2>1. CASE WorkerAsserts(w)
    <3>1. /\ asserted[w] < 4 /\ declared' = declared \cup {Order[asserted[w] + 1]}
          /\ asserted' = [asserted EXCEPT ![w] = asserted[w] + 1] /\ unroutable' = unroutable
      BY <1>2, <2>1, OrderFacts DEF WorkerAsserts, histVars
    <3> QED BY <3>1, DeclareNext
  <2>2. CASE WorkerTakes(w)
    BY <1>2, <2>2 DEF CoreInv, TypeOK, AssertedIsDeclared, RoutesStand, WorkerTakes, histVars
  <2>3. CASE WorkerCrashes(w)
    <3>1. /\ declared' = declared /\ unroutable' = unroutable
          /\ asserted' = [asserted EXCEPT ![w] = 0]
      BY <1>2, <2>3 DEF WorkerCrashes, brokerVars, histVars
    <3>2. \A a \in Triggers \cup Workers : asserted'[a] = 0 \/ asserted'[a] = asserted[a]
      BY <1>1, <3>1
    <3>3. asserted' \in [Triggers \cup Workers -> 0 .. Len(Order)]
      BY <1>1, <3>1, OrderFacts
    <3> QED BY <3>1, <3>2, <3>3 DEF CoreInv, TypeOK, AssertedIsDeclared, RoutesStand
  <2> QED BY <2>1, <2>2, <2>3
<1>5. TypeOK'
  BY <1>2, <1>4 DEF CoreInv, TypeOK, tallyVars, histVars
<1> QED BY <1>3, <1>4, <1>5 DEF CoreInv

-----------------------------------------------------------------------------
(* Steps that take the head of the wire.                                    *)

LEMMA HeadFacts ==
  ASSUME CoreInv, wire # <<>>
  PROVE  /\ wire \in Seq(Frames) /\ Head(wire) \in Frames /\ Head(wire).by \in Requests
         /\ InPlace(Head(wire)) /\ Head(wire) = wire[1] /\ 1 \in 1 .. Len(wire)
         /\ Head(wire).op # "publish" => \A i \in 2 .. Len(wire) : wire[i].op = "publish"
<1>1. wire \in Seq(Frames)
  BY DEF CoreInv, TypeOK
<1>2. Len(wire) \in Nat /\ Len(wire) > 0 /\ Head(wire) = wire[1] /\ wire[1] \in Frames
  BY <1>1, TailFacts
<1>3. 1 \in 1 .. Len(wire) /\ \A i \in 2 .. Len(wire) : i \in 1 .. Len(wire) /\ i # 1
  BY <1>2
<1>4. Head(wire).op # "publish" => \A i \in 2 .. Len(wire) : wire[i].op = "publish"
  BY <1>2, <1>3 DEF CoreInv, WireWellFormed
<1> QED BY <1>1, <1>2, <1>3, <1>4, FrameFacts DEF CoreInv, WireWellFormed

(* A job read, or a call answered: what is left is in place, and whoever    *)
(* waits still has the call on the wire.                                    *)
LEMMA TailCore ==
  ASSUME CoreInv, wire # <<>>, wire' = Tail(wire), declared \subseteq declared',
         \/ Head(wire).op = "publish" /\ pc' = pc /\ asserted' = asserted
         \/ /\ Head(wire).op # "publish"
            /\ \A r \in Requests : pc'[r] = "waiting" => pc[r] = "waiting" /\ r # Head(wire).by
  PROVE  /\ WireWellFormed' /\ wire' \in Seq(Frames)
         /\ \A r \in Requests : pc'[r] = "waiting" =>
              \E i \in 1 .. Len(wire') : wire'[i].by = r /\ wire'[i].op # "publish"
<1>1. /\ wire \in Seq(Frames) /\ wire' \in Seq(Frames)
      /\ Len(wire) \in Nat /\ Len(wire) > 0 /\ Len(wire') = Len(wire) - 1
      /\ Head(wire) = wire[1]
      /\ \A i \in 1 .. Len(wire') : wire'[i] = wire[i + 1] /\ wire[i + 1] \in Frames
  BY TailFacts DEF CoreInv, TypeOK
<1>2. /\ \A i \in 1 .. Len(wire') : i + 1 \in 2 .. Len(wire) /\ i + 1 \in 1 .. Len(wire)
      /\ \A i \in 1 .. Len(wire) : i # 1 => i - 1 \in 1 .. Len(wire') /\ (i - 1) + 1 = i
  BY <1>1
<1>3. CASE Head(wire).op = "publish" /\ pc' = pc /\ asserted' = asserted
  <2>1. \A i \in 1 .. Len(wire') : InPlace(wire[i])'
    <3> SUFFICES ASSUME NEW i \in 1 .. Len(wire') PROVE InPlace(wire[i])'
      OBVIOUS
    <3>1. InPlace(wire[i + 1]) /\ wire'[i] = wire[i + 1]
      BY <1>1, <1>2 DEF CoreInv, WireWellFormed
    <3> QED BY <1>3, <3>1 DEF InPlace
  <2>2. \A i, j \in 1 .. Len(wire') : wire'[i].op # "publish" /\ wire'[j].op # "publish" => i = j
    <3> SUFFICES ASSUME NEW i \in 1 .. Len(wire'), NEW j \in 1 .. Len(wire'),
                        wire'[i].op # "publish", wire'[j].op # "publish"
                 PROVE  i = j
      OBVIOUS
    <3>1. i + 1 = j + 1
      BY <1>1, <1>2 DEF CoreInv, WireWellFormed
    <3> QED BY <3>1
  <2>3. ASSUME NEW r \in Requests, pc'[r] = "waiting"
        PROVE  \E i \in 1 .. Len(wire') : wire'[i].by = r /\ wire'[i].op # "publish"
    <3>1. PICK k \in 1 .. Len(wire) : wire[k].by = r /\ wire[k].op # "publish"
      BY <1>3, <2>3 DEF CoreInv, TypeOK
    <3>2. k # 1
      BY <1>1, <1>3, <3>1
    <3>3. k - 1 \in 1 .. Len(wire') /\ wire'[k - 1] = wire[k]
      BY <1>1, <1>2, <3>2
    <3> QED BY <3>1, <3>3
  <2> QED BY <1>1, <2>1, <2>2, <2>3 DEF WireWellFormed
<1>4. CASE /\ Head(wire).op # "publish"
           /\ \A r \in Requests : pc'[r] = "waiting" => pc[r] = "waiting" /\ r # Head(wire).by
  <2>1. \A i \in 1 .. Len(wire') : wire'[i].op = "publish" /\ InPlace(wire[i + 1]) /\ wire'[i] = wire[i + 1]
    BY <1>1, <1>2, <1>4, HeadFacts DEF CoreInv, WireWellFormed
  <2>2. \A i \in 1 .. Len(wire') : InPlace(wire[i])'
    BY <2>1 DEF InPlace
  <2>3. \A r \in Requests : pc'[r] # "waiting"
    <3> SUFFICES ASSUME NEW r \in Requests, pc'[r] = "waiting" PROVE FALSE
      OBVIOUS
    <3>1. PICK k \in 1 .. Len(wire) : wire[k].by = r /\ wire[k].op # "publish"
      BY <1>4 DEF CoreInv, TypeOK
    <3>2. k = 1
      BY <1>1, <1>4, <3>1, HeadFacts DEF CoreInv, WireWellFormed
    <3> QED BY <1>1, <1>4, <3>1, <3>2
  <2> QED BY <1>1, <2>1, <2>2, <2>3 DEF WireWellFormed
<1> QED BY <1>3, <1>4

LEMMA DeclareCore == ASSUME CoreInv, Declare PROVE CoreInv'
<1> DEFINE f == Head(wire)
<1>1. /\ wire # <<>> /\ f.op = "declare" /\ chan = "open" /\ chan' = chan
      /\ declared' = declared \cup {f.to} /\ wire' = Tail(wire)
      /\ pc' = [pc EXCEPT ![f.by] = "ready"]
      /\ asserted' = [asserted EXCEPT ![f.by] = asserted[f.by] + 1]
      /\ UNCHANGED <<queue, tallyVars, budgetVars, histVars>>
  BY DEF Declare, Reading
<1>2. /\ f.by \in Triggers /\ f.by \in Requests /\ asserted[f.by] < 4
      /\ f.to = Order[asserted[f.by] + 1]
  BY <1>1, HeadFacts, OrderFacts DEF InPlace
<1> HIDE DEF f
<1>3. pc \in [Requests -> {"new", "ready", "waiting", "done", "failed"}]
  BY DEF CoreInv, TypeOK
<1>4. /\ pc' \in [Requests -> {"new", "ready", "waiting", "done", "failed"}]
      /\ \A r \in Requests : pc'[r] = "waiting" => pc[r] = "waiting" /\ r # f.by
  BY <1>1, <1>2, <1>3
<1>5. /\ WireWellFormed' /\ wire' \in Seq(Frames)
      /\ \A r \in Requests : pc'[r] = "waiting" =>
           \E i \in 1 .. Len(wire') : wire'[i].by = r /\ wire'[i].op # "publish"
  BY <1>1, <1>4, TailCore DEF f
<1>6. /\ declared' \subseteq Objects
      /\ asserted' \in [Triggers \cup Workers -> 0 .. Len(Order)]
      /\ AssertedIsDeclared' /\ RoutesStand'
  BY <1>1, <1>2, DeclareNext DEF histVars
<1>7. TypeOK'
  BY <1>1, <1>4, <1>5, <1>6 DEF CoreInv, TypeOK, tallyVars, budgetVars, histVars
<1> QED BY <1>5, <1>6, <1>7 DEF CoreInv

LEMMA AcceptCore == ASSUME CoreInv, AcceptJob PROVE CoreInv'
<1> DEFINE f == Head(wire)
<1>1. wire # <<>> /\ f.op = "publish"
  BY DEF AcceptJob, Reading
<1>2. f.by \in Triggers /\ "queue" \in declared
  BY <1>1, HeadFacts DEF InPlace
<1>3. /\ wire' = Tail(wire) /\ queue' = queue + 1
      /\ arrived' = [arrived EXCEPT ![f.by] = arrived[f.by] + 1]
      /\ chan = "open"
      /\ UNCHANGED <<declared, chan, pc, asserted, tallyVars, budgetVars, unroutable, cutOff>>
  BY <1>2 DEF AcceptJob, Reading
<1>4. /\ WireWellFormed' /\ wire' \in Seq(Frames)
      /\ \A r \in Requests : pc'[r] = "waiting" =>
           \E i \in 1 .. Len(wire') : wire'[i].by = r /\ wire'[i].op # "publish"
  BY <1>1, <1>3, TailCore
<1> HIDE DEF f
<1>5. queue' \in Nat /\ arrived' \in [Triggers -> Nat]
  BY <1>2, <1>3 DEF CoreInv, TypeOK
<1>6. TypeOK'
  BY <1>3, <1>4, <1>5 DEF CoreInv, TypeOK, tallyVars, budgetVars
<1>7. AssertedIsDeclared' /\ RoutesStand'
  BY <1>3 DEF CoreInv, AssertedIsDeclared, RoutesStand
<1> QED BY <1>4, <1>6, <1>7 DEF CoreInv

LEMMA AnswerCore == ASSUME CoreInv, Answer PROVE CoreInv'
<1> DEFINE f == Head(wire)
<1>1. /\ wire # <<>> /\ f.op # "publish" /\ chan = "open"
      /\ queue' \in {0, queue} /\ wire' = Tail(wire)
      /\ pc' = [pc EXCEPT ![f.by] = "done"]
      /\ UNCHANGED <<declared, chan, asserted, tallyVars, budgetVars, histVars>>
  BY DEF Answer, Reading
<1>2. f.by \in Requests
  BY <1>1, HeadFacts
<1> HIDE DEF f
<1>3. /\ pc' \in [Requests -> {"new", "ready", "waiting", "done", "failed"}]
      /\ \A r \in Requests : pc'[r] = "waiting" => pc[r] = "waiting" /\ r # f.by
  BY <1>1, <1>2 DEF CoreInv, TypeOK
<1>4. /\ WireWellFormed' /\ wire' \in Seq(Frames)
      /\ \A r \in Requests : pc'[r] = "waiting" =>
           \E i \in 1 .. Len(wire') : wire'[i].by = r /\ wire'[i].op # "publish"
  BY <1>1, <1>3, TailCore DEF f
<1>5. queue' \in Nat
  BY <1>1 DEF CoreInv, TypeOK
<1>6. TypeOK'
  BY <1>1, <1>3, <1>4, <1>5 DEF CoreInv, TypeOK, tallyVars, budgetVars, histVars
<1>7. AssertedIsDeclared' /\ RoutesStand'
  BY <1>1 DEF CoreInv, AssertedIsDeclared, RoutesStand, histVars
<1> QED BY <1>4, <1>6, <1>7 DEF CoreInv

-----------------------------------------------------------------------------
(* A cut wire is empty, and nobody waits any more.                          *)

LEMMA CutCore ==
  ASSUME CoreInv, NEW next \in {"closed", "down"}, Cut(next), asserted' = asserted,
         disconnects' \in Nat, crashes' \in Nat
  PROVE  CoreInv'
<1>1. /\ chan' = next /\ wire' = <<>> /\ cutOff' \subseteq Triggers
      /\ UNCHANGED <<brokerVars, tallyVars, arrived, unroutable>>
  BY DEF CoreInv, TypeOK, Cut
<1>2. /\ pc' \in [Requests -> {"new", "ready", "waiting", "done", "failed"}]
      /\ \A r \in Requests : pc'[r] # "waiting"
  BY DEF CoreInv, TypeOK, Cut, Rejected
<1>3. wire' \in Seq(Frames) /\ Len(wire') = 0
  BY <1>1
<1>4. WireWellFormed'
  BY <1>3 DEF WireWellFormed
<1>5. TypeOK'
  BY <1>1, <1>2, <1>3 DEF CoreInv, TypeOK, brokerVars, tallyVars
<1>6. AssertedIsDeclared' /\ RoutesStand'
  BY <1>1 DEF CoreInv, AssertedIsDeclared, RoutesStand, brokerVars
<1> QED BY <1>4, <1>5, <1>6 DEF CoreInv

LEMMA LossCore == ASSUME CoreInv, CloseOnMissing \/ Disconnect \/ Crash PROVE CoreInv'
<1>1. disconnects \in Nat /\ crashes \in Nat
  BY DEF CoreInv, TypeOK
<1>2. CASE CloseOnMissing
  BY <1>1, <1>2, CutCore DEF CloseOnMissing, budgetVars
<1>3. CASE Disconnect
  <2>1. disconnects' \in Nat /\ crashes' \in Nat /\ asserted' = asserted /\ Cut("closed")
    BY <1>1, <1>3 DEF Disconnect
  <2> QED BY <2>1, CutCore
<1>4. CASE Crash
  <2>1. disconnects' \in Nat /\ crashes' \in Nat /\ asserted' = asserted /\ Cut("down")
    BY <1>1, <1>4 DEF Crash
  <2> QED BY <2>1, CutCore
<1> QED BY <1>2, <1>3, <1>4

-----------------------------------------------------------------------------
(* One step per request's action; the rest are the lemmas above.            *)

LEMMA TriggerCore ==
  ASSUME CoreInv, NEW t \in Triggers, RunTrigger(t)
  PROVE  CoreInv'
<1>0. t \in Requests
  BY DEF Requests
<1>1. CASE AssertNext(t)
  <2>1. asserted[t] \in 0 .. 3
    BY <1>1, OrderFacts DEF AssertNext, NeedsAssert, CoreInv, TypeOK
  <2>2. Order[asserted[t] + 1] \in Targets
    BY <2>1, OrderFacts, TargetFacts
  <2>3. asserted[t] < Len(Order) /\ Call(t, "declare", Order[asserted[t] + 1])
    BY <1>1 DEF AssertNext, NeedsAssert
  <2> QED BY <1>0, <2>2, <2>3, CallCore
<1>2. CASE SendJob(t)
  BY <1>2, SendCore
<1>3. CASE FinishTrigger(t)
  BY <1>0, <1>3, EndCore DEF FinishTrigger
<1> QED BY <1>1, <1>2, <1>3 DEF RunTrigger

LEMMA QueryCore ==
  ASSUME CoreInv, NEW q \in Queries, RunQuery(q)
  PROVE  CoreInv'
<1>0. q \in Requests
  BY DEF Requests
<1>1. CASE QueryDepth(q)
  BY <1>0, <1>1, CallCore, TargetFacts DEF QueryDepth, CheckedQueue
<1>2. CASE QueryHealth(q)
  BY <1>0, <1>2, CallCore, TargetFacts DEF QueryHealth
<1>3. CASE Purge(q)
  BY <1>0, <1>3, CallCore, TargetFacts DEF Purge
<1> QED BY <1>1, <1>2, <1>3 DEF RunQuery

LEMMA StepCore == CoreInv /\ [Next]_vars => CoreInv'
<1> SUFFICES ASSUME CoreInv, [Next]_vars PROVE CoreInv'
  OBVIOUS
<1>1. ASSUME NEW t \in Triggers, RunTrigger(t) PROVE CoreInv'
  BY <1>1, TriggerCore
<1>2. ASSUME NEW q \in Queries, RunQuery(q) PROVE CoreInv'
  BY <1>2, QueryCore
<1>3. ASSUME NEW r \in Requests, Refuse(r) PROVE CoreInv'
  BY <1>3, EndCore DEF Refuse, Rejected
<1>4. CASE Broker
  BY <1>4, DeclareCore, AcceptCore, AnswerCore, LossCore DEF Broker
<1>5. CASE Disconnect \/ Crash
  BY <1>5, LossCore
<1>6. CASE Connect
  BY <1>6, ConnectCore
<1>7. ASSUME NEW w \in Workers, WorkerAsserts(w) \/ WorkerTakes(w) \/ WorkerCrashes(w) PROVE CoreInv'
  BY <1>7, WorkerCore
<1>8. CASE UNCHANGED vars
  BY <1>8 DEF CoreInv, TypeOK, WireWellFormed, InPlace, AssertedIsDeclared, RoutesStand,
              vars, brokerVars, tallyVars, budgetVars, histVars
<1> QED BY <1>1, <1>2, <1>3, <1>4, <1>5, <1>6, <1>7, <1>8 DEF Next

-----------------------------------------------------------------------------
(* The strengthening holds in every reachable state.                        *)
THEOREM CoreInvariance == Spec => []CoreInv
  BY InitCore, StepCore, PTL DEF Spec

(* Every state is well typed: no call is on the wire of a closed channel,   *)
(* whoever waits has its call on the wire, and no trigger counts or sends   *)
(* more than it selected.                                                   *)
THEOREM TypeCorrect == Spec => []TypeOK
<1>1. CoreInv => TypeOK
  BY DEF CoreInv
<1> QED BY <1>1, CoreInvariance, PTL

(* However many processes assert the queue at once and die in between, a    *)
(* queue that exists has its dead-letter route, and no job is written       *)
(* before its queue is there.                                               *)
THEOREM RoutesAlwaysStand == Spec => []RoutesStand
<1>1. CoreInv => RoutesStand
  BY DEF CoreInv
<1> QED BY <1>1, CoreInvariance, PTL

(* A depth query or a purge cannot cost the process its channel once the    *)
(* queue exists; a health check always does.                                *)
THEOREM ChannelKept == Spec => ChannelKeptByQueries
<1> DEFINE Kept == chan = "open" /\ chan' # "open" /\ "queue" \in declared
                     => \/ disconnects' < disconnects \/ crashes' < crashes
                        \/ Head(wire).op = "health"
<1>1. CoreInv /\ [Next]_vars => [Kept]_vars
  <2> SUFFICES ASSUME CoreInv, Next, chan = "open", chan' # "open", "queue" \in declared
               PROVE  \/ disconnects' < disconnects \/ crashes' < crashes
                      \/ Head(wire).op = "health"
    BY DEF vars
  <2>1. CloseOnMissing \/ Disconnect \/ Crash
    BY DEF Next, RunTrigger, AssertNext, SendJob, FinishTrigger, RunQuery, QueryDepth, QueryHealth,
           Purge, Call, Refuse, Broker, Declare, AcceptJob, Answer, Connect,
           WorkerAsserts, WorkerTakes, WorkerCrashes
  <2>2. CASE CloseOnMissing
    <3>1. /\ wire # <<>> /\ Head(wire).op \in {"depth", "health", "purge"}
          /\ Head(wire).to \notin declared
      BY <2>2 DEF CloseOnMissing, Reading
    <3>2. declared = Objects
      BY DEF CoreInv, RoutesStand
    <3> QED BY <3>1, <3>2, HeadFacts DEF InPlace
  <2>3. CASE Disconnect
    BY <2>3 DEF Disconnect, CoreInv, TypeOK
  <2>4. CASE Crash
    BY <2>4 DEF Crash, CoreInv, TypeOK
  <2> QED BY <2>1, <2>2, <2>3, <2>4
<1> QED BY <1>1, CoreInvariance, PTL DEF Spec, ChannelKeptByQueries

-----------------------------------------------------------------------------
(* The account of the jobs.                                                 *)

(* A trigger's jobs on a wire are finitely many; an appended frame adds at  *)
(* most one, and taking the head takes at most the one it is.               *)
LEMMA JobsFinite ==
  ASSUME TypeOK, NEW t
  PROVE  IsFiniteSet(JobsOf(t)) /\ Cardinality(JobsOf(t)) \in Nat
<1>1. Len(wire) \in Nat
  BY DEF TypeOK
<1>2. IsFiniteSet(1 .. Len(wire))
  BY <1>1, FS_Interval
<1>3. JobsOf(t) \subseteq 1 .. Len(wire)
  BY DEF JobsOf
<1> QED BY <1>2, <1>3, FS_Subset, FS_CardinalityType

LEMMA JobsAppend ==
  ASSUME TypeOK, NEW f \in Frames, wire' = Append(wire, f), NEW t
  PROVE  Cardinality(JobsOf(t)') =
           IF f.op = "publish" /\ f.by = t THEN Cardinality(JobsOf(t)) + 1
           ELSE Cardinality(JobsOf(t))
<1>1. /\ Len(wire) \in Nat /\ Len(wire') = Len(wire) + 1
      /\ \A i \in 1 .. Len(wire) : wire'[i] = wire[i]
      /\ wire'[Len(wire) + 1] = f
  BY AppendFacts DEF TypeOK
<1>2. /\ \A i : i \in 1 .. Len(wire') <=> i \in 1 .. Len(wire) \/ i = Len(wire) + 1
      /\ Len(wire) + 1 \notin 1 .. Len(wire)
  BY <1>1
<1>3. JobsOf(t)' = IF f.op = "publish" /\ f.by = t THEN JobsOf(t) \cup {Len(wire) + 1} ELSE JobsOf(t)
  BY <1>1, <1>2 DEF JobsOf
<1>4. Len(wire) + 1 \notin JobsOf(t)
  BY <1>2 DEF JobsOf
<1> QED BY <1>3, <1>4, JobsFinite, FS_AddElement

LEMMA JobsTail ==
  ASSUME TypeOK, wire # <<>>, wire' = Tail(wire), NEW t
  PROVE  Cardinality(JobsOf(t)') =
           IF Head(wire).op = "publish" /\ Head(wire).by = t THEN Cardinality(JobsOf(t)) - 1
           ELSE Cardinality(JobsOf(t))
<1>1. /\ Len(wire) \in Nat /\ Len(wire) > 0 /\ Len(wire') = Len(wire) - 1
      /\ Head(wire) = wire[1]
      /\ \A i \in 1 .. Len(wire') : wire'[i] = wire[i + 1]
  BY TailFacts DEF TypeOK
<1> DEFINE S == JobsOf(t) \ {1}
           shift == [i \in S |-> i - 1]
<1>2. \A i \in S : i - 1 \in JobsOf(t)'
  BY <1>1 DEF JobsOf
<1>3. \A k \in JobsOf(t)' : k + 1 \in S /\ (k + 1) - 1 = k
  BY <1>1 DEF JobsOf
<1>4. shift \in Bijection(S, JobsOf(t)')
  <2>1. shift \in [S -> JobsOf(t)']
    BY <1>2
  <2>2. \A i, j \in S : shift[i] = shift[j] => i = j
    BY DEF JobsOf
  <2>3. \A k \in JobsOf(t)' : \E i \in S : shift[i] = k
    BY <1>3
  <2> QED BY <2>1, <2>2, <2>3, Fun_IsBij
<1>5. IsFiniteSet(S) /\ Cardinality(JobsOf(t)') = Cardinality(S)
  <2>1. IsFiniteSet(S)
    BY JobsFinite, FS_RemoveElement
  <2> QED BY <1>4, <2>1, FS_Bijection DEF ExistsBijection
<1>6. 1 \in JobsOf(t) <=> Head(wire).op = "publish" /\ Head(wire).by = t
  BY <1>1 DEF JobsOf
<1>7. Cardinality(S) = IF 1 \in JobsOf(t) THEN Cardinality(JobsOf(t)) - 1 ELSE Cardinality(JobsOf(t))
  BY JobsFinite, FS_RemoveElement
<1> QED BY <1>5, <1>6, <1>7

(* What a step may do to the account: the sum and what was sent move        *)
(* together, and an answered trigger sends no more.                         *)
LEMMA SameAccount ==
  ASSUME NoJobUnaccounted,
         \A t \in Triggers :
           /\ cutOff' = cutOff /\ sent'[t] = sent[t]
           /\ arrived'[t] + Cardinality(JobsOf(t)') = arrived[t] + Cardinality(JobsOf(t))
           /\ pc'[t] = "done" => pc[t] = "done"
  PROVE  NoJobUnaccounted'
  BY DEF NoJobUnaccounted

LEMMA AccountCall ==
  ASSUME CoreInv, NoJobUnaccounted, NEW r \in Requests,
         NEW op \in {"declare", "depth", "health", "purge"}, NEW to \in Targets, Call(r, op, to)
  PROVE  NoJobUnaccounted'
<1> DEFINE f == Frame(op, to, r)
<1>1. f \in Frames /\ f.op # "publish" /\ wire' = Append(wire, f)
  BY FrameType DEF Call
<1>2. \A t \in Triggers : Cardinality(JobsOf(t)') = Cardinality(JobsOf(t))
  BY <1>1, JobsAppend DEF CoreInv
<1>3. /\ UNCHANGED <<sent, arrived, cutOff>>
      /\ \A t \in Triggers : pc'[t] = "done" => pc[t] = "done"
  BY DEF Call, CoreInv, TypeOK, Requests, tallyVars, histVars
<1> QED BY <1>2, <1>3, SameAccount

LEMMA AccountSend ==
  ASSUME CoreInv, NoJobUnaccounted, NEW t \in Triggers, SendJob(t)
  PROVE  NoJobUnaccounted'
<1> DEFINE f == Frame("publish", "queue", t)
<1>1. f \in Frames /\ f.op = "publish" /\ f.by = t /\ wire' = Append(wire, f)
  BY FrameType, TargetFacts DEF SendJob, Written, Requests
<1> HIDE DEF f
<1>2. \A u \in Triggers : Cardinality(JobsOf(u)') =
        IF u = t THEN Cardinality(JobsOf(u)) + 1 ELSE Cardinality(JobsOf(u))
  BY <1>1, JobsAppend DEF CoreInv
<1>3. /\ pc[t] # "done" /\ pc'[t] # "done" /\ sent'[t] = sent[t] + 1
      /\ arrived' = arrived /\ cutOff' = cutOff
      /\ \A u \in Triggers : u # t => pc'[u] = pc[u] /\ sent'[u] = sent[u]
  BY DEF SendJob, AtCall, CoreInv, TypeOK, Requests, histVars
<1>4. \A u \in Triggers : /\ arrived[u] \in Nat /\ sent[u] \in Nat
                          /\ Cardinality(JobsOf(u)) \in Nat
  BY JobsFinite DEF CoreInv, TypeOK
<1> QED BY <1>2, <1>3, <1>4 DEF NoJobUnaccounted

LEMMA AccountFinish ==
  ASSUME CoreInv, NoJobUnaccounted, NEW t \in Triggers, FinishTrigger(t)
  PROVE  NoJobUnaccounted'
<1>1. \A u \in Triggers : JobsOf(u)' = JobsOf(u)
  BY DEF FinishTrigger, JobsOf
<1>2. /\ UNCHANGED <<sent, arrived, cutOff>> /\ sent[t] = Batch[t]
      /\ \A u \in Triggers : u # t => pc'[u] = pc[u]
  BY DEF FinishTrigger, CoreInv, TypeOK, Requests, tallyVars, histVars
<1> QED BY <1>1, <1>2 DEF NoJobUnaccounted

LEMMA AccountRead ==
  ASSUME CoreInv, NoJobUnaccounted, Declare \/ AcceptJob \/ Answer
  PROVE  NoJobUnaccounted'
<1> DEFINE f == Head(wire)
<1>1. wire # <<>> /\ wire' = Tail(wire) /\ cutOff' = cutOff /\ sent' = sent
  BY DEF Declare, AcceptJob, Answer, Reading, tallyVars, histVars
<1>2. f \in Frames /\ f.by \in Requests /\ InPlace(f)
  BY <1>1, HeadFacts
<1>3. \A t \in Triggers : /\ arrived[t] \in Nat
                          /\ Cardinality(JobsOf(t)) \in Nat
                          /\ Cardinality(JobsOf(t)') =
                               IF f.op = "publish" /\ f.by = t THEN Cardinality(JobsOf(t)) - 1
                               ELSE Cardinality(JobsOf(t))
  BY <1>1, JobsFinite, JobsTail DEF CoreInv, TypeOK
<1>4. CASE AcceptJob
  <2>1. f.op = "publish" /\ f.by \in Triggers /\ "queue" \in declared
    BY <1>2, <1>4 DEF AcceptJob, Reading, InPlace
  <2>2. pc' = pc /\ arrived' = [arrived EXCEPT ![f.by] = arrived[f.by] + 1]
    BY <1>4, <2>1 DEF AcceptJob
  <2>3. \A t \in Triggers : arrived'[t] = IF t = f.by THEN arrived[t] + 1 ELSE arrived[t]
    BY <2>2 DEF CoreInv, TypeOK
  <2> HIDE DEF f
  <2>4. \A t \in Triggers : arrived'[t] + Cardinality(JobsOf(t)') = arrived[t] + Cardinality(JobsOf(t))
    BY <1>3, <2>1, <2>3
  <2> QED BY <1>1, <2>2, <2>4, SameAccount
<1>5. CASE Declare \/ Answer
  <2>1. f.op # "publish" /\ arrived' = arrived
    BY <1>5 DEF Declare, Answer, Reading, histVars
  <2>2. \A t \in Triggers : pc'[t] = "done" => pc[t] = "done"
    <3>1. pc \in [Requests -> {"new", "ready", "waiting", "done", "failed"}]
      BY DEF CoreInv, TypeOK
    <3>2. CASE Declare
      BY <3>1, <3>2 DEF Declare, Requests
    <3>3. CASE Answer
      <4>1. f.by \in Queries /\ pc' = [pc EXCEPT ![f.by] = "done"]
        BY <1>2, <3>3 DEF Answer, Reading, InPlace
      <4>2. \A t \in Triggers : t # f.by /\ t \in Requests
        BY <4>1, RequestsAssumption DEF Requests
      <4> HIDE DEF f
      <4> QED BY <3>1, <4>1, <4>2
    <3> QED BY <1>5, <3>2, <3>3
  <2>3. \A t \in Triggers : Cardinality(JobsOf(t)') = Cardinality(JobsOf(t))
    BY <1>3, <2>1
  <2> QED BY <1>1, <2>1, <2>2, <2>3, SameAccount
<1> QED BY <1>4, <1>5

(* A trigger whose jobs were not on the wire that is cut loses none. *)
LEMMA AccountCut ==
  ASSUME CoreInv, NoJobUnaccounted, NEW next, Cut(next)
  PROVE  NoJobUnaccounted'
<1>1. /\ wire' = <<>> /\ UNCHANGED <<sent, arrived>>
      /\ cutOff' = cutOff \cup {t \in Triggers : JobsOf(t) # {}}
  BY DEF Cut, tallyVars
<1>2. \A t \in Triggers : JobsOf(t)' = {}
  BY <1>1 DEF JobsOf
<1>3. \A t \in Triggers : pc'[t] = "done" => pc[t] = "done"
  BY DEF Cut, Rejected, CoreInv, TypeOK, Requests
<1>4. \A t \in Triggers : t \notin cutOff' => t \notin cutOff /\ JobsOf(t)' = JobsOf(t)
  BY <1>1, <1>2
<1> QED BY <1>1, <1>3, <1>4 DEF NoJobUnaccounted

LEMMA AccountStep == CoreInv /\ NoJobUnaccounted /\ [Next]_vars => NoJobUnaccounted'
<1> SUFFICES ASSUME CoreInv, NoJobUnaccounted, [Next]_vars PROVE NoJobUnaccounted'
  OBVIOUS
<1>1. ASSUME NEW t \in Triggers, RunTrigger(t) PROVE NoJobUnaccounted'
  <2>0. t \in Requests
    BY DEF Requests
  <2>1. CASE AssertNext(t)
    <3>1. asserted[t] \in 0 .. 3
      BY <2>1, OrderFacts DEF AssertNext, NeedsAssert, CoreInv, TypeOK
    <3>2. Order[asserted[t] + 1] \in Targets
      BY <3>1, OrderFacts, TargetFacts
    <3> QED BY <2>0, <2>1, <3>2, AccountCall DEF AssertNext
  <2> QED BY <1>1, <2>1, AccountSend, AccountFinish DEF RunTrigger
<1>2. ASSUME NEW q \in Queries, RunQuery(q) PROVE NoJobUnaccounted'
  <2>1. q \in Requests /\ CheckedQueue \in Targets /\ "queue" \in Targets
    BY TargetFacts DEF Requests, CheckedQueue
  <2> QED BY <1>2, <2>1, AccountCall, TargetFacts DEF RunQuery, QueryDepth, QueryHealth, Purge
<1>3. ASSUME NEW r \in Requests, Refuse(r) PROVE NoJobUnaccounted'
  <2>1. \A t \in Triggers : JobsOf(t)' = JobsOf(t)
    BY <1>3 DEF Refuse, JobsOf
  <2>2. UNCHANGED <<sent, arrived, cutOff>>
    BY <1>3 DEF Refuse, tallyVars, histVars
  <2>3. \A t \in Triggers : pc'[t] = "done" => pc[t] = "done"
    BY <1>3 DEF Refuse, Rejected, CoreInv, TypeOK, Requests
  <2> QED BY <2>1, <2>2, <2>3, SameAccount
<1>4. CASE Broker \/ Disconnect \/ Crash
  BY <1>4, AccountRead, AccountCut DEF Broker, CloseOnMissing, Disconnect, Crash
<1>5. CASE \/ Connect
           \/ \E w \in Workers : WorkerAsserts(w) \/ WorkerTakes(w) \/ WorkerCrashes(w)
           \/ UNCHANGED vars
  <2>1. UNCHANGED <<wire, pc, tallyVars, histVars>>
    BY <1>5 DEF Connect, WorkerAsserts, WorkerTakes, WorkerCrashes, vars
  <2>2. \A t \in Triggers : JobsOf(t)' = JobsOf(t)
    BY <2>1 DEF JobsOf
  <2> QED BY <2>1, <2>2, SameAccount DEF tallyVars, histVars
<1> QED BY <1>1, <1>2, <1>3, <1>4, <1>5 DEF Next

(* The strengthening of the jobs' account holds in every reachable state,   *)
(* beside the invariant the wire needs.                                     *)
THEOREM Invariance == Spec => []IndInv
<1>1. Init => CoreInv /\ NoJobUnaccounted
  <2> SUFFICES ASSUME Init PROVE CoreInv /\ NoJobUnaccounted
    OBVIOUS
  <2>1. \A t \in Triggers : JobsOf(t) = {}
    BY DEF Init, JobsOf
  <2>2. \A t \in Triggers : pc[t] = "new" /\ sent[t] = 0 /\ arrived[t] = 0
    BY DEF Init, Requests
  <2> QED BY <2>1, <2>2, InitCore, FS_EmptySet DEF NoJobUnaccounted
<1>2. CoreInv /\ NoJobUnaccounted /\ [Next]_vars => CoreInv' /\ NoJobUnaccounted'
  BY StepCore, AccountStep
<1>3. CoreInv /\ NoJobUnaccounted => IndInv
  BY DEF CoreInv, IndInv
<1> QED BY <1>1, <1>2, <1>3, PTL DEF Spec

(* A trigger that answered handed over every job it selected, although it   *)
(* may count fewer as queued, unless a wire with jobs of its own was cut.   *)
THEOREM AnswersAreComplete == Spec => []AnsweredMeansHandedOver
<1>1. IndInv => AnsweredMeansHandedOver
  BY DEF IndInv, NoJobUnaccounted, AnsweredMeansHandedOver
<1> QED BY <1>1, Invariance, PTL
=============================================================================
