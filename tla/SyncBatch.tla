------------------------------- MODULE SyncBatch -------------------------------
(***************************************************************************)
(* The synchronous mode: an admin request that runs                        *)
(* PredictionService.processPredictionBatch inside the API process, over   *)
(* the correct groups of GroupDataService, which Redis caches, while users *)
(* go on storing predictions and the seed script may replace the teams.    *)
(*                                                                         *)
(* A row of predictions gets its created_at when its transaction begins    *)
(* and can be read when it commits, so rows do not always become visible   *)
(* in the order the batch pages through; and that order leaves rows of one *)
(* created_at in any order, which need not be that of the next query.  The *)
(* seed script gives every team a new id, so the teams of two runs have    *)
(* none in common: the table is one draw, the number of the run that       *)
(* filled it.  What a score is worth belongs to Scoring; here a payload    *)
(* can be scored or throws.                                                *)
(***************************************************************************)
EXTENDS Integers, FiniteSets

CONSTANTS
  Predictions,  (* identities of the predictions users may store             *)
  Malformed,    (* those whose payload makes scoring throw                   *)
  Batches,      (* trigger requests in synchronous mode, each handled once   *)
  BatchSize,    (* prediction.batchSize                                      *)
  SeedBudget,   (* bound: runs of the seed script                            *)
  FailBudget,   (* bound: batches or seed runs ended by a failed call        *)
  NoDraw        (* the key correct-groups is absent from Redis               *)

NoTeams == 0    (* the draw of an empty table: no team, no group             *)

ASSUME PredictionsAssumption == IsFiniteSet(Predictions) /\ Malformed \subseteq Predictions
ASSUME SizeAssumption        == BatchSize \in Nat \ {0}
ASSUME BudgetAssumption      == SeedBudget \in Nat /\ FailBudget \in Nat
ASSUME NoDrawAssumption      == NoDraw \notin Nat

VARIABLES
  createdAt,   (* the instant in created_at, 0 for a row not yet begun       *)
  visible,     (* committed rows of table predictions                        *)
  rows,        (* rows of table results per batch and prediction             *)
  teams,       (* the draw in table teams                                    *)
  cache,       (* the draw cached in Redis                                   *)
  expires,     (* its key has a time to live                                 *)
  pc,          (* where each batch is                                        *)
  groups,      (* the draw a batch scores with                               *)
  offset,      (* its offset                                                 *)
  page,        (* the predictions of its current page                        *)
  seeding,     (* where the seed script is                                   *)
  seeds,       (* runs of it so far                                          *)
  fails,       (* what is left of the budget                                 *)
  began,       (* history: what was visible when a batch began to page       *)
  arrived      (* history: what has become visible since then                *)

tableVars == <<createdAt, visible, rows>>
drawVars  == <<teams, cache, expires>>
batchVars == <<pc, groups, offset, page>>
seedVars  == <<seeding, seeds>>
histVars  == <<began, arrived>>
vars == <<tableVars, drawVars, batchVars, seedVars, fails, histVars>>

BatchPcs == {"new", "find", "cacheGroups", "fetch", "save", "done", "failed"}

TypeOK ==
  /\ createdAt \in [Predictions -> Nat]
  /\ visible \in SUBSET {p \in Predictions : createdAt[p] > 0}
  /\ rows \in [Batches -> [Predictions -> Nat]]
  /\ teams \in Nat
  /\ cache \in Nat \cup {NoDraw}
  /\ expires \in BOOLEAN
  /\ pc \in [Batches -> BatchPcs]
  /\ groups \in [Batches -> Nat \cup {NoDraw}]
  /\ \A b \in Batches : pc[b] \in {"cacheGroups", "fetch", "save"} <=> groups[b] # NoDraw
  /\ offset \in [Batches -> Nat]
  /\ page \in [Batches -> SUBSET Predictions]
  /\ \A b \in Batches : Cardinality(page[b]) <= BatchSize
  /\ seeding \in {"idle", "cleared"} /\ seeds \in Nat /\ fails \in Nat
  /\ began \in [Batches -> SUBSET Predictions]
  /\ arrived \in [Batches -> SUBSET Predictions]

Init ==
  /\ createdAt = [p \in Predictions |-> 0]
  /\ visible = {}
  /\ rows = [b \in Batches |-> [p \in Predictions |-> 0]]
  /\ teams = NoTeams /\ cache = NoDraw /\ expires = FALSE
  /\ pc = [b \in Batches |-> "new"]
  /\ groups = [b \in Batches |-> NoDraw]
  /\ offset = [b \in Batches |-> 0]
  /\ page = [b \in Batches |-> {}]
  /\ seeding = "idle" /\ seeds = 0 /\ fails = FailBudget
  /\ began = [b \in Batches |-> {}]
  /\ arrived = [b \in Batches |-> {}]

-----------------------------------------------------------------------------
(* createPrediction: save runs its INSERT in a transaction of its own, which *)
(* begins at the instant of the last one or later; how much later does not  *)
(* matter.                                                                  *)

Now(t) ==
  /\ \A q \in Predictions : createdAt[q] <= t
  /\ t > 1 => \E q \in Predictions : createdAt[q] = t - 1 \/ createdAt[q] = t

BeginInsert(p) ==
  /\ createdAt[p] = 0
  /\ \E t \in 1 .. Cardinality(Predictions) : Now(t) /\ createdAt' = [createdAt EXCEPT ![p] = t]
  /\ UNCHANGED <<visible, rows, drawVars, batchVars, seedVars, fails, histVars>>

CommitInsert(p) ==
  /\ createdAt[p] > 0 /\ p \notin visible
  /\ visible' = visible \cup {p}
  /\ arrived' = [b \in Batches |->
                   IF pc[b] \in {"fetch", "save"} THEN arrived[b] \cup {p} ELSE arrived[b]]
  /\ UNCHANGED <<createdAt, rows, drawVars, batchVars, seedVars, fails, began>>

-----------------------------------------------------------------------------
(* getCorrectGroups, then the paging loop.                                  *)

Step(b, from, to) == pc[b] = from /\ pc' = [pc EXCEPT ![b] = to]

StartPaging(b) ==
  /\ began' = [began EXCEPT ![b] = visible]
  /\ UNCHANGED arrived

(* An empty draw is cached as "[]", which is truthy: a hit like any other. *)
ReadCache(b) ==
  /\ groups' = [groups EXCEPT ![b] = cache]
  /\ \/ cache = NoDraw /\ Step(b, "new", "find") /\ UNCHANGED histVars
     \/ cache # NoDraw /\ Step(b, "new", "fetch") /\ StartPaging(b)
  /\ UNCHANGED <<tableVars, drawVars, offset, page, seedVars, fails>>

FindTeams(b) ==
  /\ Step(b, "find", "cacheGroups")
  /\ groups' = [groups EXCEPT ![b] = teams]
  /\ UNCHANGED <<tableVars, drawVars, offset, page, seedVars, fails, histVars>>

(* Mutant of CacheGroups: SET instead of SETEX. *)
CacheForever(b) ==
  /\ Step(b, "cacheGroups", "fetch")
  /\ cache' = groups[b] /\ expires' = FALSE
  /\ StartPaging(b)
  /\ UNCHANGED <<tableVars, teams, groups, offset, page, seedVars, fails>>

CacheGroups(b) ==
  /\ Step(b, "cacheGroups", "fetch")
  /\ cache' = groups[b] /\ expires' = TRUE
  /\ StartPaging(b)
  /\ UNCHANGED <<tableVars, teams, groups, offset, page, seedVars, fails>>

(* ORDER BY created_at, and nothing else: where each visible row comes.      *)
Orders ==
  {at \in [visible -> 0 .. (Cardinality(visible) - 1)] :
     \A p, q \in visible : /\ at[p] = at[q] => p = q
                           /\ createdAt[p] < createdAt[q] => at[p] < at[q]}

(* Mutants of Slice: newest first; only what has no row yet. *)
SliceNewestFirst(b, at) ==
  {p \in visible : LET place == Cardinality(visible) - 1 - at[p]
                   IN  offset[b] <= place /\ place < offset[b] + BatchSize}
SliceUnscored(b, at) ==
  LET unscored == {p \in visible : \A c \in Batches : rows[c][p] = 0}
      place(p) == Cardinality({q \in unscored : at[q] < at[p]})
  IN  {p \in unscored : offset[b] <= place(p) /\ place(p) < offset[b] + BatchSize}

(* find with skip and take. *)
Slice(b, at) == {p \in visible : offset[b] <= at[p] /\ at[p] < offset[b] + BatchSize}

(* Mutant of End: the groups outlive the request. *)
EndPageOnly(b) ==
  /\ offset' = [offset EXCEPT ![b] = 0]
  /\ page' = [page EXCEPT ![b] = {}]
  /\ UNCHANGED groups

(* The request is over: what it held in memory is gone. *)
End(b) ==
  /\ groups' = [groups EXCEPT ![b] = NoDraw]
  /\ offset' = [offset EXCEPT ![b] = 0]
  /\ page' = [page EXCEPT ![b] = {}]

(* One page is read and scored; one payload that throws ends the request,    *)
(* and the page with it.  Scoring writes nothing, and the lookup of Iran's   *)
(* row that precedes each score is left out.                                 *)
FetchPage(b) ==
  /\ pc[b] = "fetch"
  /\ \E at \in Orders :
       LET slice == Slice(b, at)
       IN  \/ Step(b, "fetch", "done") /\ slice = {} /\ End(b)
           \/ Step(b, "fetch", "failed") /\ slice \cap Malformed # {} /\ End(b)
           \/ /\ Step(b, "fetch", "save")
              /\ slice # {} /\ slice \cap Malformed = {}
              /\ page' = [page EXCEPT ![b] = slice]
              /\ UNCHANGED <<groups, offset>>
  /\ UNCHANGED <<tableVars, drawVars, seedVars, fails, histVars>>

(* Mutant of NextOffset: the page's own first row is left out of the count. *)
NextOffsetShort(b) == offset[b] + BatchSize - 1

NextOffset(b) == offset[b] + BatchSize

(* save of an array is one transaction: the page's rows, or none. *)
SavePage(b) ==
  /\ Step(b, "save", "fetch")
  /\ rows' = [rows EXCEPT ![b] = [p \in Predictions |-> IF p \in page[b] THEN @[p] + 1 ELSE @[p]]]
  /\ offset' = [offset EXCEPT ![b] = NextOffset(b)]
  /\ page' = [page EXCEPT ![b] = {}]
  /\ UNCHANGED <<createdAt, visible, drawVars, groups, seedVars, fails, histVars>>

RunBatch(b) ==
  \/ ReadCache(b) \/ FindTeams(b) \/ CacheGroups(b)
  \/ FetchPage(b) \/ SavePage(b)

(* A query or Redis call rejects, or the API process ends. *)
FailBatch(b) ==
  /\ fails > 0 /\ fails' = fails - 1
  /\ pc[b] \notin {"new", "done", "failed"}
  /\ pc' = [pc EXCEPT ![b] = "failed"]
  /\ End(b)
  /\ UNCHANGED <<tableVars, drawVars, seedVars, histVars>>

-----------------------------------------------------------------------------
(* The seed script, and Redis.                                              *)

ClearTeams ==
  /\ seeding = "idle" /\ seeds < SeedBudget
  /\ seeding' = "cleared" /\ seeds' = seeds + 1
  /\ teams' = NoTeams
  /\ UNCHANGED <<tableVars, cache, expires, batchVars, fails, histVars>>

(* The teams of teams.seed.ts under the ids of this run. *)
SeededDraw == seeds

SaveTeams ==
  /\ seeding = "cleared"
  /\ seeding' = "idle"
  /\ teams' = SeededDraw
  /\ UNCHANGED <<tableVars, cache, expires, batchVars, seeds, fails, histVars>>

(* The script ends between its two statements: the table stays empty. *)
FailSeed ==
  /\ fails > 0 /\ fails' = fails - 1
  /\ seeding = "cleared" /\ seeding' = "idle"
  /\ UNCHANGED <<tableVars, drawVars, batchVars, seeds, histVars>>

ExpireKey ==
  /\ cache # NoDraw /\ expires
  /\ cache' = NoDraw /\ expires' = FALSE
  /\ UNCHANGED <<tableVars, teams, batchVars, seedVars, fails, histVars>>

Next ==
  \/ \E p \in Predictions : BeginInsert(p) \/ CommitInsert(p)
  \/ \E b \in Batches : RunBatch(b) \/ FailBatch(b)
  \/ ClearTeams \/ SaveTeams \/ FailSeed \/ ExpireKey

(* A key's time runs out; no request need go on. *)
Fairness == WF_vars(ExpireKey)

Spec == Init /\ [][Next]_vars

FairSpec == Spec /\ Fairness

-----------------------------------------------------------------------------
(* Properties.                                                              *)

(* The visible rows created when p was, itself among them: the query may put *)
(* them in another order for each page, and so skip one and repeat another.  *)
Tied(p)  == {q \in visible : createdAt[q] = createdAt[p]}
Alone(p) == Tied(p) = {p}

(* The visible rows of S created before p. *)
Below(S, p) == {q \in S : createdAt[q] < createdAt[p]}

(* Offset paging over a growing table leaves nothing out but by a tie: a     *)
(* batch that ends well has scored every prediction that could be read when  *)
(* it began and shares its created_at with no other (prediction.service.ts:184). *)
BatchCoversAll ==
  \A b \in Batches : pc[b] = "done" => \A p \in began[b] : Alone(p) => rows[b][p] > 0

(* However a batch ends, what it has scored goes from the oldest prediction  *)
(* on, without a gap but for ties: a malformed payload costs only those from *)
(* its page on.                                                             *)
PagesInOrder ==
  \A b \in Batches, p, q \in Predictions :
    p \in began[b] /\ Alone(p) /\ createdAt[p] < createdAt[q] /\ rows[b][q] > 0 => rows[b][p] > 0

(* One batch stores a prediction again only when a row with an earlier       *)
(* created_at was committed while the batch ran and pushed it into a later   *)
(* page, once per such row at most, or when a row tied with it took its      *)
(* place and left it its own, once per such row at most.                     *)
RepeatNeedsLateCommitOrTie ==
  \A b \in Batches, p \in Predictions :
    rows[b][p] <= Cardinality(Tied(p)) + Cardinality(Below(arrived[b], p))

(* A draw the table no longer holds, the empty one included, does not stay   *)
(* in Redis: from some moment on the cache is empty or what the table holds. *)
StaleDrawFades == <>[](cache \in {NoDraw, teams})

-----------------------------------------------------------------------------
(* The strengthening under which the safety properties are inductive.       *)

Paging(b) == pc[b] \in {"fetch", "save"}

(* How many visible rows are older than p. *)
Rank(p) == Cardinality(Below(visible, p))

(* What a batch has read, stored or been told of is visible. *)
ReadsVisible(b) ==
  /\ began[b] \subseteq visible /\ arrived[b] \subseteq visible /\ page[b] \subseteq visible
  /\ \A p \in Predictions : rows[b][p] > 0 => p \in visible
  /\ Paging(b) => visible \subseteq began[b] \cup arrived[b]
  /\ pc[b] # "save" => page[b] = {}
  /\ pc[b] \in {"new", "find", "cacheGroups"} =>
       offset[b] = 0 /\ arrived[b] = {} /\ \A p \in Predictions : rows[b][p] = 0

(* Ranks only grow, and a row that is alone comes where its rank says:      *)
(* if that is before the offset it is stored, and if it is on the page read *)
(* it will be when the page is saved.                                       *)
NothingSkipped(b) ==
  /\ Paging(b) => \A p \in began[b] : Alone(p) /\ Rank(p) < offset[b] => rows[b][p] > 0
  /\ pc[b] = "save" =>
       /\ \A p \in began[b] :
            Alone(p) /\ Rank(p) < offset[b] + BatchSize => rows[b][p] > 0 \/ p \in page[b]
       /\ \A q \in page[b], p \in began[b] :
            Alone(p) /\ createdAt[p] < createdAt[q] => rows[b][p] > 0 \/ p \in page[b]
  /\ pc[b] = "done" => \A p \in began[b] : Alone(p) => rows[b][p] > 0
  /\ \A p \in began[b], q \in Predictions :
       Alone(p) /\ createdAt[p] < createdAt[q] /\ rows[b][q] > 0 => rows[b][p] > 0

(* Every further row needed the offset to grow while the prediction still    *)
(* came after it, pushed on by older rows or by rows tied with it.           *)
RepeatsPaidFor(b) ==
  /\ Paging(b) => \A p \in Predictions :
       rows[b][p] > 0 => Cardinality(Below(began[b], p)) + rows[b][p] - 1 < offset[b]
  /\ pc[b] = "save" => \A p \in page[b] :
       /\ Cardinality(Below(began[b], p)) < offset[b] + BatchSize
       /\ offset[b] < Cardinality(Below(began[b], p)) + Cardinality(Below(arrived[b], p))
                        + Cardinality(Tied(p))
  /\ \A p \in Predictions : rows[b][p] <= Cardinality(Tied(p)) + Cardinality(Below(arrived[b], p))

IndInv ==
  /\ TypeOK
  /\ \A b \in Batches : ReadsVisible(b) /\ NothingSkipped(b) /\ RepeatsPaidFor(b)
=============================================================================
