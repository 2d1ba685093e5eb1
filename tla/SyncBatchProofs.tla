---------------------------- MODULE SyncBatchProofs ----------------------------
(***************************************************************************)
(* Machine-checked proofs about SyncBatch, for every finite set of         *)
(* predictions, every set of batches, page size and budget.                *)
(***************************************************************************)
EXTENDS SyncBatch, FiniteSetTheorems, TLAPS

-----------------------------------------------------------------------------
(* Ranks.                                                                   *)

LEMMA BelowFacts ==
  ASSUME NEW S \in SUBSET Predictions, NEW p
  PROVE  /\ IsFiniteSet(S) /\ IsFiniteSet(Below(S, p))
         /\ Cardinality(Below(S, p)) \in Nat
  BY PredictionsAssumption, FS_Subset, FS_CardinalityType DEF Below

LEMMA BelowGrows ==
  ASSUME NEW S \in SUBSET Predictions, NEW T \in SUBSET S, NEW p
  PROVE  Cardinality(Below(T, p)) <= Cardinality(Below(S, p))
<1>1. IsFiniteSet(Below(S, p)) /\ Below(T, p) \subseteq Below(S, p)
  BY BelowFacts DEF Below
<1> QED BY <1>1, FS_Subset

LEMMA RankType ==
  ASSUME TypeOK, NEW p
  PROVE  visible \subseteq Predictions /\ Rank(p) = Cardinality(Below(visible, p)) /\ Rank(p) \in Nat
<1>1. visible \in SUBSET Predictions
  BY DEF TypeOK
<1>2. Rank(p) = Cardinality(Below(visible, p))
  BY DEF Rank, Below
<1> QED BY <1>1, <1>2, BelowFacts

LEMMA TiedFacts ==
  ASSUME TypeOK, NEW p
  PROVE  /\ Tied(p) \in SUBSET visible /\ IsFiniteSet(Tied(p)) /\ Cardinality(Tied(p)) \in Nat
         /\ p \in visible => p \in Tied(p) /\ Cardinality(Tied(p)) >= 1
<1>1. Tied(p) \in SUBSET visible /\ visible \in SUBSET Predictions /\ (p \in visible => p \in Tied(p))
  BY DEF Tied, TypeOK
<1>2. IsFiniteSet(Tied(p)) /\ Cardinality(Tied(p)) \in Nat
  BY <1>1, PredictionsAssumption, FS_Subset, FS_CardinalityType
<1>3. p \in visible => Cardinality(Tied(p)) # 0
  BY <1>1, <1>2, FS_EmptySet
<1> QED BY <1>1, <1>2, <1>3

-----------------------------------------------------------------------------
(* The order of a query.                                                    *)

(* Every place is taken, by one row. *)
LEMMA PlacesTaken ==
  ASSUME TypeOK, NEW at \in Orders
  PROVE  /\ IsFiniteSet(visible) /\ Cardinality(visible) \in Nat
         /\ \A p \in visible : at[p] \in Nat /\ at[p] < Cardinality(visible)
         /\ \A p, q \in visible : at[p] = at[q] => p = q
         /\ \A p, q \in visible : createdAt[p] < createdAt[q] => at[p] < at[q]
         /\ \A k \in 0 .. (Cardinality(visible) - 1) : \E p \in visible : at[p] = k
<1> DEFINE n == Cardinality(visible)
           Places == 0 .. (n - 1)
<1>1. IsFiniteSet(visible) /\ n \in Nat
  BY PredictionsAssumption, FS_Subset, FS_CardinalityType DEF TypeOK
<1>2. /\ at \in [visible -> Places]
      /\ \A p, q \in visible : at[p] = at[q] => p = q
      /\ \A p, q \in visible : createdAt[p] < createdAt[q] => at[p] < at[q]
  BY DEF Orders
<1> HIDE DEF n
<1>3. \A p \in visible : at[p] \in Nat /\ at[p] < n
  BY <1>1, <1>2
<1>4. at \in Injection(visible, Places)
  BY <1>2 DEF Injection, IsInjective
<1>5. IsFiniteSet(Places) /\ Cardinality(Places) = n
  BY <1>1, FS_Interval
<1>6. at \in Surjection(visible, Places)
  BY <1>4, <1>5, FS_Injection DEF n
<1>7. \A k \in Places : \E p \in visible : at[p] = k
  BY <1>6 DEF Surjection
<1> QED BY <1>1, <1>2, <1>3, <1>7 DEF n

(* The rows before place k are k in number. *)
LEMMA RowsBefore ==
  ASSUME TypeOK, NEW at \in Orders, NEW k \in 0 .. Cardinality(visible)
  PROVE  LET before == {q \in visible : at[q] < k}
         IN  IsFiniteSet(before) /\ Cardinality(before) = k
<1> DEFINE before == {q \in visible : at[q] < k}
           f == [q \in before |-> at[q]]
<1>1. k \in Nat /\ k <= Cardinality(visible) /\ Cardinality(visible) \in Nat /\ IsFiniteSet(before)
  BY PlacesTaken, FS_Subset
<1>2. \A q \in before : at[q] \in 0 .. (k - 1)
  BY <1>1, PlacesTaken
<1>3. \A p, q \in before : at[p] = at[q] => p = q
  BY PlacesTaken
<1>4. \A i \in 0 .. (k - 1) : \E q \in before : at[q] = i
  <2> TAKE i \in 0 .. (k - 1)
  <2>1. i \in 0 .. (Cardinality(visible) - 1) /\ i < k
    BY <1>1
  <2> QED BY <2>1, PlacesTaken
<1> HIDE DEF before
<1>5. f \in Bijection(before, 0 .. (k - 1))
  BY <1>2, <1>3, <1>4 DEF Bijection, Injection, Surjection, IsInjective
<1>6. Cardinality(before) = Cardinality(0 .. (k - 1))
  BY <1>1, <1>5, FS_Bijection DEF ExistsBijection
<1>7. Cardinality(0 .. (k - 1)) = k
  BY <1>1, FS_Interval
<1> QED BY <1>1, <1>6, <1>7 DEF before

(* A row comes after the older ones, and no later than those and the ones   *)
(* tied with it together allow.                                             *)
LEMMA PlaceAndRank ==
  ASSUME TypeOK, NEW at \in Orders, NEW p \in visible
  PROVE  /\ at[p] \in Nat /\ Rank(p) \in Nat /\ Cardinality(Tied(p)) \in Nat
         /\ Rank(p) <= at[p] /\ at[p] < Rank(p) + Cardinality(Tied(p))
<1> DEFINE before == {q \in visible : at[q] < at[p]}
           upTo   == {q \in visible : at[q] < at[p] + 1}
           older  == Below(visible, p)
<1>1. /\ at[p] \in Nat /\ at[p] < Cardinality(visible) /\ Cardinality(visible) \in Nat
      /\ \A q \in visible : at[q] \in Nat
  BY PlacesTaken
<1>2. /\ IsFiniteSet(older) /\ Rank(p) = Cardinality(older) /\ Rank(p) \in Nat
      /\ IsFiniteSet(Tied(p)) /\ Cardinality(Tied(p)) \in Nat
  BY RankType, BelowFacts, TiedFacts
<1>3. /\ IsFiniteSet(before) /\ Cardinality(before) = at[p]
      /\ IsFiniteSet(upTo) /\ Cardinality(upTo) = at[p] + 1
  <2>1. at[p] \in 0 .. Cardinality(visible) /\ at[p] + 1 \in 0 .. Cardinality(visible)
    BY <1>1
  <2> QED BY <2>1, RowsBefore
<1>4. older \in SUBSET before
  BY PlacesTaken DEF Below
<1>5. upTo \in SUBSET (older \cup Tied(p))
  <2> SUFFICES ASSUME NEW q \in upTo PROVE q \in older \cup Tied(p)
    OBVIOUS
  <2>1. q \in visible /\ ~(at[p] < at[q])
    BY <1>1
  <2>2. ~(createdAt[p] < createdAt[q])
    BY <2>1, PlacesTaken
  <2>3. createdAt[p] \in Nat /\ createdAt[q] \in Nat
    BY <2>1 DEF TypeOK
  <2> QED BY <2>1, <2>2, <2>3 DEF Below, Tied
<1> HIDE DEF before, upTo, older
<1>6. Rank(p) <= at[p]
  BY <1>2, <1>3, <1>4, FS_Subset
<1>7. /\ IsFiniteSet(older \cup Tied(p))
      /\ Cardinality(older \cup Tied(p)) <= Cardinality(older) + Cardinality(Tied(p))
  <2>1. IsFiniteSet(older \cap Tied(p)) /\ Cardinality(older \cap Tied(p)) \in Nat
    BY <1>2, FS_Intersection, FS_CardinalityType
  <2>2. /\ IsFiniteSet(older \cup Tied(p))
        /\ Cardinality(older \cup Tied(p)) =
             Cardinality(older) + Cardinality(Tied(p)) - Cardinality(older \cap Tied(p))
    BY <1>2, FS_Union
  <2>3. Cardinality(older) \in Nat /\ Cardinality(Tied(p)) \in Nat
    BY <1>2
  <2> QED BY <2>1, <2>2, <2>3
<1>8. at[p] + 1 <= Cardinality(older \cup Tied(p))
  BY <1>3, <1>5, <1>7, FS_Subset
<1>9. Cardinality(older \cup Tied(p)) \in Nat
  BY <1>7, FS_CardinalityType
<1> QED BY <1>1, <1>2, <1>6, <1>7, <1>8, <1>9

(* So a row that is alone has one place only. *)
LEMMA PlaceOfAlone ==
  ASSUME TypeOK, NEW at \in Orders, NEW p \in visible, Alone(p)
  PROVE  at[p] = Rank(p)
<1>1. Cardinality(Tied(p)) = 1
  BY FS_Singleton DEF Alone
<1> QED BY <1>1, PlaceAndRank

(* While a batch pages, a rank is what lay below at its start and what came. *)
LEMMA RankSplit ==
  ASSUME TypeOK, NEW b \in Batches, ReadsVisible(b), Paging(b), NEW p
  PROVE  /\ Cardinality(Below(began[b], p)) <= Rank(p)
         /\ Rank(p) <= Cardinality(Below(began[b], p)) + Cardinality(Below(arrived[b], p))
         /\ Cardinality(Below(began[b], p)) \in Nat /\ Cardinality(Below(arrived[b], p)) \in Nat
<1>1. /\ began[b] \in SUBSET visible /\ arrived[b] \in SUBSET visible /\ visible \in SUBSET Predictions
      /\ visible \subseteq began[b] \cup arrived[b]
  BY RankType DEF ReadsVisible
<1>2. Cardinality(Below(began[b], p)) <= Rank(p)
  BY <1>1, BelowGrows, RankType
<1>3. IsFiniteSet(Below(began[b], p)) /\ IsFiniteSet(Below(arrived[b], p))
      /\ Cardinality(Below(began[b], p)) \in Nat /\ Cardinality(Below(arrived[b], p)) \in Nat
  BY <1>1, BelowFacts
<1>4. Below(visible, p) \subseteq Below(began[b], p) \cup Below(arrived[b], p)
  BY <1>1 DEF Below
<1>5. /\ IsFiniteSet(Below(began[b], p) \cup Below(arrived[b], p))
      /\ Cardinality(Below(began[b], p) \cup Below(arrived[b], p)) =
           Cardinality(Below(began[b], p)) + Cardinality(Below(arrived[b], p))
             - Cardinality(Below(began[b], p) \cap Below(arrived[b], p))
      /\ Cardinality(Below(began[b], p) \cap Below(arrived[b], p)) \in Nat
  BY <1>3, FS_Union, FS_Intersection, FS_CardinalityType
<1>6. Cardinality(Below(visible, p)) <= Cardinality(Below(began[b], p) \cup Below(arrived[b], p))
  BY <1>4, <1>5, FS_Subset
<1> QED BY <1>2, <1>3, <1>5, <1>6, RankType

-----------------------------------------------------------------------------
(* Types.                                                                   *)

LEMMA SliceFits ==
  ASSUME TypeOK, NEW b \in Batches, NEW at \in Orders
  PROVE  Slice(b, at) \subseteq visible /\ Cardinality(Slice(b, at)) <= BatchSize
<1> DEFINE S == Slice(b, at)
           I == offset[b] .. offset[b] + BatchSize - 1
           f == [p \in S |-> at[p]]
<1>1. offset[b] \in Nat /\ BatchSize \in Nat /\ BatchSize > 0
  BY SizeAssumption DEF TypeOK
<1>2. S \subseteq visible /\ \A p \in S : at[p] \in I
  BY <1>1, PlacesTaken DEF Slice
<1>3. \A p, q \in S : at[p] = at[q] => p = q
  BY <1>2, PlacesTaken
<1> HIDE DEF S
<1>4. f \in Injection(S, I)
  BY <1>2, <1>3 DEF Injection, IsInjective
<1>5. IsFiniteSet(I) /\ Cardinality(I) = BatchSize
  <2> DEFINE last == offset[b] + BatchSize - 1
  <2>1. offset[b] \in Int /\ last \in Int /\ ~(offset[b] > last) /\ last - offset[b] + 1 = BatchSize
    BY <1>1
  <2> HIDE DEF last
  <2>2. IsFiniteSet(offset[b] .. last) /\ Cardinality(offset[b] .. last) = BatchSize
    BY <2>1, FS_Interval
  <2> QED BY <2>2 DEF last
<1>6. Cardinality(S) <= Cardinality(I)
  BY <1>4, <1>5, FS_Injection
<1> QED BY <1>2, <1>5, <1>6 DEF S

LEMMA BeginFacts ==
  ASSUME TypeOK, NEW p \in Predictions, BeginInsert(p)
  PROVE  /\ p \notin visible
         /\ createdAt' \in [Predictions -> Nat] /\ createdAt'[p] > 0
         /\ \A q \in Predictions \ {p} : createdAt'[q] = createdAt[q]
         /\ UNCHANGED <<visible, rows, drawVars, batchVars, seedVars, fails, histVars>>
<1>1. createdAt[p] = 0
  BY DEF BeginInsert
<1>2. PICK t \in 1 .. Cardinality(Predictions) : createdAt' = [createdAt EXCEPT ![p] = t]
  BY DEF BeginInsert
<1>3. t \in Nat /\ t > 0
  BY PredictionsAssumption, FS_CardinalityType
<1> QED BY <1>1, <1>2, <1>3 DEF BeginInsert, TypeOK

LEMMA InitTypeOK == Init => TypeOK
<1> SUFFICES ASSUME Init PROVE TypeOK
  OBVIOUS
<1>1. Cardinality({}) <= BatchSize
  BY FS_EmptySet, SizeAssumption
<1> QED BY <1>1, BudgetAssumption, NoDrawAssumption DEF Init, TypeOK, BatchPcs, NoTeams

LEMMA TypeInsert ==
  ASSUME TypeOK, NEW p \in Predictions, BeginInsert(p) \/ CommitInsert(p)
  PROVE  TypeOK'
<1>1. CASE BeginInsert(p)
  <2>1. visible \in SUBSET {q \in Predictions : createdAt'[q] > 0}
    BY <1>1, BeginFacts DEF TypeOK
  <2> QED BY <1>1, <2>1, BeginFacts DEF TypeOK, drawVars, batchVars, seedVars, histVars
<1>2. CASE CommitInsert(p)
  <2>1. /\ visible' \in SUBSET {q \in Predictions : createdAt'[q] > 0}
        /\ arrived' \in [Batches -> SUBSET Predictions]
    BY <1>2 DEF CommitInsert, TypeOK
  <2> QED BY <1>2, <2>1 DEF CommitInsert, TypeOK, drawVars, batchVars, seedVars
<1> QED BY <1>1, <1>2

LEMMA TypeStores ==
  ASSUME TypeOK, ClearTeams \/ SaveTeams \/ FailSeed \/ ExpireKey \/ UNCHANGED vars
  PROVE  TypeOK'
<1>1. UNCHANGED <<tableVars, batchVars, histVars>>
  BY DEF ClearTeams, SaveTeams, FailSeed, ExpireKey, vars
<1>2. /\ teams' \in Nat /\ cache' \in Nat \cup {NoDraw} /\ expires' \in BOOLEAN
      /\ seeding' \in {"idle", "cleared"} /\ seeds' \in Nat /\ fails' \in Nat
  <2>1. CASE ClearTeams \/ SaveTeams
    BY <2>1 DEF ClearTeams, SaveTeams, seedVars, TypeOK, NoTeams, SeededDraw
  <2>2. CASE FailSeed
    BY <2>2 DEF FailSeed, drawVars, TypeOK
  <2>3. CASE ExpireKey
    BY <2>3 DEF ExpireKey, seedVars, TypeOK
  <2>4. CASE UNCHANGED vars
    BY <2>4 DEF vars, drawVars, seedVars, TypeOK
  <2> QED BY <2>1, <2>2, <2>3, <2>4
<1> QED BY <1>1, <1>2 DEF TypeOK, tableVars, batchVars, histVars

(* The part of a step of batch b that no other batch sees. *)
LEMMA BatchAlone ==
  ASSUME TypeOK, NEW b \in Batches, RunBatch(b) \/ FailBatch(b)
  PROVE  /\ createdAt' = createdAt /\ visible' = visible
         /\ \A c \in Batches \ {b} :
              /\ pc'[c] = pc[c] /\ groups'[c] = groups[c] /\ offset'[c] = offset[c]
              /\ page'[c] = page[c] /\ rows'[c] = rows[c]
              /\ began'[c] = began[c] /\ arrived'[c] = arrived[c]
<1>1. CASE ReadCache(b) \/ FindTeams(b) \/ CacheGroups(b)
  BY <1>1 DEF ReadCache, FindTeams, CacheGroups, StartPaging, Step, TypeOK, tableVars, histVars
<1>2. CASE FetchPage(b) \/ FailBatch(b)
  BY <1>2 DEF FetchPage, FailBatch, End, Step, TypeOK, tableVars, histVars
<1>3. CASE SavePage(b)
  BY <1>3 DEF SavePage, Step, TypeOK, histVars
<1> QED BY <1>1, <1>2, <1>3 DEF RunBatch

LEMMA TypeBatch ==
  ASSUME TypeOK, NEW b \in Batches, RunBatch(b) \/ FailBatch(b)
  PROVE  TypeOK'
<1> DEFINE Held(c) == pc'[c] \in {"cacheGroups", "fetch", "save"} <=> groups'[c] # NoDraw
<1>1. \A c \in Batches \ {b} : Held(c) /\ Cardinality(page'[c]) <= BatchSize
  BY BatchAlone DEF TypeOK
<1>2. Cardinality({}) <= BatchSize
  BY FS_EmptySet, SizeAssumption
<1>3. CASE ReadCache(b)
  <2>1. /\ pc' \in [Batches -> BatchPcs] /\ groups' \in [Batches -> Nat \cup {NoDraw}] /\ Held(b)
        /\ began' \in [Batches -> SUBSET Predictions]
    BY <1>3 DEF ReadCache, StartPaging, Step, TypeOK, BatchPcs, histVars
  <2>2. UNCHANGED <<tableVars, drawVars, offset, page, seedVars, fails, arrived>>
    BY <1>3 DEF ReadCache, StartPaging, histVars
  <2> QED BY <1>1, <2>1, <2>2 DEF TypeOK, tableVars, drawVars, seedVars
<1>4. CASE FindTeams(b)
  <2>1. /\ pc' \in [Batches -> BatchPcs] /\ groups' \in [Batches -> Nat \cup {NoDraw}] /\ Held(b)
    BY <1>4, NoDrawAssumption DEF FindTeams, Step, TypeOK, BatchPcs
  <2>2. UNCHANGED <<tableVars, drawVars, offset, page, seedVars, fails, histVars>>
    BY <1>4 DEF FindTeams
  <2> QED BY <1>1, <2>1, <2>2 DEF TypeOK, tableVars, drawVars, seedVars, histVars
<1>5. CASE CacheGroups(b)
  <2>1. /\ pc' \in [Batches -> BatchPcs] /\ Held(b) /\ cache' \in Nat \cup {NoDraw} /\ expires' \in BOOLEAN
        /\ began' \in [Batches -> SUBSET Predictions]
    BY <1>5 DEF CacheGroups, StartPaging, Step, TypeOK, BatchPcs
  <2>2. UNCHANGED <<tableVars, teams, groups, offset, page, seedVars, fails, arrived>>
    BY <1>5 DEF CacheGroups, StartPaging
  <2> QED BY <1>1, <2>1, <2>2 DEF TypeOK, tableVars, seedVars
<1>6. CASE FetchPage(b)
  <2>1. PICK at \in Orders :
          \/ (Step(b, "fetch", "done") \/ Step(b, "fetch", "failed")) /\ End(b)
          \/ Step(b, "fetch", "save") /\ page' = [page EXCEPT ![b] = Slice(b, at)] /\ UNCHANGED <<groups, offset>>
    BY <1>6 DEF FetchPage
  <2>2. Slice(b, at) \in SUBSET Predictions /\ Cardinality(Slice(b, at)) <= BatchSize
    BY SliceFits, RankType
  <2>3. UNCHANGED <<tableVars, drawVars, seedVars, fails, histVars>>
    BY <1>6 DEF FetchPage
  <2>4. /\ pc' \in [Batches -> BatchPcs] /\ groups' \in [Batches -> Nat \cup {NoDraw}] /\ Held(b)
        /\ page' \in [Batches -> SUBSET Predictions] /\ page'[b] \in {{}, Slice(b, at)}
        /\ offset' \in [Batches -> Nat]
    <3>1. CASE Step(b, "fetch", "save") /\ page' = [page EXCEPT ![b] = Slice(b, at)] /\ UNCHANGED <<groups, offset>>
      BY <2>2, <3>1 DEF Step, TypeOK, BatchPcs
    <3>2. CASE (Step(b, "fetch", "done") \/ Step(b, "fetch", "failed")) /\ End(b)
      BY <3>2 DEF Step, End, TypeOK, BatchPcs
    <3> QED BY <2>1, <3>1, <3>2
  <2>5. \A c \in Batches : Held(c) /\ Cardinality(page'[c]) <= BatchSize
    BY <1>1, <1>2, <2>2, <2>4
  <2> QED BY <2>3, <2>4, <2>5 DEF TypeOK, tableVars, drawVars, seedVars, histVars
<1>7. CASE SavePage(b)
  <2>1. /\ pc' \in [Batches -> BatchPcs] /\ Held(b)
        /\ page' \in [Batches -> SUBSET Predictions] /\ page'[b] = {}
        /\ offset' \in [Batches -> Nat]
    BY <1>7, SizeAssumption DEF SavePage, NextOffset, Step, TypeOK, BatchPcs
  <2>2. rows' \in [Batches -> [Predictions -> Nat]]
    BY <1>7 DEF SavePage, TypeOK
  <2>3. UNCHANGED <<createdAt, visible, drawVars, groups, seedVars, fails, histVars>>
    BY <1>7 DEF SavePage
  <2> QED BY <1>1, <1>2, <2>1, <2>2, <2>3 DEF TypeOK, drawVars, seedVars, histVars
<1>8. CASE FailBatch(b)
  <2>1. /\ pc' \in [Batches -> BatchPcs] /\ groups' \in [Batches -> Nat \cup {NoDraw}] /\ Held(b)
        /\ page' \in [Batches -> SUBSET Predictions] /\ page'[b] = {} /\ fails' \in Nat
        /\ offset' \in [Batches -> Nat]
    BY <1>8 DEF FailBatch, End, TypeOK, BatchPcs
  <2>2. UNCHANGED <<tableVars, drawVars, seedVars, histVars>>
    BY <1>8 DEF FailBatch
  <2> QED BY <1>1, <1>2, <2>1, <2>2 DEF TypeOK, tableVars, drawVars, seedVars, histVars
<1> QED BY <1>3, <1>4, <1>5, <1>6, <1>7, <1>8 DEF RunBatch

LEMMA TypeStep ==
  ASSUME TypeOK, [Next]_vars
  PROVE  TypeOK'
  BY TypeInsert, TypeStores, TypeBatch DEF Next

-----------------------------------------------------------------------------
(* One batch.                                                               *)

BatchInv(b) == ReadsVisible(b) /\ NothingSkipped(b) /\ RepeatsPaidFor(b)

LEMMA BatchTypes ==
  ASSUME TypeOK, NEW b \in Batches
  PROVE  /\ offset[b] \in Nat /\ BatchSize \in Nat /\ BatchSize > 0
         /\ rows[b] \in [Predictions -> Nat] /\ \A p \in Predictions : rows[b][p] \in Nat
         /\ began[b] \in SUBSET Predictions /\ arrived[b] \in SUBSET Predictions
         /\ page[b] \in SUBSET Predictions /\ visible \in SUBSET Predictions
         /\ \A p \in Predictions : createdAt[p] \in Nat /\ (p \in visible => createdAt[p] > 0)
  BY SizeAssumption DEF TypeOK

(* A batch no step touches keeps what is true of it. *)
LEMMA BatchFrame ==
  ASSUME NEW b \in Batches, BatchInv(b), createdAt' = createdAt, visible' = visible,
         rows'[b] = rows[b], pc'[b] = pc[b], offset'[b] = offset[b], page'[b] = page[b],
         began'[b] = began[b], arrived'[b] = arrived[b]
  PROVE  BatchInv(b)'
<1>1. ReadsVisible(b)'
  BY DEF BatchInv, ReadsVisible, Paging
<1>2. NothingSkipped(b)'
  BY DEF BatchInv, NothingSkipped, Paging, Below, Rank, Tied, Alone
<1>3. RepeatsPaidFor(b)'
  BY DEF BatchInv, RepeatsPaidFor, Paging, Below, Tied
<1> QED BY <1>1, <1>2, <1>3 DEF BatchInv

(* A row that begins is not visible: nobody's ranks or ties change. *)
LEMMA BeginKeeps ==
  ASSUME TypeOK, NEW b \in Batches, BatchInv(b), NEW p \in Predictions, BeginInsert(p)
  PROVE  BatchInv(b)'
<1>1. /\ p \notin visible /\ visible' = visible /\ rows' = rows /\ pc' = pc /\ offset' = offset
      /\ page' = page /\ began' = began /\ arrived' = arrived
      /\ \A q \in Predictions \ {p} : createdAt'[q] = createdAt[q]
  BY BeginFacts DEF batchVars, histVars
<1>2. /\ visible \subseteq Predictions /\ began[b] \subseteq visible /\ arrived[b] \subseteq visible
      /\ page[b] \subseteq visible /\ \A q \in Predictions : rows[b][q] > 0 => q \in visible
  BY BatchTypes DEF BatchInv, ReadsVisible
<1>3. /\ \A q \in visible : createdAt'[q] = createdAt[q]
      /\ \A q \in visible : Rank(q)' = Rank(q) /\ Tied(q)' = Tied(q) /\ (Alone(q)' <=> Alone(q))
  <2>1. \A q \in visible : createdAt'[q] = createdAt[q]
    BY <1>1, <1>2
  <2>2. \A q \in visible : {r \in visible : createdAt'[r] < createdAt'[q]} = Below(visible, q)
    BY <2>1 DEF Below
  <2>3. \A q \in visible : {r \in visible : createdAt'[r] = createdAt'[q]} = Tied(q)
    BY <2>1 DEF Tied
  <2> QED BY <1>1, <2>1, <2>2, <2>3 DEF Rank, Below, Tied, Alone
<1>5. ReadsVisible(b)'
  BY <1>1 DEF BatchInv, ReadsVisible, Paging
<1>6. NothingSkipped(b)'
  BY <1>1, <1>2, <1>3 DEF BatchInv, NothingSkipped, Paging
<1>7. RepeatsPaidFor(b)'
  <2>1. \A q \in visible : /\ Below(began[b], q)' = Below(began[b], q)
                           /\ Below(arrived[b], q)' = Below(arrived[b], q)
    <3>1. \A q \in visible : /\ {r \in began[b] : createdAt'[r] < createdAt'[q]} = Below(began[b], q)
                             /\ {r \in arrived[b] : createdAt'[r] < createdAt'[q]} = Below(arrived[b], q)
      BY <1>2, <1>3 DEF Below
    <3> QED BY <1>1, <3>1 DEF Below
  <2>2. \A q \in Predictions :
          Cardinality(Below(arrived[b], q)') \in Nat /\ Cardinality(Tied(q)') \in Nat
    <3>1. \A q \in Predictions :
            Below(arrived[b], q)' \in SUBSET Predictions /\ Tied(q)' \in SUBSET Predictions
      BY <1>1, <1>2 DEF Below, Tied
    <3> QED BY <3>1, PredictionsAssumption, FS_Subset, FS_CardinalityType
  <2>3. \A q \in Predictions \ visible : rows[b][q] = 0
    BY <1>2, BatchTypes
  <2>4. Paging(b)' <=> Paging(b)
    BY <1>1 DEF Paging
  <2>5. Paging(b) => \A q \in Predictions :
          rows'[b][q] > 0 => Cardinality(Below(began[b], q)') + rows'[b][q] - 1 < offset'[b]
    BY <1>1, <1>2, <2>1 DEF BatchInv, RepeatsPaidFor
  <2>6. pc'[b] = "save" => \A q \in page'[b] :
          /\ Cardinality(Below(began[b], q)') < offset'[b] + BatchSize
          /\ offset'[b] < Cardinality(Below(began[b], q)') + Cardinality(Below(arrived[b], q)')
                           + Cardinality(Tied(q)')
    BY <1>1, <1>2, <1>3, <2>1 DEF BatchInv, RepeatsPaidFor
  <2>7. \A q \in Predictions :
          rows'[b][q] <= Cardinality(Tied(q)') + Cardinality(Below(arrived[b], q)')
    <3> SUFFICES ASSUME NEW q \in Predictions
                 PROVE  rows'[b][q] <= Cardinality(Tied(q)') + Cardinality(Below(arrived[b], q)')
      OBVIOUS
    <3>1. CASE q \in visible
      BY <1>1, <1>3, <2>1, <3>1 DEF BatchInv, RepeatsPaidFor
    <3>2. CASE q \notin visible
      BY <1>1, <2>2, <2>3, <3>2
    <3> QED BY <3>1, <3>2
  <2> QED BY <2>4, <2>5, <2>6, <2>7 DEF RepeatsPaidFor
<1> QED BY <1>5, <1>6, <1>7 DEF BatchInv

(* A commit moves ranks up, ties more rows, and is told to every batch that  *)
(* pages.                                                                   *)
LEMMA CommitKeeps ==
  ASSUME TypeOK, NEW b \in Batches, BatchInv(b), NEW p \in Predictions, CommitInsert(p)
  PROVE  BatchInv(b)'
<1>1. /\ p \notin visible /\ visible' = visible \cup {p} /\ createdAt' = createdAt /\ rows' = rows
      /\ pc' = pc /\ offset' = offset /\ page' = page /\ began' = began
      /\ arrived'[b] = IF Paging(b) THEN arrived[b] \cup {p} ELSE arrived[b]
  BY DEF CommitInsert, batchVars, Paging
<1>2. visible' \in SUBSET Predictions /\ arrived'[b] \in SUBSET Predictions
  BY <1>1, BatchTypes
<1>3. \A q \in Predictions : Rank(q) \in Nat /\ Rank(q)' \in Nat /\ Rank(q) <= Rank(q)'
  <2> SUFFICES ASSUME NEW q \in Predictions
               PROVE  Rank(q) \in Nat /\ Rank(q)' \in Nat /\ Rank(q) <= Rank(q)'
    OBVIOUS
  <2>1. Rank(q)' = Cardinality(Below(visible', q))
    BY <1>1 DEF Rank, Below
  <2>2. Cardinality(Below(visible, q)) <= Cardinality(Below(visible', q))
    BY <1>1, <1>2, BelowGrows
  <2> QED BY <1>2, <2>1, <2>2, BelowFacts, RankType
<1>4. \A q \in Predictions :
        /\ Below(began[b], q)' = Below(began[b], q)
        /\ Cardinality(Below(arrived[b], q)) \in Nat /\ Cardinality(Below(arrived[b], q)') \in Nat
        /\ Cardinality(Below(arrived[b], q)) <= Cardinality(Below(arrived[b], q)')
  <2> SUFFICES ASSUME NEW q \in Predictions
               PROVE  /\ Below(began[b], q)' = Below(began[b], q)
                      /\ Cardinality(Below(arrived[b], q)) \in Nat /\ Cardinality(Below(arrived[b], q)') \in Nat
                      /\ Cardinality(Below(arrived[b], q)) <= Cardinality(Below(arrived[b], q)')
    OBVIOUS
  <2>1. Below(began[b], q)' = Below(began[b], q) /\ Below(arrived[b], q)' = Below(arrived'[b], q)
    BY <1>1 DEF Below
  <2>2. arrived[b] \in SUBSET arrived'[b]
    BY <1>1
  <2>3. Cardinality(Below(arrived[b], q)) <= Cardinality(Below(arrived'[b], q))
    BY <1>2, <2>2, BelowGrows
  <2> QED BY <1>2, <2>1, <2>3, BatchTypes, BelowFacts
<1>5. /\ \A q \in visible : Alone(q)' => Alone(q)
      /\ \A q \in Predictions :
           /\ Cardinality(Tied(q)) \in Nat /\ Cardinality(Tied(q)') \in Nat
           /\ Cardinality(Tied(q)) <= Cardinality(Tied(q)')
  <2>1. \A q \in Predictions : Tied(q)' \in SUBSET Predictions /\ Tied(q) \in SUBSET Tied(q)'
    BY <1>1, <1>2 DEF Tied
  <2>2. \A q \in Predictions : IsFiniteSet(Tied(q)')
    BY <2>1, PredictionsAssumption, FS_Subset
  <2>3. \A q \in visible : Alone(q)' => Alone(q)
    <3>1. \A q \in visible : q \in Tied(q) /\ q \in Predictions
      BY BatchTypes DEF Tied
    <3> QED BY <2>1, <3>1 DEF Alone
  <2> QED BY <2>1, <2>2, <2>3, FS_Subset, FS_CardinalityType
<1>6. ReadsVisible(b)'
  BY <1>1 DEF BatchInv, ReadsVisible, Paging
<1>7. NothingSkipped(b)'
  <2>1. \A q \in began[b] : /\ q \in Predictions
                            /\ Rank(q)' < offset[b] => Rank(q) < offset[b]
                            /\ Rank(q)' < offset[b] + BatchSize => Rank(q) < offset[b] + BatchSize
    BY <1>3, BatchTypes
  <2>2. \A q \in began[b] : Alone(q)' => Alone(q)
    BY <1>5 DEF BatchInv, ReadsVisible
  <2> QED BY <1>1, <2>1, <2>2 DEF BatchInv, NothingSkipped, Paging
<1>8. RepeatsPaidFor(b)'
  <2>1. \A q \in Predictions : Cardinality(Below(began[b], q)) \in Nat
    BY BatchTypes, BelowFacts
  <2>2. Paging(b)' <=> Paging(b)
    BY <1>1 DEF Paging
  <2>3. Paging(b) => \A q \in Predictions :
          rows'[b][q] > 0 => Cardinality(Below(began[b], q)') + rows'[b][q] - 1 < offset'[b]
    BY <1>1, <1>4 DEF BatchInv, RepeatsPaidFor
  <2>4. pc'[b] = "save" => \A q \in page'[b] :
          /\ Cardinality(Below(began[b], q)') < offset'[b] + BatchSize
          /\ offset'[b] < Cardinality(Below(began[b], q)') + Cardinality(Below(arrived[b], q)')
                           + Cardinality(Tied(q)')
    <3> SUFFICES ASSUME pc[b] = "save", NEW q \in page[b]
                 PROVE  /\ Cardinality(Below(began[b], q)') < offset[b] + BatchSize
                        /\ offset[b] < Cardinality(Below(began[b], q)') + Cardinality(Below(arrived[b], q)')
                                        + Cardinality(Tied(q)')
      BY <1>1
    <3>1. q \in Predictions /\ offset[b] \in Nat
      BY BatchTypes
    <3>2. /\ Cardinality(Below(began[b], q)) < offset[b] + BatchSize
          /\ offset[b] < Cardinality(Below(began[b], q)) + Cardinality(Below(arrived[b], q))
                           + Cardinality(Tied(q))
      BY DEF BatchInv, RepeatsPaidFor
    <3> QED BY <1>4, <1>5, <2>1, <3>1, <3>2
  <2>5. \A q \in Predictions : rows'[b][q] <= Cardinality(Tied(q)') + Cardinality(Below(arrived[b], q)')
    <3> SUFFICES ASSUME NEW q \in Predictions
                 PROVE  rows'[b][q] <= Cardinality(Tied(q)') + Cardinality(Below(arrived[b], q)')
      OBVIOUS
    <3>1. rows'[b][q] = rows[b][q] /\ rows[b][q] \in Nat
          /\ rows[b][q] <= Cardinality(Tied(q)) + Cardinality(Below(arrived[b], q))
      BY <1>1, BatchTypes DEF BatchInv, RepeatsPaidFor
    <3> QED BY <1>4, <1>5, <3>1
  <2> QED BY <2>2, <2>3, <2>4, <2>5 DEF RepeatsPaidFor
<1> QED BY <1>6, <1>7, <1>8 DEF BatchInv

-----------------------------------------------------------------------------
(* The steps of a batch.                                                    *)

(* Before it pages: nothing is stored, and paging begins with what is there. *)
LEMMA StartKeeps ==
  ASSUME TypeOK, NEW b \in Batches, BatchInv(b), ReadCache(b) \/ FindTeams(b) \/ CacheGroups(b)
  PROVE  BatchInv(b)'
<1>1. /\ pc[b] \in {"new", "find", "cacheGroups"} /\ UNCHANGED <<tableVars, offset, page>>
      /\ arrived' = arrived
      /\ \/ pc'[b] \in {"find", "cacheGroups"} /\ began' = began
         \/ pc'[b] = "fetch" /\ began'[b] = visible
  BY DEF ReadCache, FindTeams, CacheGroups, StartPaging, Step, TypeOK, histVars
<1>2. /\ offset'[b] = 0 /\ arrived'[b] = {} /\ page'[b] = {} /\ visible' = visible
      /\ \A p \in Predictions : rows'[b][p] = 0
      /\ began'[b] \subseteq visible /\ (pc'[b] = "fetch" => began'[b] = visible)
  BY <1>1 DEF BatchInv, ReadsVisible, tableVars
<1>3. \A p \in Predictions : Rank(p)' \in Nat
  <2>1. \A p \in Predictions : Rank(p)' = Rank(p)
    BY <1>1 DEF Rank, Below, tableVars
  <2> QED BY <2>1, RankType
<1>4. pc'[b] \notin {"save", "done"}
  BY <1>1
<1>5. \A p \in Predictions : Below(arrived[b], p)' = {}
  BY <1>2 DEF Below
<1>6. Cardinality({}) = 0
  BY FS_EmptySet
<1>7. ReadsVisible(b)'
  BY <1>2, <1>4 DEF ReadsVisible, Paging
<1>8. NothingSkipped(b)'
  <2>1. \A p \in began'[b] : p \in Predictions /\ ~(Rank(p)' < offset'[b])
    BY <1>2, <1>3, BatchTypes
  <2>2. \A p \in Predictions : ~(rows'[b][p] > 0)
    BY <1>2
  <2> QED BY <1>4, <2>1, <2>2 DEF NothingSkipped, Paging
<1>9. RepeatsPaidFor(b)'
  <2>1. \A p \in Predictions : ~(rows'[b][p] > 0)
    BY <1>2
  <2>2. \A p \in Predictions : Cardinality(Tied(p)') \in Nat
    <3>1. \A p \in Predictions : Tied(p)' = Tied(p)
      BY <1>1 DEF Tied, tableVars
    <3> QED BY <3>1, TiedFacts
  <2>3. \A p \in Predictions : rows'[b][p] <= Cardinality(Tied(p)') + Cardinality(Below(arrived[b], p)')
    <3>1. \A p \in Predictions : Cardinality(Below(arrived[b], p)') = 0 /\ rows'[b][p] = 0
      BY <1>2, <1>5, <1>6
    <3> QED BY <2>2, <3>1
  <2> QED BY <1>4, <2>1, <2>3 DEF RepeatsPaidFor, Paging
<1> QED BY <1>7, <1>8, <1>9 DEF BatchInv

(* A page is read: an empty one ends the batch, and then no row comes at or  *)
(* after the offset.                                                        *)
LEMMA FetchKeeps ==
  ASSUME TypeOK, NEW b \in Batches, BatchInv(b), FetchPage(b)
  PROVE  BatchInv(b)'
<1>1. /\ pc[b] = "fetch" /\ Paging(b) /\ page[b] = {}
      /\ UNCHANGED <<createdAt, visible, rows, began, arrived>>
  BY DEF FetchPage, Paging, BatchInv, ReadsVisible, tableVars, histVars
<1>2. /\ \A p \in Predictions : Rank(p)' = Rank(p) /\ Rank(p) \in Nat
      /\ \A p \in Predictions : Tied(p)' = Tied(p) /\ (Alone(p)' <=> Alone(p))
      /\ \A p \in Predictions : /\ Below(began[b], p)' = Below(began[b], p)
                               /\ Below(arrived[b], p)' = Below(arrived[b], p)
  BY <1>1, RankType DEF Rank, Below, Tied, Alone
<1>3. /\ began[b] \subseteq visible /\ visible \subseteq Predictions
      /\ offset[b] \in Nat /\ BatchSize \in Nat /\ BatchSize > 0
  BY BatchTypes DEF BatchInv, ReadsVisible
<1>4. \A p \in began[b] : Alone(p) /\ Rank(p) < offset[b] => rows[b][p] > 0
  BY <1>1 DEF BatchInv, NothingSkipped
<1>5. PICK at \in Orders :
        \/ pc'[b] = "done" /\ Slice(b, at) = {} /\ End(b)
        \/ pc'[b] = "failed" /\ End(b)
        \/ /\ pc'[b] = "save" /\ page' = [page EXCEPT ![b] = Slice(b, at)]
           /\ UNCHANGED offset
  BY DEF FetchPage, Step, TypeOK
<1>6. \A p \in began[b] : Alone(p) => at[p] = Rank(p)
  BY <1>3, PlaceOfAlone
<1>7. CASE pc'[b] \in {"done", "failed"} /\ page'[b] = {} /\ (pc'[b] = "done" => Slice(b, at) = {})
  <2>1. ReadsVisible(b)'
    BY <1>1, <1>7 DEF BatchInv, ReadsVisible, Paging
  <2>2. pc'[b] = "done" => \A p \in began[b] : Alone(p) => rows[b][p] > 0
    <3> SUFFICES ASSUME pc'[b] = "done", NEW p \in began[b], Alone(p), ~(rows[b][p] > 0) PROVE FALSE
      OBVIOUS
    <3>1. offset[b] <= at[p] /\ at[p] < Cardinality(visible) /\ Cardinality(visible) \in Nat
          /\ at[p] \in Nat
      BY <1>2, <1>3, <1>4, <1>6, PlacesTaken
    <3>2. offset[b] \in 0 .. (Cardinality(visible) - 1)
      BY <1>3, <3>1
    <3>3. PICK q \in visible : at[q] = offset[b]
      BY <3>2, PlacesTaken
    <3>4. q \in Slice(b, at)
      BY <1>3, <3>3 DEF Slice
    <3> QED BY <1>7, <3>4
  <2>3. NothingSkipped(b)'
    <3>1. \A p \in began[b], q \in Predictions :
            Alone(p) /\ createdAt[p] < createdAt[q] /\ rows[b][q] > 0 => rows[b][p] > 0
      BY DEF BatchInv, NothingSkipped
    <3>2. \A p \in began[b] : Alone(p)' <=> Alone(p)
      BY <1>2, <1>3
    <3> QED BY <1>1, <1>7, <2>2, <3>1, <3>2 DEF NothingSkipped, Paging
  <2>4. RepeatsPaidFor(b)'
    <3>1. \A p \in Predictions : rows[b][p] <= Cardinality(Tied(p)) + Cardinality(Below(arrived[b], p))
      BY DEF BatchInv, RepeatsPaidFor
    <3> QED BY <1>1, <1>2, <1>7, <3>1 DEF RepeatsPaidFor, Paging
  <2> QED BY <2>1, <2>3, <2>4 DEF BatchInv
<1>8. CASE pc'[b] = "save" /\ page' = [page EXCEPT ![b] = Slice(b, at)] /\ UNCHANGED offset
  <2> DEFINE S == Slice(b, at)
  <2>1. \A p \in visible : p \in S <=> offset[b] <= at[p] /\ at[p] < offset[b] + BatchSize
    BY DEF Slice
  <2>2. S \subseteq visible /\ page'[b] = S
    BY <1>8 DEF Slice, TypeOK
  <2> HIDE DEF S
  <2>3. ReadsVisible(b)'
    BY <1>1, <1>8, <2>2 DEF BatchInv, ReadsVisible, Paging
  <2>4. \A p \in began[b] : Alone(p) /\ Rank(p) < offset[b] + BatchSize => rows[b][p] > 0 \/ p \in S
    BY <1>2, <1>3, <1>4, <1>6, <2>1
  <2>5. \A q \in S, p \in began[b] :
          Alone(p) /\ createdAt[p] < createdAt[q] => rows[b][p] > 0 \/ p \in S
    <3> SUFFICES ASSUME NEW q \in S, NEW p \in began[b], Alone(p), createdAt[p] < createdAt[q]
                 PROVE  rows[b][p] > 0 \/ p \in S
      OBVIOUS
    <3>1. p \in visible /\ q \in visible /\ p \in Predictions /\ q \in Predictions
      BY <1>3, <2>2
    <3>2. /\ at[p] < at[q] /\ at[q] < offset[b] + BatchSize
          /\ at[p] \in Nat /\ at[q] \in Nat /\ at[p] = Rank(p)
      BY <1>6, <2>1, <3>1, PlacesTaken
    <3>3. Rank(p) < offset[b] + BatchSize
      BY <1>3, <3>2
    <3> QED BY <2>4, <3>3
  <2>6. NothingSkipped(b)'
    <3>1. \A p \in began[b] : Rank(p)' = Rank(p) /\ (Alone(p)' <=> Alone(p))
      BY <1>2, <1>3
    <3>2. \A p \in began[b], q \in Predictions :
            Alone(p) /\ createdAt[p] < createdAt[q] /\ rows[b][q] > 0 => rows[b][p] > 0
      BY DEF BatchInv, NothingSkipped
    <3> QED BY <1>1, <1>4, <1>8, <2>2, <2>4, <2>5, <3>1, <3>2 DEF NothingSkipped
  <2>7. \A p \in S :
          /\ p \in Predictions
          /\ Cardinality(Below(began[b], p)) < offset[b] + BatchSize
          /\ offset[b] < Cardinality(Below(began[b], p)) + Cardinality(Below(arrived[b], p))
                           + Cardinality(Tied(p))
    <3> SUFFICES ASSUME NEW p \in S
                 PROVE  /\ p \in Predictions
                        /\ Cardinality(Below(began[b], p)) < offset[b] + BatchSize
                        /\ offset[b] < Cardinality(Below(began[b], p)) + Cardinality(Below(arrived[b], p))
                                         + Cardinality(Tied(p))
      OBVIOUS
    <3>1. p \in Predictions /\ p \in visible
      BY <1>3, <2>2
    <3>2. /\ Cardinality(Below(began[b], p)) <= Rank(p)
          /\ Rank(p) <= Cardinality(Below(began[b], p)) + Cardinality(Below(arrived[b], p))
          /\ Cardinality(Below(began[b], p)) \in Nat /\ Cardinality(Below(arrived[b], p)) \in Nat
      BY <1>1, RankSplit DEF BatchInv
    <3>3. /\ at[p] \in Nat /\ Rank(p) \in Nat /\ Cardinality(Tied(p)) \in Nat
          /\ Rank(p) <= at[p] /\ at[p] < Rank(p) + Cardinality(Tied(p))
      BY <3>1, PlaceAndRank
    <3>4. offset[b] <= at[p] /\ at[p] < offset[b] + BatchSize
      BY <2>1, <3>1
    <3> QED BY <1>3, <3>1, <3>2, <3>3, <3>4
  <2>8. RepeatsPaidFor(b)'
    <3>1. \A p \in Predictions : rows[b][p] <= Cardinality(Tied(p)) + Cardinality(Below(arrived[b], p))
      BY DEF BatchInv, RepeatsPaidFor
    <3>2. \A p \in Predictions : rows[b][p] > 0 => Cardinality(Below(began[b], p)) + rows[b][p] - 1 < offset[b]
      BY <1>1 DEF BatchInv, RepeatsPaidFor
    <3> QED BY <1>1, <1>2, <1>8, <2>2, <2>7, <3>1, <3>2 DEF RepeatsPaidFor
  <2> QED BY <2>3, <2>6, <2>8 DEF BatchInv
<1> QED
  <2>1. End(b) => page'[b] = {}
    BY DEF End, TypeOK
  <2> QED BY <1>5, <1>7, <1>8, <2>1

(* The page is stored: its rows, and the offset past it. *)
LEMMA SaveKeeps ==
  ASSUME TypeOK, NEW b \in Batches, BatchInv(b), SavePage(b)
  PROVE  BatchInv(b)'
<1>1. /\ pc[b] = "save" /\ pc'[b] = "fetch" /\ Paging(b)
      /\ UNCHANGED <<createdAt, visible, began, arrived>>
      /\ offset'[b] = offset[b] + BatchSize /\ page'[b] = {}
      /\ \A p \in Predictions : rows'[b][p] = IF p \in page[b] THEN rows[b][p] + 1 ELSE rows[b][p]
  BY DEF SavePage, NextOffset, Step, Paging, TypeOK, histVars
<1>2. /\ \A p \in Predictions : Rank(p)' = Rank(p) /\ Rank(p) \in Nat
      /\ \A p \in Predictions : Tied(p)' = Tied(p) /\ (Alone(p)' <=> Alone(p))
      /\ \A p \in Predictions : /\ Below(began[b], p)' = Below(began[b], p)
                               /\ Below(arrived[b], p)' = Below(arrived[b], p)
  BY <1>1, RankType DEF Rank, Below, Tied, Alone
<1>3. /\ began[b] \subseteq visible /\ visible \subseteq Predictions /\ page[b] \subseteq visible
      /\ offset[b] \in Nat /\ BatchSize \in Nat /\ BatchSize > 0
      /\ \A p \in Predictions : rows[b][p] \in Nat
  BY BatchTypes DEF BatchInv, ReadsVisible
<1>4. \A p \in Predictions : rows'[b][p] > 0 <=> rows[b][p] > 0 \/ p \in page[b]
  BY <1>1, <1>3
<1>5. ReadsVisible(b)'
  BY <1>1, <1>3, <1>4 DEF BatchInv, ReadsVisible, Paging
<1>6. NothingSkipped(b)'
  <2>1. \A p \in began[b] : p \in Predictions /\ Rank(p)' = Rank(p) /\ (Alone(p)' <=> Alone(p))
    BY <1>2, <1>3
  <2>2. \A p \in began[b] : Alone(p) /\ Rank(p) < offset[b] + BatchSize => rows'[b][p] > 0
    BY <1>1, <1>4, <2>1 DEF BatchInv, NothingSkipped
  <2>3. \A p \in began[b], q \in Predictions :
          Alone(p) /\ createdAt[p] < createdAt[q] /\ rows'[b][q] > 0 => rows'[b][p] > 0
    BY <1>1, <1>4, <2>1 DEF BatchInv, NothingSkipped
  <2> QED BY <1>1, <2>1, <2>2, <2>3 DEF NothingSkipped
<1>7. RepeatsPaidFor(b)'
  <2> DEFINE base(p) == Cardinality(Below(began[b], p))
             late(p) == Cardinality(Below(arrived[b], p))
             tied(p) == Cardinality(Tied(p))
  <2>1. /\ \A p \in Predictions : base(p) \in Nat /\ late(p) \in Nat /\ tied(p) \in Nat
        /\ \A p \in page[b] : tied(p) >= 1
    BY <1>3, BatchTypes, BelowFacts, TiedFacts
  <2>2. \A p \in Predictions : rows[b][p] > 0 => base(p) + rows[b][p] - 1 < offset[b]
    BY <1>1 DEF BatchInv, RepeatsPaidFor
  <2>3. \A p \in page[b] : base(p) < offset[b] + BatchSize /\ offset[b] < base(p) + late(p) + tied(p)
    BY <1>1 DEF BatchInv, RepeatsPaidFor
  <2>4. \A p \in Predictions : rows[b][p] <= tied(p) + late(p)
    BY DEF BatchInv, RepeatsPaidFor
  <2>5. \A p \in Predictions : /\ Cardinality(Below(began[b], p)') = base(p)
                              /\ Cardinality(Below(arrived[b], p)') = late(p)
                              /\ Cardinality(Tied(p)') = tied(p)
    BY <1>2
  <2> HIDE DEF base, late, tied
  <2>6. \A p \in Predictions : /\ rows'[b][p] > 0 => base(p) + rows'[b][p] - 1 < offset'[b]
                              /\ rows'[b][p] <= tied(p) + late(p)
    <3> SUFFICES ASSUME NEW p \in Predictions
                 PROVE  /\ rows'[b][p] > 0 => base(p) + rows'[b][p] - 1 < offset'[b]
                        /\ rows'[b][p] <= tied(p) + late(p)
      OBVIOUS
    <3>1. CASE p \in page[b]
      <4>1. /\ rows'[b][p] = rows[b][p] + 1 /\ rows[b][p] \in Nat
            /\ tied(p) >= 1
            /\ base(p) < offset[b] + BatchSize /\ offset[b] < base(p) + late(p) + tied(p)
        BY <1>1, <1>3, <2>1, <2>3, <3>1
      <4>2. CASE rows[b][p] = 0
        BY <1>1, <1>3, <2>1, <4>1, <4>2
      <4>3. CASE rows[b][p] > 0
        BY <1>1, <1>3, <2>1, <2>2, <4>1, <4>3
      <4> QED BY <4>1, <4>2, <4>3
    <3>2. CASE p \notin page[b]
      BY <1>1, <1>3, <2>1, <2>2, <2>4, <3>2
    <3> QED BY <3>1, <3>2
  <2> QED BY <1>1, <2>5, <2>6 DEF RepeatsPaidFor
<1> QED BY <1>5, <1>6, <1>7 DEF BatchInv

LEMMA FailKeeps ==
  ASSUME TypeOK, NEW b \in Batches, BatchInv(b), FailBatch(b)
  PROVE  BatchInv(b)'
<1>1. /\ pc'[b] = "failed" /\ page'[b] = {}
      /\ UNCHANGED <<createdAt, visible, rows, began, arrived>>
  BY DEF FailBatch, End, TypeOK, tableVars, histVars
<1>2. \A p \in Predictions : /\ Below(arrived[b], p)' = Below(arrived[b], p)
                            /\ Tied(p)' = Tied(p) /\ (Alone(p)' <=> Alone(p))
  BY <1>1 DEF Below, Tied, Alone
<1>3. ReadsVisible(b)'
  BY <1>1 DEF BatchInv, ReadsVisible, Paging
<1>4. NothingSkipped(b)'
  BY <1>1, <1>2, BatchTypes DEF BatchInv, NothingSkipped, Paging
<1>5. RepeatsPaidFor(b)'
  BY <1>1, <1>2 DEF BatchInv, RepeatsPaidFor, Paging
<1> QED BY <1>3, <1>4, <1>5 DEF BatchInv

-----------------------------------------------------------------------------
(* The inductive invariant.                                                 *)

LEMMA InitInv == Init => IndInv
<1> SUFFICES ASSUME Init PROVE IndInv
  OBVIOUS
<1>1. TypeOK
  BY InitTypeOK
<1>2. ASSUME NEW b \in Batches PROVE BatchInv(b)
  <2>1. /\ pc[b] = "new" /\ offset[b] = 0 /\ page[b] = {} /\ began[b] = {} /\ arrived[b] = {}
        /\ \A p \in Predictions : rows[b][p] = 0
    BY DEF Init
  <2>2. \A p \in Predictions : Below(arrived[b], p) = {}
    BY <2>1 DEF Below
  <2>3. \A p \in Predictions : rows[b][p] <= Cardinality(Tied(p)) + Cardinality(Below(arrived[b], p))
    <3>1. \A p \in Predictions : Tied(p) = {}
      BY DEF Init, Tied
    <3>2. \A p \in Predictions : Cardinality(Tied(p)) = 0 /\ Cardinality(Below(arrived[b], p)) = 0
      BY <2>2, <3>1, FS_EmptySet
    <3> QED BY <2>1, <3>2
  <2>4. ReadsVisible(b)
    BY <2>1 DEF ReadsVisible, Paging
  <2>5. NothingSkipped(b)
    BY <2>1 DEF NothingSkipped, Paging
  <2>6. RepeatsPaidFor(b)
    BY <2>1, <2>3 DEF RepeatsPaidFor, Paging
  <2> QED BY <2>4, <2>5, <2>6 DEF BatchInv
<1> QED BY <1>1, <1>2 DEF IndInv, BatchInv

LEMMA StepInv == IndInv /\ [Next]_vars => IndInv'
<1> SUFFICES ASSUME IndInv, [Next]_vars PROVE IndInv'
  OBVIOUS
<1>1. TypeOK /\ \A b \in Batches : BatchInv(b)
  BY DEF IndInv, BatchInv
<1>2. TypeOK'
  BY <1>1, TypeStep
<1>3. ASSUME NEW b \in Batches PROVE BatchInv(b)'
  <2>1. CASE \E p \in Predictions : BeginInsert(p) \/ CommitInsert(p)
    BY <1>1, <2>1, BeginKeeps, CommitKeeps
  <2>2. ASSUME NEW c \in Batches, RunBatch(c) \/ FailBatch(c) PROVE BatchInv(b)'
    <3>1. CASE c = b
      BY <1>1, <2>2, <3>1, StartKeeps, FetchKeeps, SaveKeeps, FailKeeps DEF RunBatch
    <3>2. CASE c # b
      <4>1. /\ createdAt' = createdAt /\ visible' = visible
            /\ pc'[b] = pc[b] /\ offset'[b] = offset[b] /\ page'[b] = page[b]
            /\ rows'[b] = rows[b] /\ began'[b] = began[b] /\ arrived'[b] = arrived[b]
        BY <1>1, <2>2, <3>2, BatchAlone
      <4> QED BY <1>1, <4>1, BatchFrame
    <3> QED BY <3>1, <3>2
  <2>3. CASE ClearTeams \/ SaveTeams \/ FailSeed \/ ExpireKey \/ UNCHANGED vars
    <3>1. UNCHANGED <<tableVars, batchVars, histVars>>
      BY <2>3 DEF ClearTeams, SaveTeams, FailSeed, ExpireKey, vars
    <3> QED BY <1>1, <3>1, BatchFrame DEF tableVars, batchVars, histVars
  <2> QED BY <2>1, <2>2, <2>3 DEF Next
<1> QED BY <1>2, <1>3 DEF IndInv, BatchInv

(* The strengthening holds in every reachable state of the synchronous mode  *)
(* of processPredictionBatch.                                                *)
THEOREM Invariance == Spec => []IndInv
<1> QED BY InitInv, StepInv, PTL DEF Spec

(* The state keeps its types; a batch holds the draw it scores with exactly  *)
(* while it is at work, and its page never outgrows prediction.batchSize.    *)
THEOREM TypeCorrect == Spec => []TypeOK
<1>1. IndInv => TypeOK
  BY DEF IndInv
<1> QED BY <1>1, Invariance, PTL

(* Paging by skip and take over a table users keep adding to leaves nothing  *)
(* out but by a tie: a batch that ends well has stored a result for every    *)
(* prediction that could be read when it began and has its created_at to     *)
(* itself, whatever order each query puts the tied rows in.                  *)
THEOREM BatchesCoverAll == Spec => []BatchCoversAll
<1>1. IndInv => BatchCoversAll
  BY DEF IndInv, NothingSkipped, BatchCoversAll
<1> QED BY <1>1, Invariance, PTL

(* A batch stores from the oldest prediction on, however it ends: of those   *)
(* with a created_at to themselves it leaves out none that is older than one *)
(* it has stored.                                                           *)
THEOREM PagesStayInOrder == Spec => []PagesInOrder
<1>1. IndInv => PagesInOrder
  BY DEF IndInv, NothingSkipped, PagesInOrder
<1> QED BY <1>1, Invariance, PTL

(* One batch repeats a prediction at most once for every older one committed *)
(* while it ran and once for every other row of the same created_at: without *)
(* either, its results have no duplicates.                                  *)
THEOREM RepeatsAreExplained == Spec => []RepeatNeedsLateCommitOrTie
<1>1. IndInv => RepeatNeedsLateCommitOrTie
  BY DEF IndInv, RepeatsPaidFor, RepeatNeedsLateCommitOrTie
<1> QED BY <1>1, Invariance, PTL
=============================================================================
