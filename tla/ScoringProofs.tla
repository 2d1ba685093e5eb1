----------------------------- MODULE ScoringProofs -----------------------------
(***************************************************************************)
(* Proofs about module Scoring, for every draw in groups of at most four   *)
(* and every payload.  A score is computed once, so what there is to prove *)
(* is about the operators: that the counts the code takes under the keys   *)
(* of a payload are the counts of teams the published table speaks of.     *)
(***************************************************************************)
EXTENDS Scoring, FiniteSetTheorems, WellFoundedInduction, TLAPS

(* Two finite sets matched one to one are of the same size, ... *)
LEMMA MatchedSets ==
  ASSUME NEW S, NEW T, IsFiniteSet(S), NEW f \in [S -> T],
         \A x, y \in S : f[x] = f[y] => x = y,
         \A y \in T : \E x \in S : f[x] = y
  PROVE  IsFiniteSet(T) /\ Cardinality(T) = Cardinality(S)
<1>1. f \in Bijection(S, T)
  BY DEF Bijection, Injection, Surjection, IsInjective
<1>2. ExistsBijection(S, T)
  BY <1>1 DEF ExistsBijection
<1> QED
  BY <1>2, FS_Bijection

(* ... two finite sets of one size can be matched, ... *)
Matchings(S, T) == {f \in [S -> T] : /\ \A x, y \in S : f[x] = f[y] => x = y
                                     /\ \A y \in T : \E x \in S : f[x] = y}

LEMMA MatchingExists ==
  ASSUME NEW S, NEW T, IsFiniteSet(S), IsFiniteSet(T), Cardinality(S) = Cardinality(T)
  PROVE  Matchings(S, T) # {}
<1>1. PICK f \in Bijection(S, T) : TRUE
  BY FS_SameCardinalityBij DEF ExistsBijection
<1>2. f \in Matchings(S, T)
  BY <1>1 DEF Matchings, Bijection, Injection, Surjection, IsInjective
<1> QED BY <1>2

(* ... and a one-to-one map into a set of the same size leaves nothing out. *)
LEMMA NothingLeftOut ==
  ASSUME NEW S, NEW T, IsFiniteSet(T), NEW f \in [S -> T],
         \A x, y \in S : f[x] = f[y] => x = y,
         Cardinality(S) = Cardinality(T)
  PROVE  \A y \in T : \E x \in S : f[x] = y
<1>1. f \in Injection(S, T)
  BY DEF Injection, IsInjective
<1>2. f \in Surjection(S, T)
  BY <1>1, FS_Injection
<1> QED
  BY <1>2 DEF Surjection

-----------------------------------------------------------------------------
(* Payloads and what is counted in them.                                    *)

(* There are finitely many keys, being the elements of a sequence. *)
LEMMA KeysFinite == IsFiniteSet(Keys)
<1> DEFINE n == Len(KeyOrder)
<1>1. n \in Nat /\ KeyOrder \in [1 .. n -> Keys]
  BY KeysAssumption
<1>2. KeyOrder \in Surjection(1 .. n, Keys)
  BY <1>1 DEF Surjection, Keys
<1>3. IsFiniteSet(1 .. n)
  BY <1>1, FS_Interval
<1> QED
  BY <1>2, <1>3, FS_Surjection

(* Under every key of a payload there is a value. *)
LEMMA PayloadShape ==
  ASSUME NEW p, IsPayload(p)
  PROVE  /\ DOMAIN p \subseteq Keys
         /\ \A k \in DOMAIN p : p[k] \in Values /\ p[k].items \subseteq Ids
<1>1. PICK ks \in SUBSET Keys : p \in [ks -> Values]
  BY DEF IsPayload
<1>2. DOMAIN p = ks /\ \A k \in ks : p[k] \in Values
  BY <1>1
<1>3. \A v \in Values : v.items \subseteq Ids
  BY DEF Values
<1> QED BY <1>2, <1>3

LEMMA ListedPair ==
  ASSUME NEW p, NEW kt \in Listed(p)
  PROVE  kt[1] \in DOMAIN p /\ kt[2] \in p[kt[1]].items /\ kt = <<kt[1], kt[2]>>
BY DEF Listed

LEMMA ListedFinite ==
  ASSUME NEW p, IsPayload(p)
  PROVE  IsFiniteSet(Listed(p)) /\ IsFiniteSet(PerfectKeys(p))
<1>1. IsFiniteSet(DOMAIN p)
  BY PayloadShape, KeysFinite, FS_Subset
<1>2. IsFiniteSet((DOMAIN p) \X Ids)
  BY <1>1, TeamsAssumption, FS_Product
<1>3. Listed(p) \in SUBSET ((DOMAIN p) \X Ids)
  BY DEF Listed
<1>4. PerfectKeys(p) \in SUBSET (DOMAIN p)
  BY DEF PerfectKeys
<1> QED
  BY <1>1, <1>2, <1>3, <1>4, FS_Subset

(* What is listed is misplaced or correct, and never both. *)
LEMMA ListedIsSplit ==
  ASSUME NEW p, IsPayload(p)
  PROVE  /\ Cardinality(Misplaced(p)) \in Nat
         /\ Cardinality(PlacedCorrectly(p)) \in Nat
         /\ Cardinality(Listed(p)) = Cardinality(Misplaced(p)) + Cardinality(PlacedCorrectly(p))
<1>1. IsFiniteSet(Listed(p))
  BY ListedFinite
<1>2. Misplaced(p) \in SUBSET Listed(p) /\ PlacedCorrectly(p) \in SUBSET Listed(p)
  BY DEF Misplaced, PlacedCorrectly
<1>3. IsFiniteSet(Misplaced(p)) /\ IsFiniteSet(PlacedCorrectly(p))
  BY <1>1, <1>2, FS_Subset
<1>4. Listed(p) = Misplaced(p) \cup PlacedCorrectly(p) /\ Misplaced(p) \cap PlacedCorrectly(p) = {}
  BY DEF Misplaced, PlacedCorrectly
<1>5. Cardinality(Misplaced(p)) \in Nat /\ Cardinality(PlacedCorrectly(p)) \in Nat
  BY <1>3, FS_CardinalityType
<1>6. Cardinality(Misplaced(p) \cap PlacedCorrectly(p)) = 0
  BY <1>4, FS_EmptySet
<1>7. Cardinality(Misplaced(p) \cup PlacedCorrectly(p)) =
        Cardinality(Misplaced(p)) + Cardinality(PlacedCorrectly(p))
          - Cardinality(Misplaced(p) \cap PlacedCorrectly(p))
  BY <1>3, FS_Union
<1> QED
  BY <1>4, <1>5, <1>6, <1>7

(* Some element of a set of naturals is the least. *)
LEMMA LeastIndex ==
  ASSUME NEW T \in SUBSET Nat, T # {}
  PROVE  \E i \in T : \A j \in T : i <= j
<1>1. \E i \in T : \A j \in T : ~(<<j, i>> \in OpToRel(<, Nat))
  BY NatLessThanWellFounded, WFMin
<1>2. PICK i \in T : \A j \in T : ~(j < i)
  BY <1>1, Zenon DEF OpToRel
<1> QED BY <1>2

(* findGroupWithTeam answers a key that lists the team, or null if none does. *)
LEMMA FindsAGroup ==
  ASSUME NEW g, DOMAIN g \subseteq Keys, NEW team
  PROVE  LET k == FindGroupWithTeam(g, team)
         IN  /\ k # NoGroup <=> \E h \in DOMAIN g : team \in g[h]
             /\ k # NoGroup => k \in DOMAIN g /\ team \in g[k]
<1> DEFINE k     == FindGroupWithTeam(g, team)
           lists == {i \in 1 .. Len(KeyOrder) : KeyOrder[i] \in DOMAIN g /\ team \in g[KeyOrder[i]]}
           least == CHOOSE i \in lists : \A j \in lists : i <= j
<1>1. Len(KeyOrder) \in Nat /\ lists \in SUBSET Nat
  BY KeysAssumption
<1>2. lists # {} <=> \E h \in DOMAIN g : team \in g[h]
  BY DEF Keys
<1>3. k = IF lists = {} THEN NoGroup ELSE KeyOrder[least]
  BY DEF FindGroupWithTeam
<1>4. ASSUME lists # {}
      PROVE  least \in lists
  <2>1. \E i \in lists : \A j \in lists : i <= j
    BY <1>1, <1>4, LeastIndex
  <2> QED BY <2>1
<1>5. ASSUME lists # {}
      PROVE  k \in DOMAIN g /\ team \in g[k] /\ k \in Keys
  BY <1>3, <1>4, <1>5
<1>6. CASE lists = {}
  BY <1>2, <1>3, <1>6
<1>7. CASE lists # {}
  BY <1>2, <1>5, <1>7, KeysAssumption
<1> QED BY <1>6, <1>7

(* The key checkIranGroupCorrect accepts is a perfect one. *)
LEMMA IranGroupIsPerfect ==
  ASSUME NEW p, DOMAIN p \subseteq Keys, IranGroupCorrect(p)
  PROVE  PerfectKeys(p) # {}
<1> DEFINE k == FindGroupWithTeam(Names(p), Iran)
<1>1. k # NoGroup /\ p[k].items = CorrectTeams(k)
  BY DEF IranGroupCorrect, Names
<1>2. k \in DOMAIN p
  <2>1. DOMAIN Names(p) = DOMAIN p
    BY DEF Names
  <2> QED BY <1>1, <2>1, FindsAGroup
<1> QED
  BY <1>1, <1>2 DEF PerfectKeys

(* A row is what ResultOf makes of its payload, and a payload that can be *)
(* scored gets a row.                                                      *)
LEMMA RowOfScored ==
  ASSUME TypeOK, Scored
  PROVE  /\ IsPayload(payload) /\ Scorable(payload)
         /\ row.totalScore = Scores[ScoringRule(payload)]
         /\ row.details = LegacyDetails(payload, ScoringRule(payload))
<1>1. row = ResultOf(payload) /\ row # NotScored
  BY DEF TypeOK, Scored
<1>2. Scorable(payload)
  BY <1>1 DEF ResultOf
<1> QED
  BY <1>1, <1>2, PayloadsAssumption DEF TypeOK, ResultOf

(* The details and the total of a row agree, whatever the payload. *)
LEMMA DetailsAgree ==
  ASSUME TypeOK
  PROVE  DetailsAgreeWithTotal
<1> SUFFICES ASSUME Scored
             PROVE  LET listed == Cardinality(Listed(payload))
                    IN  /\ row.totalScore = 100 <=> row.details.correctTeams = listed
                        /\ row.totalScore \in {0, 20} => row.details.perfectGroups = 0
                        /\ row.totalScore \in {40, 50} => row.details.perfectGroups > 0
                        /\ row.totalScore = 80 => row.details.correctTeams = listed - 2
                        /\ row.totalScore = 60 => row.details.correctTeams = listed - 3
  BY DEF DetailsAgreeWithTotal
<1> DEFINE listed    == Cardinality(Listed(payload))
           misplaced == Cardinality(Misplaced(payload))
           correct   == Cardinality(PlacedCorrectly(payload))
           perfect   == Cardinality(PerfectKeys(payload))
           rule      == ScoringRule(payload)
<1>1. /\ IsPayload(payload) /\ Scorable(payload)
      /\ row.totalScore = Scores[rule]
      /\ row.details.correctTeams = correct /\ row.details.perfectGroups = perfect
  BY RowOfScored DEF LegacyDetails
<1>2. misplaced \in Nat /\ correct \in Nat /\ listed = misplaced + correct
  BY <1>1, ListedIsSplit
<1>3. perfect \in Nat /\ (perfect = 0 <=> PerfectKeys(payload) = {})
  BY <1>1, ListedFinite, FS_CardinalityType, FS_EmptySet
<1>4. IranGroupCorrect(payload) => PerfectKeys(payload) # {}
  BY <1>1, PayloadShape, IranGroupIsPerfect
<1>5. /\ Scores[rule] = 100 <=> misplaced = 0
      /\ Scores[rule] = 80 => misplaced = 2
      /\ Scores[rule] = 60 => misplaced = 3
      /\ Scores[rule] \in {0, 20} => PerfectKeys(payload) = {}
      /\ Scores[rule] \in {40, 50} => PerfectKeys(payload) # {}
  BY <1>4 DEF ScoringRule, Scores
<1> HIDE DEF listed, misplaced, correct, perfect, rule
<1>6. /\ row.totalScore = 100 <=> correct = listed
      /\ row.totalScore = 80 => correct = listed - 2
      /\ row.totalScore = 60 => correct = listed - 3
  BY <1>1, <1>2, <1>5
<1>7. /\ row.totalScore \in {0, 20} => perfect = 0
      /\ row.totalScore \in {40, 50} => perfect > 0
  BY <1>1, <1>3, <1>5
<1> QED
  BY <1>1, <1>6, <1>7 DEF listed

-----------------------------------------------------------------------------
(* What the code counts and what the table speaks of.                       *)

(* In the draw a team is in the one group DrawnGroup finds. *)
LEMMA DrawnOnce ==
  ASSUME NEW t \in Teams
  PROVE  /\ DrawnGroup(t) \in DOMAIN CorrectGroups
         /\ t \in CorrectGroups[DrawnGroup(t)]
         /\ \A k \in DOMAIN CorrectGroups : t \in CorrectGroups[k] => k = DrawnGroup(t)
<1>1. PICK g \in DOMAIN CorrectGroups :
        t \in CorrectGroups[g] /\ \A h \in DOMAIN CorrectGroups : t \in CorrectGroups[h] => h = g
  BY GroupsAssumption
<1>2. DrawnGroup(t) \in DOMAIN CorrectGroups /\ t \in CorrectGroups[DrawnGroup(t)]
  BY <1>1 DEF DrawnGroup
<1> QED BY <1>1, <1>2

(* A complete prediction lists as many ids, with their keys, as there are   *)
(* teams: its lists are as long as the drawn groups they are matched with.  *)
LEMMA ListedByTheTeams ==
  ASSUME NEW p, IsPayload(p), Complete(p)
  PROVE  IsFiniteSet(Listed(p)) /\ Cardinality(Listed(p)) = Cardinality(Teams)
<1>1. /\ DOMAIN p = DOMAIN CorrectGroups
      /\ \A k \in DOMAIN p : p[k].items \subseteq Ids /\ Cardinality(p[k].items) = Cardinality(CorrectGroups[k])
      /\ \A k \in DOMAIN p : CorrectGroups[k] \subseteq Teams
  BY PayloadShape, GroupsAssumption DEF Complete
<1>2. IsFiniteSet(Teams) /\ \A k \in DOMAIN p : IsFiniteSet(p[k].items) /\ IsFiniteSet(CorrectGroups[k])
  <2>1. IsFiniteSet(Teams)
    BY TeamsAssumption, FS_Subset
  <2> QED
    BY <1>1, <2>1, TeamsAssumption, FS_Subset
<1> DEFINE match == [k \in DOMAIN p |-> CHOOSE f \in Matchings(CorrectGroups[k], p[k].items) : TRUE]
           grp(t) == DrawnGroup(t)
           F == [t \in Teams |-> <<grp(t), match[grp(t)][t]>>]
<1>3. \A k \in DOMAIN p :
        /\ match[k] \in [CorrectGroups[k] -> p[k].items]
        /\ \A x, y \in CorrectGroups[k] : match[k][x] = match[k][y] => x = y
        /\ \A y \in p[k].items : \E x \in CorrectGroups[k] : match[k][x] = y
  <2>1. \A k \in DOMAIN p : Matchings(CorrectGroups[k], p[k].items) # {}
    BY <1>1, <1>2, MatchingExists
  <2>2. \A k \in DOMAIN p : match[k] \in Matchings(CorrectGroups[k], p[k].items)
    BY <2>1
  <2> HIDE DEF match
  <2> QED BY <2>2 DEF Matchings
<1>4. \A t \in Teams : grp(t) \in DOMAIN p /\ t \in CorrectGroups[grp(t)]
  BY <1>1, DrawnOnce
<1>5. \A k \in DOMAIN p : \A t \in CorrectGroups[k] : t \in Teams /\ grp(t) = k
  BY <1>1, DrawnOnce
<1> HIDE DEF grp, match
<1>6. \A t \in Teams : match[grp(t)][t] \in p[grp(t)].items
  BY <1>3, <1>4
<1>7. F \in [Teams -> Listed(p)]
  BY <1>1, <1>4, <1>6 DEF Listed
<1>8. \A x, y \in Teams : F[x] = F[y] => x = y
  BY <1>3, <1>4
<1>9. \A kt \in Listed(p) : \E t \in Teams : F[t] = kt
  <2> SUFFICES ASSUME NEW kt \in Listed(p)
               PROVE  \E t \in Teams : F[t] = kt
    OBVIOUS
  <2>1. kt[1] \in DOMAIN p /\ kt[2] \in p[kt[1]].items /\ kt = <<kt[1], kt[2]>>
    BY ListedPair
  <2>2. PICK t \in CorrectGroups[kt[1]] : match[kt[1]][t] = kt[2]
    BY <1>3, <2>1
  <2> QED BY <1>5, <2>1, <2>2
<1> HIDE DEF F
<1> QED
  BY <1>2, <1>7, <1>8, <1>9, MatchedSets

(* Hence a complete prediction lists teams only, and each under one key. *)
LEMMA CompleteIsAssignment ==
  ASSUME NEW p, IsPayload(p), Complete(p)
  PROVE  /\ \A t \in Teams : GroupOf(p, t) \in DOMAIN p /\ t \in p[GroupOf(p, t)].items
         /\ \A k \in DOMAIN p : \A i \in p[k].items : i \in Teams /\ GroupOf(p, i) = k
<1>1. \A t \in Teams : GroupOf(p, t) \in DOMAIN p /\ t \in p[GroupOf(p, t)].items
  BY DEF Complete, GroupOf
<1>2. \A k \in DOMAIN p : p[k].items \subseteq Ids
  BY PayloadShape DEF Complete
<1> DEFINE G == [t \in Teams |-> <<GroupOf(p, t), t>>]
<1>3. G \in [Teams -> Listed(p)]
  BY <1>1, TeamsAssumption DEF Listed
<1>4. \A x, y \in Teams : G[x] = G[y] => x = y
  OBVIOUS
<1> HIDE DEF G
<1>5. \A kt \in Listed(p) : \E t \in Teams : G[t] = kt
  BY <1>3, <1>4, ListedByTheTeams, NothingLeftOut
<1>6. ASSUME NEW k \in DOMAIN p, NEW i \in p[k].items
      PROVE  i \in Teams /\ GroupOf(p, i) = k
  <2>1. <<k, i>> \in Listed(p)
    BY <1>2 DEF Listed
  <2>2. PICK t \in Teams : G[t] = <<k, i>>
    BY <1>5, <2>1
  <2> QED BY <2>2 DEF G
<1> QED BY <1>1, <1>6

(* The code's misplaced teams are the table's wrong ones. *)
LEMMA MisplacedAreWrong ==
  ASSUME NEW p, IsPayload(p), Complete(p)
  PROVE  Cardinality(Misplaced(p)) = Cardinality(WrongTeams(p))
<1> DEFINE M == [t \in WrongTeams(p) |-> <<GroupOf(p, t), t>>]
<1>1. /\ DOMAIN p = DOMAIN CorrectGroups
      /\ \A k \in DOMAIN p : p[k].items \subseteq Ids
  BY PayloadShape DEF Complete
<1>2. IsFiniteSet(WrongTeams(p))
  <2>1. WrongTeams(p) \in SUBSET Ids
    BY TeamsAssumption DEF WrongTeams
  <2> QED BY <2>1, TeamsAssumption, FS_Subset
<1>3. M \in [WrongTeams(p) -> Misplaced(p)]
  <2> SUFFICES ASSUME NEW t \in WrongTeams(p)
               PROVE  <<GroupOf(p, t), t>> \in Misplaced(p)
    OBVIOUS
  <2>1. t \in Teams /\ GroupOf(p, t) # DrawnGroup(t)
    BY DEF WrongTeams
  <2>2. GroupOf(p, t) \in DOMAIN p /\ t \in p[GroupOf(p, t)].items
    BY <2>1, CompleteIsAssignment
  <2>3. t \notin CorrectTeams(GroupOf(p, t))
    BY <1>1, <2>1, <2>2, DrawnOnce DEF CorrectTeams
  <2> QED BY <2>1, <2>2, <2>3, TeamsAssumption DEF Misplaced, Listed
<1>4. \A x, y \in WrongTeams(p) : M[x] = M[y] => x = y
  OBVIOUS
<1>5. \A kt \in Misplaced(p) : \E t \in WrongTeams(p) : M[t] = kt
  <2> SUFFICES ASSUME NEW kt \in Misplaced(p)
               PROVE  \E t \in WrongTeams(p) : M[t] = kt
    OBVIOUS
  <2> DEFINE k == kt[1]
             i == kt[2]
  <2>1. k \in DOMAIN p /\ i \in p[k].items /\ kt = <<k, i>> /\ i \notin CorrectTeams(k)
    BY ListedPair DEF Misplaced
  <2> HIDE DEF k, i
  <2>2. i \in Teams /\ GroupOf(p, i) = k
    BY <2>1, CompleteIsAssignment
  <2>3. k # DrawnGroup(i)
    BY <1>1, <2>1, <2>2, DrawnOnce DEF CorrectTeams
  <2>4. i \in WrongTeams(p)
    BY <2>2, <2>3 DEF WrongTeams
  <2> QED BY <2>1, <2>2, <2>4
<1> HIDE DEF M
<1> QED
  BY <1>2, <1>3, <1>4, <1>5, MatchedSets

(* A team rightly placed under a key is one of both lists; all are right *)
(* exactly if the two lists are equal, being of one length.              *)
LEMMA RightTeamsUnderKey ==
  ASSUME NEW p, IsPayload(p), Complete(p), NEW k \in DOMAIN p
  PROVE  /\ CorrectTeams(k) = CorrectGroups[k]
         /\ RightTeams(p, k) = p[k].items \cap CorrectTeams(k)
         /\ IsFiniteSet(CorrectGroups[k])
         /\ Cardinality(RightTeams(p, k)) = Cardinality(CorrectGroups[k]) <=> p[k].items = CorrectTeams(k)
<1>1. /\ k \in DOMAIN CorrectGroups /\ CorrectTeams(k) = CorrectGroups[k]
      /\ p[k].items \subseteq Ids /\ CorrectGroups[k] \subseteq Teams
      /\ Cardinality(p[k].items) = Cardinality(CorrectGroups[k])
  BY PayloadShape, GroupsAssumption DEF Complete, CorrectTeams
<1>2. IsFiniteSet(p[k].items) /\ IsFiniteSet(CorrectGroups[k])
  BY <1>1, TeamsAssumption, FS_Subset
<1>3. RightTeams(p, k) = p[k].items \cap CorrectGroups[k]
  <2>1. ASSUME NEW t \in RightTeams(p, k)
        PROVE  t \in p[k].items \cap CorrectGroups[k]
    <3>1. t \in Teams /\ GroupOf(p, t) = k /\ DrawnGroup(t) = k
      BY DEF RightTeams, WrongTeams
    <3> QED BY <3>1, CompleteIsAssignment, DrawnOnce
  <2>2. ASSUME NEW t \in p[k].items \cap CorrectGroups[k]
        PROVE  t \in RightTeams(p, k)
    <3>1. t \in Teams /\ GroupOf(p, t) = k /\ DrawnGroup(t) = k
      BY <1>1, CompleteIsAssignment, DrawnOnce
    <3> QED BY <3>1 DEF RightTeams, WrongTeams
  <2> QED BY <2>1, <2>2
<1>4. ASSUME Cardinality(RightTeams(p, k)) = Cardinality(CorrectGroups[k])
      PROVE  p[k].items = CorrectGroups[k]
  <2>1. p[k].items \cap CorrectGroups[k] \in SUBSET p[k].items /\ p[k].items \cap CorrectGroups[k] \in SUBSET CorrectGroups[k]
    OBVIOUS
  <2>2. Cardinality(p[k].items \cap CorrectGroups[k]) = Cardinality(CorrectGroups[k])
    BY <1>3, <1>4
  <2>3. p[k].items = p[k].items \cap CorrectGroups[k]
    BY <1>1, <1>2, <2>1, <2>2, FS_Subset
  <2>4. CorrectGroups[k] = p[k].items \cap CorrectGroups[k]
    BY <1>2, <2>1, <2>2, FS_Subset
  <2> QED BY <2>3, <2>4
<1>5. ASSUME p[k].items = CorrectGroups[k]
      PROVE  Cardinality(RightTeams(p, k)) = Cardinality(CorrectGroups[k])
  <2>1. RightTeams(p, k) = CorrectGroups[k]
    BY <1>3, <1>5
  <2> QED BY <2>1
<1> QED BY <1>1, <1>2, <1>3, <1>4, <1>5

(* The conditions of the code are those of the table. *)
LEMMA CodeSeesTheTable ==
  ASSUME NEW p, IsPayload(p), Complete(p)
  PROVE  LET best(k) == Cardinality(RightTeams(p, k))
             full(k) == best(k) = Cardinality(CorrectGroups[k])
         IN  /\ IranGroupCorrect(p) <=> full(DrawnGroup(Iran))
             /\ PerfectKeys(p) # {} <=> \E k \in DOMAIN p : full(k)
             /\ ThreeCorrect(p) <=> \E k \in DOMAIN p : best(k) = 3
<1> DEFINE best(k) == Cardinality(RightTeams(p, k))
           full(k) == best(k) = Cardinality(CorrectGroups[k])
           g == DrawnGroup(Iran)
           u == FindGroupWithTeam(Names(p), Iran)
           c == FindGroupWithTeam(CorrectGroups, Iran)
<1>1. DOMAIN p = DOMAIN CorrectGroups /\ DOMAIN p \subseteq Keys
  BY GroupsAssumption DEF Complete
<1>2. \A k \in DOMAIN p :
        /\ full(k) <=> p[k].items = CorrectTeams(k)
        /\ RightTeams(p, k) = p[k].items \cap CorrectTeams(k)
        /\ CorrectTeams(k) = CorrectGroups[k]
  BY RightTeamsUnderKey
<1>3. g \in DOMAIN p /\ Iran \in CorrectGroups[g]
  BY <1>1, DrawnOnce, TeamsAssumption
<1>4. c = g
  BY <1>1, <1>3, FindsAGroup, DrawnOnce, TeamsAssumption
<1>5. u # NoGroup /\ u \in DOMAIN p /\ Iran \in p[u].items /\ u = GroupOf(p, Iran)
  <2>1. DOMAIN Names(p) = DOMAIN p /\ \A k \in DOMAIN p : Names(p)[k] = p[k].items
    <3>1. \A k \in DOMAIN p : p[k].names = p[k].items
      BY PayloadShape DEF Complete, Values
    <3> QED BY <3>1 DEF Names
  <2>2. \E h \in DOMAIN p : Iran \in Names(p)[h]
    BY <2>1, TeamsAssumption DEF Complete
  <2>3. u # NoGroup /\ u \in DOMAIN p /\ Iran \in p[u].items
    BY <1>1, <2>1, <2>2, FindsAGroup
  <2> QED BY <2>3, CompleteIsAssignment
<1>6. IranGroupCorrect(p) <=> u = g /\ p[u].items = CorrectTeams(u)
  BY <1>4, <1>5 DEF IranGroupCorrect, Names
<1>7. p[g].items = CorrectTeams(g) => u = g
  BY <1>2, <1>3, <1>5, CompleteIsAssignment
<1>8. IranGroupCorrect(p) <=> full(g)
  BY <1>2, <1>3, <1>6, <1>7
<1>9. PerfectKeys(p) # {} <=> \E k \in DOMAIN p : full(k)
  BY <1>2 DEF PerfectKeys
<1>10. ThreeCorrect(p) <=> \E k \in DOMAIN p : best(k) = 3
  BY <1>2 DEF ThreeCorrect
<1> QED BY <1>8, <1>9, <1>10

(* The score of a complete prediction is the best it earns in the table. *)
LEMMA ScoreIsTheTables ==
  ASSUME NEW p, IsPayload(p), Complete(p)
  PROVE  Scores[ScoringRule(p)] = TableScore(p)
<1> DEFINE wrong == Cardinality(WrongTeams(p))
           iran  == Cardinality(RightTeams(p, DrawnGroup(Iran)))
                      = Cardinality(CorrectGroups[DrawnGroup(Iran)])
           whole == \E k \in DOMAIN p : Cardinality(RightTeams(p, k)) = Cardinality(CorrectGroups[k])
           three == \E k \in DOMAIN p : Cardinality(RightTeams(p, k)) = 3
           score == Scores[ScoringRule(p)]
<1>1. /\ Cardinality(Misplaced(p)) = wrong
      /\ IranGroupCorrect(p) <=> iran
      /\ PerfectKeys(p) # {} <=> whole
      /\ ThreeCorrect(p) <=> three
  BY MisplacedAreWrong, CodeSeesTheTable
<1>2. Earned(p) = {0} \cup (IF wrong = 0 THEN {100} ELSE {})
                      \cup (IF wrong = 2 THEN {80} ELSE {})
                      \cup (IF wrong = 3 THEN {60} ELSE {})
                      \cup (IF iran THEN {50} ELSE {})
                      \cup (IF whole THEN {40} ELSE {})
                      \cup (IF three THEN {20} ELSE {})
  BY DEF Earned
<1>3. score = IF wrong = 0 THEN 100 ELSE IF wrong = 2 THEN 80 ELSE IF wrong = 3 THEN 60
              ELSE IF iran THEN 50 ELSE IF whole THEN 40 ELSE IF three THEN 20 ELSE 0
  BY <1>1 DEF ScoringRule, Scores
<1> HIDE DEF wrong, iran, whole, three, score
<1>4. score \in Earned(p) /\ \A r \in Earned(p) : r <= score
  BY <1>2, <1>3
<1>5. Earned(p) \subseteq Int
  BY <1>2
<1>6. \A s \in Earned(p) : (\A r \in Earned(p) : r <= s) => s = score
  BY <1>4, <1>5
<1> QED BY <1>4, <1>6 DEF TableScore, score

-----------------------------------------------------------------------------
(* Correcting a prediction.                                                 *)

LEMMA WrongFinite ==
  ASSUME NEW p
  PROVE  IsFiniteSet(WrongTeams(p)) /\ Cardinality(WrongTeams(p)) \in Nat
<1>1. WrongTeams(p) \in SUBSET Ids
  BY TeamsAssumption DEF WrongTeams
<1> QED BY <1>1, TeamsAssumption, FS_Subset, FS_CardinalityType

(* A single team cannot be wrong: the list it is in would be too long. *)
LEMMA NeverOneWrong ==
  ASSUME NEW p, IsPayload(p), Complete(p)
  PROVE  Cardinality(WrongTeams(p)) # 1
<1> SUFFICES ASSUME Cardinality(WrongTeams(p)) = 1
             PROVE  FALSE
  OBVIOUS
<1>1. PICK t : WrongTeams(p) = {t}
  BY WrongFinite, FS_Singleton
<1> DEFINE k == GroupOf(p, t)
<1>2. t \in Teams /\ k # DrawnGroup(t) /\ k \in DOMAIN p /\ t \in p[k].items
  BY <1>1, CompleteIsAssignment DEF WrongTeams
<1> HIDE DEF k
<1>3. k \in DOMAIN CorrectGroups /\ CorrectGroups[k] \subseteq Teams /\ t \notin CorrectGroups[k]
  BY <1>2, DrawnOnce, GroupsAssumption DEF Complete
<1>4. CorrectGroups[k] \in SUBSET p[k].items
  <2> SUFFICES ASSUME NEW i \in CorrectGroups[k]
               PROVE  i \in p[k].items
    OBVIOUS
  <2>1. i \in Teams /\ DrawnGroup(i) = k /\ i \notin WrongTeams(p)
    BY <1>1, <1>3, DrawnOnce
  <2>2. GroupOf(p, i) = k
    BY <2>1 DEF WrongTeams
  <2> QED BY <2>1, <2>2, CompleteIsAssignment
<1>5. IsFiniteSet(p[k].items) /\ Cardinality(p[k].items) = Cardinality(CorrectGroups[k])
  <2>1. p[k].items \in SUBSET Ids
    BY <1>2, PayloadShape DEF Complete
  <2> QED BY <1>2, <2>1, TeamsAssumption, FS_Subset DEF Complete
<1>6. p[k].items = CorrectGroups[k]
  BY <1>4, <1>5, FS_Subset
<1> QED BY <1>2, <1>3, <1>6

(* With fewer teams wrong, and none newly so, a complete prediction scores  *)
(* at least as much.  Groups of at most four matter: with five, a fourth    *)
(* right team in a group would end the 20 points for three of them.         *)
LEMMA FewerWrongNeverCosts ==
  ASSUME NEW p, IsPayload(p), Complete(p),
         NEW q, IsPayload(q), Complete(q),
         WrongTeams(q) \subseteq WrongTeams(p), WrongTeams(q) # WrongTeams(p)
  PROVE  Scores[ScoringRule(q)] >= Scores[ScoringRule(p)]
<1> DEFINE wp == Cardinality(WrongTeams(p))
           wq == Cardinality(WrongTeams(q))
           bp(k) == Cardinality(RightTeams(p, k))
           bq(k) == Cardinality(RightTeams(q, k))
           size(k) == Cardinality(CorrectGroups[k])
           g == DrawnGroup(Iran)
           fullP == \E k \in DOMAIN p : bp(k) = size(k)
           fullQ == \E k \in DOMAIN q : bq(k) = size(k)
           threeP == \E k \in DOMAIN p : bp(k) = 3
           threeQ == \E k \in DOMAIN q : bq(k) = 3
<1>1. wp \in Nat /\ wq \in Nat /\ wq < wp /\ wq # 1
  <2>1. WrongTeams(q) \in SUBSET WrongTeams(p) /\ IsFiniteSet(WrongTeams(p))
    BY WrongFinite
  <2>2. wq <= wp /\ wp # wq
    BY <2>1, FS_Subset
  <2> QED BY <2>2, WrongFinite, NeverOneWrong
<1>2. DOMAIN p = DOMAIN q /\ DOMAIN p = DOMAIN CorrectGroups
  BY DEF Complete
<1>3. ASSUME NEW k \in DOMAIN p
      PROVE  bp(k) \in Nat /\ bq(k) \in Nat /\ bp(k) <= bq(k) /\ bq(k) <= size(k) /\ size(k) \in 0 .. 4
  <2>1. RightTeams(p, k) \in SUBSET CorrectGroups[k] /\ RightTeams(q, k) \in SUBSET CorrectGroups[k]
    <3>1. CorrectTeams(k) = CorrectGroups[k] /\ RightTeams(p, k) = p[k].items \cap CorrectTeams(k)
      BY RightTeamsUnderKey
    <3>2. RightTeams(q, k) = q[k].items \cap CorrectTeams(k)
      BY <1>2, RightTeamsUnderKey
    <3> QED BY <3>1, <3>2
  <2>2. RightTeams(p, k) \in SUBSET RightTeams(q, k)
    BY DEF RightTeams, WrongTeams
  <2>3. IsFiniteSet(CorrectGroups[k])
    BY RightTeamsUnderKey
  <2>4. IsFiniteSet(RightTeams(p, k)) /\ IsFiniteSet(RightTeams(q, k))
    BY <2>1, <2>3, FS_Subset
  <2>5. bp(k) \in Nat /\ bq(k) \in Nat /\ size(k) \in Nat
    BY <2>3, <2>4, FS_CardinalityType
  <2>6. bp(k) <= bq(k) /\ bq(k) <= size(k)
    BY <2>1, <2>2, <2>3, <2>4, FS_Subset
  <2>7. size(k) <= 4
    BY <1>2, GroupSizeAssumption
  <2> QED BY <2>5, <2>6, <2>7
<1>4. g \in DOMAIN p
  BY <1>2, DrawnOnce, TeamsAssumption
<1>5. /\ Cardinality(Misplaced(p)) = wp /\ Cardinality(Misplaced(q)) = wq
      /\ IranGroupCorrect(p) <=> bp(g) = size(g)
      /\ IranGroupCorrect(q) <=> bq(g) = size(g)
      /\ PerfectKeys(p) # {} <=> fullP
      /\ PerfectKeys(q) # {} <=> fullQ
      /\ ThreeCorrect(p) <=> threeP
      /\ ThreeCorrect(q) <=> threeQ
  BY MisplacedAreWrong, CodeSeesTheTable
<1> HIDE DEF bp, bq, size, g, wp, wq
<1>6. bp(g) = size(g) => bq(g) = size(g)
  BY <1>3, <1>4
<1>7. fullP => fullQ
  BY <1>2, <1>3
<1>8. threeP => threeQ \/ fullQ
  <2> SUFFICES ASSUME NEW k \in DOMAIN p, bp(k) = 3
               PROVE  bq(k) = 3 \/ bq(k) = size(k)
    BY <1>2
  <2> QED BY <1>3
<1> HIDE DEF fullP, fullQ, threeP, threeQ
<1>9. /\ IranGroupCorrect(p) => IranGroupCorrect(q)
      /\ PerfectKeys(p) # {} => PerfectKeys(q) # {}
      /\ ThreeCorrect(p) => ThreeCorrect(q) \/ PerfectKeys(q) # {}
  BY <1>5, <1>6, <1>7, <1>8
<1> QED
  BY <1>1, <1>5, <1>9 DEF ScoringRule, Scores

(* Exchanging two teams of a complete prediction gives a complete one. *)
LEMMA SwappedIsComplete ==
  ASSUME NEW p, IsPayload(p), Complete(p), NEW a \in Teams, NEW b \in Teams
  PROVE  IsPayload(Swapped(p, a, b)) /\ Complete(Swapped(p, a, b))
<1> DEFINE swap(t) == IF t = a THEN b ELSE IF t = b THEN a ELSE t
           q == Swapped(p, a, b)
<1>1. /\ DOMAIN q = DOMAIN p
      /\ \A k \in DOMAIN p : q[k] = List({swap(t) : t \in p[k].items})
      /\ \A k \in DOMAIN p : q[k].items = {swap(t) : t \in p[k].items} /\ q[k].kind = "list"
  BY DEF Swapped, List
<1>2. \A t : swap(swap(t)) = t
  OBVIOUS
<1>3. a \in Ids /\ b \in Ids /\ \A t \in Teams : swap(t) \in Teams
  BY TeamsAssumption
<1>4. DOMAIN p \subseteq Keys /\ \A k \in DOMAIN p : p[k].items \subseteq Ids
  BY PayloadShape
<1>5. \A k \in DOMAIN p : q[k].items \in SUBSET Ids
  BY <1>1, <1>3, <1>4
<1>6. q = [k \in DOMAIN q |-> q[k]]
  BY DEF Swapped
<1>7. IsPayload(q)
  <2>1. \A S \in SUBSET Ids : List(S) \in Values
    BY DEF List, Values
  <2>2. \A k \in DOMAIN p : q[k] \in Values
    BY <1>1, <1>5, <2>1
  <2>3. q \in [DOMAIN p -> Values]
    BY <1>1, <1>6, <2>2
  <2> QED BY <1>4, <2>3 DEF IsPayload
<1>8. \A k \in DOMAIN p : Cardinality(q[k].items) = Cardinality(p[k].items)
  <2> SUFFICES ASSUME NEW k \in DOMAIN p
               PROVE  Cardinality(q[k].items) = Cardinality(p[k].items)
    OBVIOUS
  <2> DEFINE f == [t \in p[k].items |-> swap(t)]
  <2>1. f \in [p[k].items -> q[k].items] /\ \A y \in q[k].items : \E x \in p[k].items : f[x] = y
    BY <1>1
  <2>2. \A x, y \in p[k].items : f[x] = f[y] => x = y
    OBVIOUS
  <2>3. IsFiniteSet(p[k].items)
    BY <1>4, TeamsAssumption, FS_Subset
  <2> HIDE DEF f
  <2> QED BY <2>1, <2>2, <2>3, MatchedSets
<1>9. \A t \in Teams : \E k \in DOMAIN q : t \in q[k].items
  <2> SUFFICES ASSUME NEW t \in Teams
               PROVE  \E k \in DOMAIN q : t \in q[k].items
    OBVIOUS
  <2>1. PICK k \in DOMAIN p : swap(t) \in p[k].items
    BY <1>3 DEF Complete
  <2>2. swap(swap(t)) \in q[k].items
    BY <1>1, <2>1
  <2> QED BY <1>1, <1>2, <2>2
<1> QED
  BY <1>1, <1>7, <1>8, <1>9 DEF Complete

(* No list is null and none is an object, so a complete prediction is scored. *)
LEMMA CompleteIsScorable ==
  ASSUME NEW p, Complete(p)
  PROVE  Scorable(p)
BY DEF Complete, Scorable, NullBeforeIran

-----------------------------------------------------------------------------
(* The theorems.                                                            *)

LEMMA InitTypeOK == Init => TypeOK
BY DEF Init, TypeOK

LEMMA StepTypeOK == TypeOK /\ [Next]_vars => TypeOK'
<1> SUFFICES ASSUME TypeOK, [Next]_vars PROVE TypeOK'
  OBVIOUS
<1>1. CASE Score
  BY <1>1 DEF TypeOK, Score
<1>2. CASE UNCHANGED vars
  BY <1>2 DEF TypeOK, vars
<1> QED BY <1>1, <1>2 DEF Next

LEMMA TypeCorrect == Spec => []TypeOK
BY InitTypeOK, StepTypeOK, PTL DEF Spec

(* What a row's details say and what its total says never contradict each  *)
(* other, whatever lists, texts and nulls the payload holds: the mapper     *)
(* counts correct teams, the scorer misplaced ones, and together they are   *)
(* what is listed.                                                          *)
THEOREM DetailsFitTotals == Spec => []DetailsAgreeWithTotal
BY TypeCorrect, DetailsAgree, PTL

(* The code's chain of early returns over keys and lists computes the       *)
(* published table, for every complete prediction of every draw.            *)
THEOREM PublishedTable == Spec => []MatchesScoringTable
<1>1. TypeOK => MatchesScoringTable
  BY RowOfScored, ScoreIsTheTables DEF MatchesScoringTable
<1> QED
  BY <1>1, TypeCorrect, PTL

(* What the comment at ALL_CORRECT claims of every prediction is true of    *)
(* the complete ones: 100 points say that all teams are counted correct.    *)
THEOREM FullMarksOfComplete == Spec => [](Complete(payload) => FullMarksNeedAllTeams)
<1>1. TypeOK /\ Complete(payload) => FullMarksNeedAllTeams
  <2> SUFFICES ASSUME TypeOK, Complete(payload), Scored, row.totalScore = 100
               PROVE  row.details.correctTeams = Cardinality(Teams)
    BY DEF FullMarksNeedAllTeams
  <2>1. row.details.correctTeams = Cardinality(Listed(payload))
    BY DetailsAgree DEF DetailsAgreeWithTotal
  <2>2. Cardinality(Listed(payload)) = Cardinality(Teams)
    BY RowOfScored, ListedByTheTeams
  <2> QED BY <2>1, <2>2
<1> QED
  BY <1>1, TypeCorrect, PTL

(* Correcting a complete prediction by exchanging two teams never costs     *)
(* points: the counts 2 and 3 are compared by equality, but the case in     *)
(* between, one wrong team, cannot come up.                                 *)
THEOREM CorrectionsPay == Spec => []CorrectingNeverCosts
<1>1. ASSUME TypeOK, Scored, Complete(payload), NEW a \in Teams, NEW b \in Teams,
             WrongTeams(Swapped(payload, a, b)) \subseteq WrongTeams(payload),
             WrongTeams(Swapped(payload, a, b)) # WrongTeams(payload)
      PROVE  ResultOf(Swapped(payload, a, b)).totalScore >= row.totalScore
  <2> DEFINE q == Swapped(payload, a, b)
  <2>1. IsPayload(payload) /\ row.totalScore = Scores[ScoringRule(payload)]
    BY <1>1, RowOfScored
  <2>2. IsPayload(q) /\ Complete(q)
    BY <1>1, <2>1, SwappedIsComplete
  <2>3. ResultOf(q).totalScore = Scores[ScoringRule(q)]
    BY <2>2, CompleteIsScorable DEF ResultOf
  <2> HIDE DEF q
  <2> QED BY <1>1, <2>1, <2>2, <2>3, FewerWrongNeverCosts DEF q
<1>2. TypeOK => CorrectingNeverCosts
  BY <1>1 DEF CorrectingNeverCosts
<1> QED
  BY <1>2, TypeCorrect, PTL
=============================================================================
