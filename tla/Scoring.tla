------------------------------- MODULE Scoring --------------------------------
(***************************************************************************)
(* ScoringService.scoreUser, the helpers it calls, and the details the     *)
(* result row keeps of a score.  A payload maps each key of the submitted  *)
(* object to a JSON value, of which the code asks two things: what a Set   *)
(* made of it contains, and whether its .includes finds Iran.  Nothing     *)
(* checks a payload before it is stored, so a list may name ids of no team *)
(* and a value need not be a list: a text is iterated by character and     *)
(* includes its substrings, null makes an empty Set but has no .includes,  *)
(* and of any other value no Set can be made.  The keys come back from the *)
(* jsonb column in the database's own order.                               *)
(***************************************************************************)
EXTENDS Integers, FiniteSets, Sequences

CONSTANTS
  Ids,            (* what a Set may contain: ids, and characters of texts    *)
  Teams,          (* identities of the rows of table teams                   *)
  Iran,           (* the team found by engName = 'Iran'                      *)
  CorrectGroups,  (* getCorrectGroups: the teams of each drawn group         *)
  KeyOrder,       (* every key a payload may use, in jsonb order             *)
  NoGroup,        (* findGroupWithTeam's null                                *)
  NotScored,      (* no row: flattening or scoring threw                     *)
  Pending,        (* no row yet                                              *)
  Payloads        (* the payloads that may be scored                         *)

Keys == {KeyOrder[i] : i \in 1 .. Len(KeyOrder)}

ASSUME TeamsAssumption  == IsFiniteSet(Ids) /\ Teams \subseteq Ids /\ Iran \in Teams
ASSUME KeysAssumption   == KeyOrder \in Seq(Keys) /\ NoGroup \notin Keys

(* items: what new Set(value) contains; names: the ids value.includes finds. *)
List(S) == [kind |-> "list", items |-> S, names |-> S]

Values ==
  {v \in [kind : {"list", "text", "null", "object"}, items : SUBSET Ids, names : SUBSET Ids] :
     CASE v.kind = "list" -> v.names = v.items
       [] v.kind = "text" -> v.items \cap Teams = {}
       [] OTHER           -> v.items = {} /\ v.names = {}}

IsPayload(p) == \E ks \in SUBSET Keys : p \in [ks -> Values]

ASSUME PayloadsAssumption == \A p \in Payloads : IsPayload(p)

(* The draw: a row of table teams names one group, and the seed script       *)
(* gives each of its 48 teams one of 12 groups, four to a group.             *)
ASSUME GroupsAssumption ==
  /\ DOMAIN CorrectGroups \subseteq Keys
  /\ \A g \in DOMAIN CorrectGroups : CorrectGroups[g] \subseteq Teams
  /\ \A t \in Teams : \E g \in DOMAIN CorrectGroups :
       t \in CorrectGroups[g] /\ \A h \in DOMAIN CorrectGroups : t \in CorrectGroups[h] => h = g
ASSUME GroupSizeAssumption ==
  \A g \in DOMAIN CorrectGroups : Cardinality(CorrectGroups[g]) <= 4

VARIABLES payload, row    (* what is scored, and its row *)

vars == <<payload, row>>

Scores ==
  [ALL_CORRECT |-> 100, TWO_MISPLACED |-> 80, THREE_MISPLACED |-> 60,
   IRAN_GROUP_CORRECT |-> 50, PERFECT_GROUP |-> 40, THREE_CORRECT |-> 20, NO_MATCH |-> 0]

RuleType ==
  [ALL_CORRECT |-> 1, TWO_MISPLACED |-> 2, THREE_MISPLACED |-> 3,
   IRAN_GROUP_CORRECT |-> 4, PERFECT_GROUP |-> 5, THREE_CORRECT |-> 6, NO_MATCH |-> 0]

(* correctGroups.get(group) || [] *)
CorrectTeams(k) == IF k \in DOMAIN CorrectGroups THEN CorrectGroups[k] ELSE {}

(* What is found under a key, once per key. *)
Listed(user) == {kt \in (DOMAIN user) \X Ids : kt[2] \in user[kt[1]].items}

(* Teams listed under a key they do not belong to, once per key. *)
Misplaced(user) ==
  {kt \in Listed(user) : kt[2] \notin CorrectTeams(kt[1])}

(* Mutant of PlacedCorrectly: a team counts under any drawn group's key. *)
PlacedSomewhere(user) ==
  {kt \in Listed(user) : kt[1] \in DOMAIN CorrectGroups}

PlacedCorrectly(user) == {kt \in Listed(user) : kt[2] \in CorrectTeams(kt[1])}

PerfectKeys(user) == {k \in DOMAIN user : user[k].items = CorrectTeams(k)}

(* The first key, in entry order, that lists the team. *)
FindGroupWithTeam(groups, team) ==
  LET lists == {i \in 1 .. Len(KeyOrder) :
                  KeyOrder[i] \in DOMAIN groups /\ team \in groups[KeyOrder[i]]}
  IN  IF lists = {} THEN NoGroup
      ELSE KeyOrder[CHOOSE i \in lists : \A j \in lists : i <= j]

Names(user) == [k \in DOMAIN user |-> user[k].names]

IranGroupCorrect(user) ==
  LET k == FindGroupWithTeam(Names(user), Iran)
  IN  /\ k # NoGroup
      /\ k = FindGroupWithTeam(CorrectGroups, Iran)
      /\ user[k].items = CorrectTeams(k)

(* Mutant of ThreeCorrect: three listed teams are enough. *)
ThreeListed(user) == \E k \in DOMAIN user : Cardinality(user[k].items) = 3

ThreeCorrect(user) ==
  \E k \in DOMAIN user : Cardinality(user[k].items \cap CorrectTeams(k)) = 3

(* Mutant of ScoringRule: Iran's group is looked at before the counts. *)
ScoringRuleIranFirst(user) ==
  LET misplaced == Cardinality(Misplaced(user))
  IN  IF misplaced = 0 THEN "ALL_CORRECT"
      ELSE IF IranGroupCorrect(user) THEN "IRAN_GROUP_CORRECT"
      ELSE IF misplaced = 2 THEN "TWO_MISPLACED"
      ELSE IF misplaced = 3 THEN "THREE_MISPLACED"
      ELSE IF PerfectKeys(user) # {} THEN "PERFECT_GROUP"
      ELSE IF ThreeCorrect(user) THEN "THREE_CORRECT"
      ELSE "NO_MATCH"

(* scoreUser: the first rule that matches, in this order. *)
ScoringRule(user) ==
  LET misplaced == Cardinality(Misplaced(user))
  IN  IF misplaced = 0 THEN "ALL_CORRECT"
      ELSE IF misplaced = 2 THEN "TWO_MISPLACED"
      ELSE IF misplaced = 3 THEN "THREE_MISPLACED"
      ELSE IF IranGroupCorrect(user) THEN "IRAN_GROUP_CORRECT"
      ELSE IF PerfectKeys(user) # {} THEN "PERFECT_GROUP"
      ELSE IF ThreeCorrect(user) THEN "THREE_CORRECT"
      ELSE "NO_MATCH"

(* mapScoreResultToLegacyDetails: what the row stores beside the total. *)
LegacyDetails(user, rule) ==
  [correctGroups    |-> PerfectKeys(user),
   correctTeams     |-> Cardinality(PlacedCorrectly(user)),
   iranGroupCorrect |-> rule = "IRAN_GROUP_CORRECT",
   perfectGroups    |-> Cardinality(PerfectKeys(user)),
   type             |-> RuleType[rule]]

(* The search for Iran comes to a null, which has no .includes. *)
NullBeforeIran(user) ==
  \E i \in 1 .. Len(KeyOrder) :
    /\ KeyOrder[i] \in DOMAIN user
    /\ user[KeyOrder[i]].kind = "null"
    /\ \A j \in 1 .. (i - 1) : KeyOrder[j] \in DOMAIN user => Iran \notin Names(user)[KeyOrder[j]]

(* No call of new Set throws, nor the search for Iran if it is reached. *)
Scorable(user) ==
  /\ \A k \in DOMAIN user : user[k].kind # "object"
  /\ NullBeforeIran(user) => Cardinality(Misplaced(user)) \in {0, 2, 3}

(* The result row of a payload, or NotScored when scoring it throws. *)
ResultOf(user) ==
  IF Scorable(user)
  THEN LET rule == ScoringRule(user)
       IN  [totalScore |-> Scores[rule], details |-> LegacyDetails(user, rule)]
  ELSE NotScored

-----------------------------------------------------------------------------
Init ==
  /\ payload \in Payloads
  /\ row = Pending

Score ==
  /\ row = Pending
  /\ row' = ResultOf(payload)
  /\ UNCHANGED payload

Next == Score

Spec == Init /\ [][Next]_vars

Scored == row \notin {Pending, NotScored}

-----------------------------------------------------------------------------
(* The scoring table of README.md and docs/API.md, read off the assignment  *)
(* of teams to groups that a complete prediction is.                        *)

Complete(user) ==
  /\ DOMAIN user = DOMAIN CorrectGroups
  /\ \A k \in DOMAIN user : user[k].kind = "list"
  /\ \A t \in Teams : \E k \in DOMAIN user : t \in user[k].items
  /\ \A k \in DOMAIN user : Cardinality(user[k].items) = Cardinality(CorrectGroups[k])

GroupOf(user, t) == CHOOSE k \in DOMAIN user : t \in user[k].items

DrawnGroup(t) == CHOOSE k \in DOMAIN CorrectGroups : t \in CorrectGroups[k]

WrongTeams(user) == {t \in Teams : GroupOf(user, t) # DrawnGroup(t)}

RightTeams(user, k) == {t \in Teams \ WrongTeams(user) : GroupOf(user, t) = k}

Earned(user) ==
  LET wrong   == Cardinality(WrongTeams(user))
      best(k) == Cardinality(RightTeams(user, k))
      full(k) == best(k) = Cardinality(CorrectGroups[k])
  IN  {0} \cup (IF wrong = 0 THEN {100} ELSE {})
          \cup (IF wrong = 2 THEN {80} ELSE {})
          \cup (IF wrong = 3 THEN {60} ELSE {})
          \cup (IF full(DrawnGroup(Iran)) THEN {50} ELSE {})
          \cup (IF \E k \in DOMAIN user : full(k) THEN {40} ELSE {})
          \cup (IF \E k \in DOMAIN user : best(k) = 3 THEN {20} ELSE {})

TableScore(user) == CHOOSE s \in Earned(user) : \A r \in Earned(user) : r <= s

(* Exchange two teams of a complete prediction. *)
Swapped(user, a, b) ==
  [k \in DOMAIN user |->
     List({IF t = a THEN b ELSE IF t = b THEN a ELSE t : t \in user[k].items})]

-----------------------------------------------------------------------------
(* A payload is scored once, and its row is the one the code makes of it. *)
TypeOK ==
  /\ payload \in Payloads
  /\ row \in {Pending, ResultOf(payload)}

(* A complete prediction gets what the table of README.md promises: the     *)
(* best of the conditions its assignment of teams meets.                    *)
MatchesScoringTable ==
  Scored /\ Complete(payload) => row.totalScore = TableScore(payload)

(* Correcting a complete prediction never costs points: an exchange of two  *)
(* teams that leaves fewer teams wrong and no right team wrong scores at    *)
(* least as much.                                                           *)
CorrectingNeverCosts ==
  Scored /\ Complete(payload) =>
    \A a, b \in Teams :
      LET better == Swapped(payload, a, b)
      IN  WrongTeams(better) \subseteq WrongTeams(payload) /\ WrongTeams(better) # WrongTeams(payload)
            => ResultOf(better).totalScore >= row.totalScore

(* The details of a row and its total are computed by different code and    *)
(* agree, for lists, texts and nulls alike: full marks exactly when all that *)
(* is listed counts as correct, a perfect group under the rules that need    *)
(* one and none under those below, and as much of what is listed not counted *)
(* correct as the rule says.                                                *)
DetailsAgreeWithTotal ==
  Scored =>
    LET listed == Cardinality(Listed(payload))
    IN  /\ row.totalScore = 100 <=> row.details.correctTeams = listed
        /\ row.totalScore \in {0, 20} => row.details.perfectGroups = 0
        /\ row.totalScore \in {40, 50} => row.details.perfectGroups > 0
        /\ row.totalScore = 80 => row.details.correctTeams = listed - 2
        /\ row.totalScore = 60 => row.details.correctTeams = listed - 3

(* Claimed by "100 points: All teams correctly placed" (scoring.service.ts:13) *)
(* and 'All 48 teams correctly placed' in the row itself.                    *)
FullMarksNeedAllTeams ==
  Scored /\ row.totalScore = 100 => row.details.correctTeams = Cardinality(Teams)
=============================================================================
