------------------------------ MODULE MCScoring -------------------------------
(***************************************************************************)
(* Every payload of a bounded family is scored once and the row compared   *)
(* with the published table.  Three groups of four teams are drawn; of the *)
(* complete predictions one is taken per class of predictions that differ  *)
(* only by exchanging teams of the same group other than Iran, which the   *)
(* code cannot tell apart.                                                 *)
(***************************************************************************)
EXTENDS Scoring, TLC

MCTeams  == 1 .. 12
MCIds    == 1 .. 16     (* 13 is the id of no team, it and the others characters *)
MCIran   == 9
MCGroups == [k \in {"A", "B", "C"} |-> IF k = "A" THEN 1 .. 4 ELSE IF k = "B" THEN 5 .. 8 ELSE 9 .. 12]
MCKeys   == <<"A", "B", "C", "X", "groups">>

(* Where four exchangeable teams can go, up to exchanging them. *)
Spread(n) == {f \in [1 .. n -> {"A", "B", "C"}] :
                \A i \in 1 .. (n - 1) : f[i] = "A" \/ (f[i] = "B" /\ f[i + 1] # "A") \/ f[i + 1] = "C"}

InGroups(f, g, i, h) ==
  [k \in {"A", "B", "C"} |->
     {t \in 1 .. 4 : f[t] = k} \cup {t \in 5 .. 8 : g[t - 4] = k}
       \cup {t \in {9} : i = k} \cup {t \in 10 .. 12 : h[t - 9] = k}]

Lists(p) == [k \in DOMAIN p |-> List(p[k])]

CompletePayloads ==
  {Lists(p) : p \in {q \in {InGroups(f, g, i, h) : f \in Spread(4), g \in Spread(4), i \in {"A", "B", "C"}, h \in Spread(3)} :
     \A k \in DOMAIN q : Cardinality(q[k]) = 4}}

(* Payloads the endpoint accepts as well: missing keys, an unknown key,     *)
(* teams listed twice or not at all, an unknown id, ...                     *)
SomeTeams == SUBSET {1, 2, 3, 5, 9, 13}
FewTeams  == {{}, {9}, {5, 6, 7}, {5, 6, 7, 8}, {1, 9, 10}}

LoosePayloads ==
  UNION {[ks -> SomeTeams] : ks \in {{}, {"A"}, {"C"}, {"X"}}}
    \cup {("A" :> a) @@ ("B" :> b) @@ ("C" :> c) : a \in SomeTeams, b \in FewTeams, c \in FewTeams}
    \cup {("A" :> a) @@ ("X" :> x) : a \in SomeTeams, x \in FewTeams}

(* ... and values that are no list: null, an object, the empty text, a text *)
(* of three or four characters, one of them with the id of Iran in it.      *)
NoList(kind, items, names) == [kind |-> kind, items |-> items, names |-> names]

OtherValues ==
  {NoList("null", {}, {}), NoList("object", {}, {}), NoList("text", {}, {}),
   NoList("text", 13 .. 15, {}), NoList("text", 13 .. 16, {9}), NoList("text", 13 .. 14, {9})}

OtherPayloads ==
  {("A" :> List(a)) @@ ("B" :> v) @@ ("C" :> List(c)) : a \in SomeTeams, v \in OtherValues, c \in FewTeams}
    \cup {("A" :> v) @@ ("C" :> List(c)) : v \in OtherValues, c \in FewTeams \cup {9 .. 12}}
    \cup {("A" :> List(a)) @@ ("groups" :> v) : a \in SomeTeams, v \in OtherValues}
    \cup {("A" :> List(5 .. 8)) @@ ("B" :> u) @@ ("C" :> v) : u \in OtherValues, v \in OtherValues}

MCPayloads == CompletePayloads \cup {Lists(p) : p \in LoosePayloads} \cup OtherPayloads
=============================================================================
