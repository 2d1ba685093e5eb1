----------------------------- MODULE SessionTable -----------------------------
(***************************************************************************)
(* What sessions promise, with no Redis, no search and no interleaved      *)
(* queries: one table of sessions, from which every guarded request is     *)
(* answered in one instant.  A request is let in as the user of a live     *)
(* session whose token at that instant is the one presented, a refresh     *)
(* gives its session a new token, and a session that was removed is back   *)
(* only through a refresh that was given it before.                        *)
(***************************************************************************)
EXTENDS TLAPS

CONSTANTS
  Sessions,  (* the logins; each names its session and its first token       *)
  Refreshes, (* the refreshes; each names the token it makes                 *)
  Guarded,   (* the requests behind the guard                                *)
  UserOf,    (* the user of each session                                     *)
  None       (* no token, no session, no user                                *)

VARIABLES
  held,      (* the token of each session in the table                       *)
  expired,   (* sessions past their time                                     *)
  stage,     (* what has become of each request                              *)
  given,     (* the session each token is made for                           *)
  presented, (* the token each request was let in with                       *)
  actsFor    (* the user it was let in as                                    *)

tableVars == <<held, expired, stage, given, presented, actsFor>>

Tokens   == Sessions \cup Refreshes
Calls == Tokens \cup Guarded

Init ==
  /\ held = [s \in Sessions |-> None]
  /\ expired = {}
  /\ stage = [r \in Calls |-> "idle"]
  /\ given = [t \in Tokens |-> None]
  /\ presented = [r \in Guarded |-> None]
  /\ actsFor = [r \in Guarded |-> None]

Move(r, from, to) == stage[r] = from /\ stage' = [stage EXCEPT ![r] = to]

Answered == {t \in Tokens : stage[t] = "answered"}

Live(s) == held[s] # None /\ s \notin expired

(* A login makes a session, to be answered with its token. *)
Open(s) ==
  /\ s \in Sessions
  /\ Move(s, "idle", "written")
  /\ held' = [held EXCEPT ![s] = s]
  /\ given' = [given EXCEPT ![s] = s]
  /\ UNCHANGED <<expired, presented, actsFor>>

(* A refresh is given the live session its refresh token names. *)
Begin(r, s) ==
  /\ r \in Refreshes /\ s \in Sessions \cap Answered
  /\ Live(s)
  /\ Move(r, "idle", "refreshing")
  /\ given' = [given EXCEPT ![r] = s]
  /\ UNCHANGED <<held, expired, presented, actsFor>>

(* The session has its new token; one removed meanwhile may stay removed or *)
(* come back with it.                                                       *)
Rotate(r) ==
  /\ r \in Refreshes
  /\ Move(r, "refreshing", "written")
  /\ \/ held' = [held EXCEPT ![given[r]] = r]
     \/ held[given[r]] = None /\ UNCHANGED held
  /\ UNCHANGED <<expired, given, presented, actsFor>>

Answer(t) ==
  /\ t \in Tokens
  /\ Move(t, "written", "answered")
  /\ UNCHANGED <<held, expired, given, presented, actsFor>>

Admit(r, s) ==
  /\ r \in Guarded /\ s \in Sessions
  /\ Live(s) /\ held[s] \in Answered
  /\ Move(r, "idle", "admitted")
  /\ presented' = [presented EXCEPT ![r] = held[s]]
  /\ actsFor' = [actsFor EXCEPT ![r] = UserOf[s]]
  /\ UNCHANGED <<held, expired, given>>

Remove(S) ==
  /\ held' = [s \in Sessions |-> IF s \in S THEN None ELSE held[s]]
  /\ UNCHANGED <<expired, stage, given, presented, actsFor>>

(* Logout: one session of the user, or all. *)
LogOut(r) ==
  LET own == {s \in Sessions : UserOf[s] = actsFor[r]}
  IN  /\ r \in Guarded /\ stage[r] = "admitted"
      /\ \E S \in {own} \cup {{s} : s \in own} : Remove(S)

(* A request ends without an answer.  Only an answer that is out stays.     *)
GiveUp(r) ==
  /\ stage[r] \notin {"answered", "over"}
  /\ stage' = [stage EXCEPT ![r] = "over"]
  /\ presented' = [q \in Guarded |-> IF q = r THEN None ELSE presented[q]]
  /\ actsFor' = [q \in Guarded |-> IF q = r THEN None ELSE actsFor[q]]
  /\ UNCHANGED <<held, expired, given>>

Expire(s) ==
  /\ Live(s)
  /\ expired' = expired \cup {s}
  /\ UNCHANGED <<held, stage, given, presented, actsFor>>

Next ==
  \/ \E s \in Sessions : Open(s) \/ Expire(s)
  \/ \E r \in Calls : Rotate(r) \/ Answer(r) \/ LogOut(r) \/ GiveUp(r)
  \/ \E r \in Calls, s \in Sessions : Begin(r, s) \/ Admit(r, s)
  \/ Remove(expired)

Spec == Init /\ [][Next]_tableVars

-----------------------------------------------------------------------------
(* A token of a session is made for that session, and a request acts for    *)
(* the user whose session its token was made for.                           *)
TokensAreBound ==
  /\ \A s \in Sessions : held[s] # None => held[s] \in Tokens /\ given[held[s]] = s
  /\ \A r \in Guarded : stage[r] = "admitted" =>
       /\ presented[r] \in Answered
       /\ given[presented[r]] \in Sessions
       /\ actsFor[r] = UserOf[given[presented[r]]]

(* Inductive with the types: a token is in the table, or with a request,    *)
(* only once it has been written, and is given its session before.          *)
TypeOK ==
  /\ held \in [Sessions -> Tokens \cup {None}]
  /\ stage \in [Calls -> {"idle", "refreshing", "written", "answered", "admitted", "over"}]
  /\ given \in [Tokens -> Sessions \cup {None}]
  /\ presented \in [Guarded -> Tokens \cup {None}]
  /\ actsFor \in [Guarded -> {UserOf[s] : s \in Sessions} \cup {None}]

GivenBeforeWritten ==
  /\ \A s \in Sessions : held[s] # None => stage[held[s]] \notin {"idle", "refreshing"}
  /\ \A r \in Refreshes : stage[r] = "refreshing" => given[r] \in Sessions

IInv == TypeOK /\ GivenBeforeWritten /\ TokensAreBound

LEMMA InitIInv == Init => IInv
  BY DEF Init, IInv, TypeOK, GivenBeforeWritten, TokensAreBound, Tokens, Calls

LEMMA NextIInv == IInv /\ [Next]_tableVars => IInv'
<1> SUFFICES ASSUME IInv, [Next]_tableVars
             PROVE  IInv'
  OBVIOUS
<1> USE DEF IInv, TypeOK, GivenBeforeWritten, TokensAreBound, Tokens, Calls, Answered
<1>1. CASE UNCHANGED tableVars
  BY <1>1 DEF tableVars
<1>2. ASSUME NEW s \in Sessions, Open(s)
      PROVE  IInv'
  BY <1>2 DEF Open, Move
<1>3. ASSUME NEW s \in Sessions, Expire(s)
      PROVE  IInv'
  BY <1>3 DEF Expire
<1>4. ASSUME NEW r \in Calls, Rotate(r)
      PROVE  IInv'
  BY <1>4 DEF Rotate, Move
<1>5. ASSUME NEW r \in Calls, Answer(r)
      PROVE  IInv'
  BY <1>5 DEF Answer, Move
<1>6. ASSUME NEW r \in Calls, GiveUp(r)
      PROVE  IInv'
  BY <1>6 DEF GiveUp
<1>7. ASSUME NEW r \in Calls, NEW s \in Sessions, Begin(r, s)
      PROVE  IInv'
  BY <1>7 DEF Begin, Live, Move
<1>8. ASSUME NEW r \in Calls, NEW s \in Sessions, Admit(r, s)
      PROVE  IInv'
  BY <1>8 DEF Admit, Live, Move
<1>9. ASSUME NEW S, Remove(S)
      PROVE  IInv'
  BY <1>9 DEF Remove
<1> QED BY <1>1, <1>2, <1>3, <1>4, <1>5, <1>6, <1>7, <1>8, <1>9 DEF Next, LogOut

(* In the table, no token opens the session of another and nobody acts as a *)
(* user whose session the token was not made for.                           *)
THEOREM BoundTokens == Spec => []TokensAreBound
<1>1. IInv => TokensAreBound
  BY DEF IInv
<1> QED BY <1>1, InitIInv, NextIInv, PTL DEF Spec
=============================================================================
