------------------------------ MODULE SessionAuth ------------------------------
(***************************************************************************)
(* Sessions after a phone is verified: login, validation of access tokens  *)
(* (AuthGuard, AuthService.validateSession), refresh, logout and the       *)
(* nightly cleanup.  A session lives in two places: a row of table         *)
(* sessions, which holds the hash of its current access token, and Redis   *)
(* keys from token prefixes to the session id.  Every await is a step      *)
(* boundary, so requests interleave between the two.                       *)
(*                                                                         *)
(* A request is handled once.  A login is also the name of the session it  *)
(* creates and of its refresh token, and a login or refresh is the name of *)
(* the access token it generates: tokens are random, so no two are equal   *)
(* and only the right one passes bcrypt.compare.                           *)
(***************************************************************************)
EXTENDS Integers, FiniteSets

CONSTANTS
  Requests,     (* the requests that may arrive                              *)
  Kind,         (* what each asks for                                        *)
  UserOf,       (* the user each login is for                                *)
  RecentLimit,  (* SESSION.RECENT_LOOKUP_LIMIT                               *)
  BulkLimit,    (* SESSION.BULK_REFRESH_LOOKUP_LIMIT                         *)
  FailBudget,   (* bound: requests that end half-way                         *)
  LapseBudget,  (* bound: rows and Redis keys whose lifetime ends            *)
  NoSession     (* null: no row, no cached id                                *)

Kinds    == {"login", "refresh", "guarded"}
Sessions == {r \in Requests : Kind[r] = "login"}
Issuers  == {r \in Requests : Kind[r] \in {"login", "refresh"}}
Guarded  == {r \in Requests : Kind[r] = "guarded"}

ASSUME RequestsAssumption == IsFiniteSet(Requests) /\ NoSession \notin Requests
ASSUME KindAssumption     == Kind \in [Requests -> Kinds]
ASSUME UserOfAssumption   == Sessions \subseteq DOMAIN UserOf
ASSUME LimitsAssumption   == RecentLimit \in Nat \ {0} /\ BulkLimit \in Nat \ {0}
ASSUME BudgetAssumption   == FailBudget \in Nat /\ LapseBudget \in Nat

VARIABLES
  rows,        (* per session, the access token its row has the hash of      *)
  createdAt,   (* rank of its row's created_at, 0 before it is inserted      *)
  expired,     (* sessions past expires_at                                   *)
  accessCache, (* Redis session:token:<prefix> to session id                 *)
  refreshCache,(* Redis session:refresh:<prefix>: sessions that have the key *)
  pc,          (* where each request is                                      *)
  token,       (* the token it presents                                      *)
  sess,        (* the session it works on                                    *)
  cleanup,     (* where the cleanup job is                                   *)
  fails, lapses,  (* what is left of the budgets                             *)
  current,     (* history: the token presented was the row's at the start    *)
  lapsed,      (* history: access tokens whose key expired                   *)
  deleted,     (* history: sessions removed by a logout                      *)
  raced        (* history: refreshes that held a session being removed       *)

rowVars   == <<rows, createdAt, expired>>
cacheVars == <<accessCache, refreshCache>>
histVars  == <<lapsed, deleted, raced>>
budgetVars == <<fails, lapses>>
vars == <<rowVars, cacheVars, pc, token, sess, cleanup, current, histVars, budgetVars>>

Pcs == {"new", "cacheAccess", "cacheRefresh", "load", "invalidate", "search", "recache",
        "findOwn", "deleteRow", "deleteAll", "loadRefresh", "searchBulk", "save",
        "update", "insert", "done", "rejected", "failed"}

Finished == {"done", "rejected", "failed"}

TypeOK ==
  /\ rows \in [Sessions -> Issuers \cup {NoSession}]
  /\ createdAt \in [Sessions -> Nat]
  /\ expired \subseteq Sessions
  /\ accessCache \in [Issuers -> Sessions \cup {NoSession}]
  /\ refreshCache \subseteq Sessions
  /\ pc \in [Requests -> Pcs]
  /\ token \in [Requests -> Issuers \cup {NoSession}]
  /\ sess \in [Requests -> Sessions \cup {NoSession}]
  /\ cleanup \in {"idle", "found"}
  /\ fails \in Nat /\ lapses \in Nat
  /\ current \in [Requests -> BOOLEAN]
  /\ lapsed \subseteq Issuers /\ deleted \subseteq Sessions /\ raced \subseteq Requests

Init ==
  /\ rows = [s \in Sessions |-> NoSession]
  /\ createdAt = [s \in Sessions |-> 0]
  /\ expired = {}
  /\ accessCache = [t \in Issuers |-> NoSession]
  /\ refreshCache = {}
  /\ pc = [r \in Requests |-> "new"]
  /\ token = [r \in Requests |-> NoSession]
  /\ sess = [r \in Requests |-> NoSession]
  /\ cleanup = "idle"
  /\ fails = FailBudget /\ lapses = LapseBudget
  /\ current = [r \in Requests |-> FALSE]
  /\ lapsed = {} /\ deleted = {} /\ raced = {}

Step(r, from, to) == pc[r] = from /\ pc' = [pc EXCEPT ![r] = to]

(* Tokens a client has: the answers of the logins and refreshes that ended well. *)
Issued == {t \in Issuers : pc[t] = "done"}

Live(s) == rows[s] # NoSession /\ s \notin expired

-----------------------------------------------------------------------------
(* createSession, behind verifyOtp.                                         *)

InsertSession(r) ==
  /\ Kind[r] = "login"
  /\ Step(r, "new", "cacheAccess")
  /\ rows' = [rows EXCEPT ![r] = r]
  /\ createdAt' = [createdAt EXCEPT ![r] = Cardinality({s \in Sessions : createdAt[s] > 0}) + 1]
  /\ sess' = [sess EXCEPT ![r] = r]
  /\ UNCHANGED <<expired, cacheVars, token, cleanup, current, histVars, budgetVars>>

(* Mutant of CacheAccess: a refreshed token is answered without its key. *)
AnswerUncached(r) ==
  /\ Step(r, "cacheAccess", IF Kind[r] = "login" THEN "cacheRefresh" ELSE "done")
  /\ UNCHANGED <<rowVars, cacheVars, token, sess, cleanup, current, histVars, budgetVars>>

(* The last step but one of a login, the last of a refresh. *)
CacheAccess(r) ==
  /\ Step(r, "cacheAccess", IF Kind[r] = "login" THEN "cacheRefresh" ELSE "done")
  /\ accessCache' = [accessCache EXCEPT ![r] = sess[r]]
  /\ UNCHANGED <<rowVars, refreshCache, token, sess, cleanup, current, histVars, budgetVars>>

CacheRefresh(r) ==
  /\ Step(r, "cacheRefresh", "done")
  /\ refreshCache' = refreshCache \cup {r}
  /\ UNCHANGED <<rowVars, accessCache, token, sess, cleanup, current, histVars, budgetVars>>

-----------------------------------------------------------------------------
(* AuthGuard and validateSession, in front of every guarded request.        *)

(* Where a request may be once the guard has let it through, by endpoint:   *)
(* answered (the ones that change no session), deleteSession, deleteAll...   *)
(* Nothing before depends on the endpoint, so it is chosen here.            *)
Endpoints == {"done", "findOwn", "deleteAll"}

ReadAccessCache(r, t) ==
  /\ r \in Guarded
  /\ Step(r, "new", IF accessCache[t] = NoSession THEN "search" ELSE "load")
  /\ token' = [token EXCEPT ![r] = t]
  /\ sess' = [sess EXCEPT ![r] = accessCache[t]]
  /\ current' = [current EXCEPT ![r] = \E s \in Sessions : rows[s] = t]
  /\ UNCHANGED <<rowVars, cacheVars, cleanup, histVars, budgetVars>>

(* Mutant of LoadCached: the cached id is trusted, the hash is not compared. *)
TrustCache(r) ==
  /\ \E next \in Endpoints : Step(r, "load", IF Live(sess[r]) THEN next ELSE "search")
  /\ UNCHANGED <<rowVars, cacheVars, token, sess, cleanup, current, histVars, budgetVars>>

(* validateTokenFromCache: the cached id only says which row to compare with. *)
LoadCached(r) ==
  /\ \E next \in Endpoints :
       Step(r, "load", IF ~Live(sess[r]) THEN "search"
                       ELSE IF rows[sess[r]] = token[r] THEN next
                       ELSE "invalidate")
  /\ UNCHANGED <<rowVars, cacheVars, token, sess, cleanup, current, histVars, budgetVars>>

InvalidateAccess(r) ==
  /\ Step(r, "invalidate", "search")
  /\ accessCache' = [accessCache EXCEPT ![token[r]] = NoSession]
  /\ UNCHANGED <<rowVars, refreshCache, token, sess, cleanup, current, histVars, budgetVars>>

Newer(s) == {n \in Sessions : Live(n) /\ createdAt[n] > createdAt[s]}

(* Mutant of SearchRecent: expires_at is not looked at. *)
SearchAnyAge(r) ==
  LET found == {s \in Sessions : rows[s] = token[r] /\ Cardinality(Newer(s)) < RecentLimit}
  IN  /\ Step(r, "search", IF found = {} THEN "rejected" ELSE "recache")
      /\ sess' = [sess EXCEPT ![r] = IF found = {} THEN @ ELSE CHOOSE s \in found : TRUE]
      /\ UNCHANGED <<rowVars, cacheVars, token, cleanup, current, histVars, budgetVars>>

(* validateTokenFromDatabase: only the newest live rows of all users. *)
SearchRecent(r) ==
  LET found == {s \in Sessions : /\ Live(s) /\ Cardinality(Newer(s)) < RecentLimit
                                 /\ rows[s] = token[r]}
  IN  /\ Step(r, "search", IF found = {} THEN "rejected" ELSE "recache")
      /\ sess' = [sess EXCEPT ![r] = IF found = {} THEN @ ELSE CHOOSE s \in found : TRUE]
      /\ UNCHANGED <<rowVars, cacheVars, token, cleanup, current, histVars, budgetVars>>

Recache(r) ==
  /\ \E next \in Endpoints : Step(r, "recache", next)
  /\ accessCache' = [accessCache EXCEPT ![token[r]] = sess[r]]
  /\ UNCHANGED <<rowVars, refreshCache, token, sess, cleanup, current, histVars, budgetVars>>

Validate(r) ==
  \/ \E t \in Issued : ReadAccessCache(r, t)
  \/ LoadCached(r) \/ InvalidateAccess(r) \/ SearchRecent(r) \/ Recache(r)

-----------------------------------------------------------------------------
(* deleteSession and deleteAllUserSessions.  Neither touches Redis.         *)

User(r) == UserOf[sess[r]]

(* Refreshes that have loaded s and not written it back yet. *)
Refreshing(s) == {r \in Requests : pc[r] \in {"save", "update", "insert"} /\ sess[r] = s}

(* Mutant of RowsWithout: a delete that leaves one of the rows behind. *)
RowsWithoutOne(S) ==
  [s \in Sessions |-> IF s \in S /\ \A q \in S : createdAt[q] <= createdAt[s]
                      THEN NoSession ELSE rows[s]]

RowsWithout(S) == [s \in Sessions |-> IF s \in S THEN NoSession ELSE rows[s]]

Logout(S) ==
  LET removed == {s \in S : rows[s] # NoSession}
  IN  /\ rows' = RowsWithout(removed)
      /\ deleted' = deleted \cup removed
      /\ raced' = raced \cup UNION {Refreshing(s) : s \in removed}

(* findOne with the id and the user, then delete with both. *)
FindOwn(r, s) ==
  /\ Step(r, "findOwn", IF rows[s] # NoSession /\ UserOf[s] = User(r) THEN "deleteRow" ELSE "done")
  /\ sess' = [sess EXCEPT ![r] = IF rows[s] # NoSession /\ UserOf[s] = User(r) THEN s ELSE @]
  /\ UNCHANGED <<rowVars, cacheVars, token, cleanup, current, histVars, budgetVars>>

DeleteRow(r) ==
  /\ Step(r, "deleteRow", "done")
  /\ Logout({sess[r]})
  /\ UNCHANGED <<createdAt, expired, cacheVars, token, sess, cleanup, current, lapsed, budgetVars>>

DeleteAll(r) ==
  /\ Step(r, "deleteAll", "done")
  /\ Logout({s \in Sessions : UserOf[s] = User(r)})
  /\ UNCHANGED <<createdAt, expired, cacheVars, token, sess, cleanup, current, lapsed, budgetVars>>

-----------------------------------------------------------------------------
(* refreshSession.                                                          *)

ReadRefreshCache(r, s) ==
  /\ Kind[r] = "refresh"
  /\ Step(r, "new", IF s \in refreshCache THEN "loadRefresh" ELSE "searchBulk")
  /\ token' = [token EXCEPT ![r] = s]
  /\ UNCHANGED <<rowVars, cacheVars, sess, cleanup, current, histVars, budgetVars>>

LoadByRefresh(r) ==
  /\ Step(r, "loadRefresh", IF Live(token[r]) THEN "save" ELSE "searchBulk")
  /\ sess' = [sess EXCEPT ![r] = IF Live(token[r]) THEN token[r] ELSE @]
  /\ UNCHANGED <<rowVars, cacheVars, token, cleanup, current, histVars, budgetVars>>

(* findSessionByRefreshTokenFromDatabase: BulkLimit live rows, any of them. *)
SearchBulk(r) ==
  \E batch \in SUBSET {s \in Sessions : Live(s)} :
    /\ \/ Cardinality(batch) = BulkLimit
       \/ Cardinality(batch) < BulkLimit /\ batch = {s \in Sessions : Live(s)}
    /\ Step(r, "searchBulk", IF token[r] \in batch THEN "save" ELSE "rejected")
    /\ sess' = [sess EXCEPT ![r] = IF token[r] \in batch THEN token[r] ELSE @]
    /\ UNCHANGED <<rowVars, cacheVars, token, cleanup, current, histVars, budgetVars>>

(* save(session) first selects the row by its id to decide what to write. *)
SelectForSave(r) ==
  /\ Step(r, "save", IF rows[sess[r]] = NoSession THEN "insert" ELSE "update")
  /\ UNCHANGED <<rowVars, cacheVars, token, sess, cleanup, current, histVars, budgetVars>>

(* UPDATE ... WHERE id: no row is no error. *)
UpdateRow(r) ==
  /\ Step(r, "update", "cacheAccess")
  /\ rows' = [rows EXCEPT ![sess[r]] = IF @ = NoSession THEN @ ELSE r]
  /\ UNCHANGED <<createdAt, expired, cacheVars, token, sess, cleanup, current, histVars, budgetVars>>

(* INSERT with the loaded id; a row another refresh put back is a conflict. *)
ReinsertRow(r) ==
  /\ Step(r, "insert", IF rows[sess[r]] = NoSession THEN "cacheAccess" ELSE "failed")
  /\ rows' = [rows EXCEPT ![sess[r]] = IF @ = NoSession THEN r ELSE @]
  /\ UNCHANGED <<createdAt, expired, cacheVars, token, sess, cleanup, current, histVars, budgetVars>>

Refresh(r) ==
  \/ \E s \in Sessions \cap Issued : ReadRefreshCache(r, s)
  \/ LoadByRefresh(r) \/ SearchBulk(r) \/ SelectForSave(r) \/ UpdateRow(r) \/ ReinsertRow(r)

-----------------------------------------------------------------------------
(* A query or Redis call rejects, or the process ends: the request stops    *)
(* with what it has done so far.  A guard answers a call that rejects with  *)
(* 401, as it answers a token it does not know; such a request is failed    *)
(* here, not rejected.                                                      *)
Fail(r) ==
  /\ fails > 0
  /\ fails' = fails - 1
  /\ pc[r] \notin Finished \cup {"new"}
  /\ pc' = [pc EXCEPT ![r] = "failed"]
  /\ UNCHANGED <<rowVars, cacheVars, token, sess, cleanup, current, histVars, lapses>>

(* Time passes: a row's expires_at, the TTL of a key. *)
Lapse == lapses > 0 /\ lapses' = lapses - 1

ExpireSession(s) ==
  /\ Lapse
  /\ rows[s] # NoSession
  /\ s \notin expired
  /\ expired' = expired \cup {s}
  /\ UNCHANGED <<rows, createdAt, cacheVars, pc, token, sess, cleanup, current, histVars, fails>>

ExpireAccessKey(t) ==
  /\ Lapse
  /\ accessCache[t] # NoSession
  /\ accessCache' = [accessCache EXCEPT ![t] = NoSession]
  /\ lapsed' = lapsed \cup {t}
  /\ UNCHANGED <<rowVars, refreshCache, pc, token, sess, cleanup, current, deleted, raced, fails>>

ExpireRefreshKey(s) ==
  /\ Lapse
  /\ s \in refreshCache
  /\ refreshCache' = refreshCache \ {s}
  /\ UNCHANGED <<rowVars, accessCache, pc, token, sess, cleanup, current, histVars, fails>>

(* cleanupExpiredSessions: find and count, then delete what is expired by then. *)
FindExpired ==
  /\ cleanup = "idle"
  /\ \E s \in expired : rows[s] # NoSession
  /\ cleanup' = "found"
  /\ UNCHANGED <<rowVars, cacheVars, pc, token, sess, current, histVars, budgetVars>>

DeleteExpired ==
  /\ cleanup = "found"
  /\ cleanup' = "idle"
  /\ rows' = RowsWithout(expired)
  /\ UNCHANGED <<createdAt, expired, cacheVars, pc, token, sess, current, histVars, budgetVars>>

Next ==
  \/ \E r \in Requests :
       \/ InsertSession(r) \/ CacheAccess(r) \/ CacheRefresh(r)
       \/ Validate(r)
       \/ \E s \in Sessions : FindOwn(r, s)
       \/ DeleteRow(r) \/ DeleteAll(r)
       \/ Refresh(r)
       \/ Fail(r)
  \/ \E s \in Sessions : ExpireSession(s) \/ ExpireRefreshKey(s)
  \/ \E t \in Issuers : ExpireAccessKey(t)
  \/ FindExpired \/ DeleteExpired

Spec == Init /\ [][Next]_vars

-----------------------------------------------------------------------------
(* Properties.                                                              *)

(* Past the guard: validateSession returned a session. *)
Admitted(r) == r \in Guarded /\ pc[r] \in {"done", "findOwn", "deleteRow", "deleteAll"}

(* Logout leaves the Redis keys behind and refresh leaves the old token's,   *)
(* yet neither lets a token in: a request is admitted only with a token that *)
(* was its row's current one when the request began.                         *)
NoStaleAdmission == \A r \in Requests : Admitted(r) => current[r]

SessionOf(t) == sess[t]

(* An access token a client was given, looked up without a failing call, is  *)
(* turned down only for one of these reasons: its row is gone or has a newer *)
(* token, its row is expired, or its key lapsed while RecentLimit newer      *)
(* sessions, of whatever users, push its row out of the database search.     *)
(* It does not speak of refresh tokens, nor of a client whose new token was  *)
(* stored but never reached it.                                              *)
RejectedForCause ==
  \A r \in Guarded : pc[r] = "rejected" =>
    LET t == token[r]
        s == SessionOf(t)
    IN  \/ rows[s] # t
        \/ s \in expired
        \/ /\ t \in lapsed
           /\ Cardinality({n \in Sessions : createdAt[n] > createdAt[s]}) >= RecentLimit

(* A session that was logged out is back only through a refresh that had     *)
(* read its row before the logout and has written since.                     *)
OnlyRacedRefreshRevives ==
  \A s \in deleted : rows[s] # NoSession =>
    \E r \in raced : sess[r] = s /\ pc[r] \in {"cacheAccess", "done", "failed"}

(* Claimed by "Deletes all sessions for a user (logout from all devices)"    *)
(* (auth.service.ts:259): a session that was logged out has no row again.    *)
LoggedOutStaysOut == \A s \in deleted : rows[s] = NoSession

-----------------------------------------------------------------------------
(* Requests implement a table that answers in one instant: what lies in     *)
(* Redis, what searches find and how queries interleave lets in nobody the  *)
(* table itself would not let in at the instant the hash is compared, and   *)
(* removes, renews or revives no session in a way the table would not.      *)

StageFor(r, p) ==
  CASE p \in {"new", "load", "invalidate", "search", "loadRefresh", "searchBulk"} -> "idle"
    [] p \in {"save", "update", "insert"}                                         -> "refreshing"
    [] p \in {"cacheAccess", "cacheRefresh"}                                      -> "written"
    [] p = "done" /\ r \notin Guarded                                             -> "answered"
    [] p \in {"rejected", "failed"}                                               -> "over"
    [] OTHER                                                                      -> "admitted"

Stage     == [r \in Requests |-> StageFor(r, pc[r])]
Given     == [t \in Issuers |-> sess[t]]
Presented == [r \in Guarded |-> IF Stage[r] = "admitted" THEN token[r] ELSE NoSession]
ActsFor   == [r \in Guarded |-> IF Stage[r] = "admitted" THEN User(r) ELSE NoSession]

Table == INSTANCE SessionTable WITH
  Refreshes <- Issuers \ Sessions, None <- NoSession,
  held <- rows, stage <- Stage, given <- Given, presented <- Presented, actsFor <- ActsFor

ImplementsTable == Table!Spec

-----------------------------------------------------------------------------
(* The strengthening under which the safety properties are inductive.       *)

PcsOf ==
  [login   |-> {"new", "cacheAccess", "cacheRefresh", "done", "failed"},
   refresh |-> {"new", "loadRefresh", "searchBulk", "save", "update", "insert",
                "cacheAccess", "done", "rejected", "failed"},
   guarded |-> {"new", "load", "invalidate", "search", "recache",
                "findOwn", "deleteRow", "deleteAll", "done", "rejected", "failed"}]

(* A request is at a step of its own kind, and has at hand what it needs. *)
StepsByKind ==
  \A r \in Requests :
    /\ pc[r] \in PcsOf[Kind[r]]
    /\ pc[r] \in {"cacheAccess", "load", "recache", "findOwn", "deleteRow", "deleteAll",
                  "save", "update", "insert"} => sess[r] \in Sessions
    /\ pc[r] \in {"loadRefresh", "searchBulk"} => token[r] \in Sessions \cap Issued
    /\ r \in Guarded /\ pc[r] # "new" => token[r] \in Issued

(* Sessions at hand, cached or stored come from logins that have begun. *)
KnownSessions ==
  /\ \A r \in Requests : sess[r] # NoSession => pc[sess[r]] # "new"
  /\ \A t \in Issuers : accessCache[t] # NoSession => pc[accessCache[t]] # "new"
  /\ \A s \in Sessions : rows[s] # NoSession \/ s \in deleted => pc[s] # "new"

(* A token the row no longer has when a request starts never comes back. *)
NeverCurrentAgain ==
  \A r \in Guarded :
    /\ pc[r] # "new" /\ (\E s \in Sessions : rows[s] = token[r]) => current[r]
    /\ pc[r] = "recache" => current[r]

RacedWriter(s) == \E r \in raced : sess[r] = s /\ pc[r] \in {"cacheAccess", "done", "failed"}

(* A refresh may hold a deleted session without having raced its deletion   *)
(* only after another one that did has put it back.                         *)
RacesAreKnown ==
  /\ \A r \in raced : Kind[r] = "refresh"
  /\ \A s \in deleted :
       rows[s] # NoSession \/ Refreshing(s) \ raced # {} => RacedWriter(s)

(* A token is the row's, or cached, only for the session it was made for. *)
TokensKnowTheirSession ==
  /\ \A s \in Sessions : rows[s] # NoSession =>
       sess[rows[s]] = s /\ pc[rows[s]] \in {"cacheAccess", "cacheRefresh", "done", "failed"}
  /\ \A t \in Issuers : accessCache[t] # NoSession =>
       accessCache[t] = sess[t] /\ pc[t] \in {"cacheRefresh", "done", "failed"}
  /\ \A s \in Sessions : pc[s] = "new" => createdAt[s] = 0

(* An answered token has a session. *)
HaveSessions == \A t \in Issuers : pc[t] \in {"cacheRefresh", "done"} => sess[t] \in Sessions

(* A token the row has lost stays lost, so an answered one is not cached     *)
(* only when its key lapsed or the row has moved on.                         *)
Outdated(t) == rows[sess[t]] # t

UncachedForCause ==
  \A t \in Issuers : pc[t] \in {"cacheRefresh", "done"} =>
    accessCache[t] # NoSession \/ t \in lapsed \/ Outdated(t)

(* What has brought a request to where it is in validateSession. *)
SearchedForCause ==
  \A r \in Guarded :
    LET t == token[r]
    IN  /\ pc[r] \in {"load", "invalidate", "recache"} => sess[r] = sess[t]
        /\ pc[r] = "invalidate" => Outdated(t)
        /\ pc[r] = "search" => t \in lapsed \/ Outdated(t) \/ sess[t] \in expired

IInv ==
  /\ TypeOK
  /\ StepsByKind
  /\ KnownSessions
  /\ NeverCurrentAgain
  /\ RacesAreKnown
  /\ NoStaleAdmission
  /\ HaveSessions
  /\ TokensKnowTheirSession
  /\ UncachedForCause
  /\ SearchedForCause
  /\ RejectedForCause
=============================================================================
