-------------------------- MODULE SessionAuthProofs --------------------------
(***************************************************************************)
(* Machine-checked proofs about SessionAuth, for every finite set of       *)
(* requests of whatever kinds and users, every lookup limit and every      *)
(* budget.                                                                 *)
(***************************************************************************)
EXTENDS SessionAuth, FiniteSetTheorems, TLAPS

-----------------------------------------------------------------------------
(* The rank a new row gets is a number. *)
LEMMA RankIsNatural == Cardinality({s \in Sessions : createdAt[s] > 0}) \in Nat
<1>1. {s \in Sessions : createdAt[s] > 0} \subseteq Requests
  BY DEF Sessions
<1> QED BY <1>1, RequestsAssumption, FS_Subset, FS_CardinalityType

(* Logins and refreshes are requests; null is none of them. *)
LEMMA KindFacts ==
  /\ Sessions \subseteq Issuers /\ Issuers \subseteq Requests /\ Guarded \subseteq Requests
  /\ Guarded \cap Issuers = {}
  /\ NoSession \notin Issuers /\ NoSession \notin Sessions
  /\ \A r \in Requests : Kind[r] = "login" <=> r \in Sessions
  /\ \A r \in Requests : Kind[r] = "guarded" <=> r \in Guarded
  /\ \A r \in Requests : Kind[r] \in Kinds
  BY RequestsAssumption, KindAssumption DEF Sessions, Issuers, Guarded, Kinds

-----------------------------------------------------------------------------
(* Type correctness. *)
LEMMA InitTypeOK == Init => TypeOK
  BY BudgetAssumption DEF Init, TypeOK, Pcs

(* What StepsByKind says of a request, by the step it is at. *)
LEMMA StepFacts ==
  ASSUME TypeOK, StepsByKind, NEW r \in Requests
  PROVE  /\ pc[r] \in {"cacheAccess", "save", "update", "insert"} =>
               r \in Issuers /\ sess[r] \in Sessions
         /\ pc[r] \in {"loadRefresh", "searchBulk", "save", "update", "insert"} =>
               Kind[r] = "refresh"
         /\ pc[r] \in {"loadRefresh", "searchBulk"} => token[r] \in Sessions
         /\ pc[r] = "cacheRefresh" => r \in Sessions
         /\ pc[r] \in {"load", "invalidate", "search", "recache", "findOwn", "deleteRow", "deleteAll"} =>
               r \in Guarded /\ token[r] \in Issuers /\ pc[token[r]] = "done"
         /\ pc[r] \in {"load", "recache", "findOwn", "deleteRow", "deleteAll"} => sess[r] \in Sessions
<1>1. CASE Kind[r] = "login"
  BY <1>1, KindFacts DEF StepsByKind, PcsOf
<1>2. CASE Kind[r] = "refresh"
  BY <1>2, KindFacts DEF StepsByKind, PcsOf, Issuers
<1>3. CASE Kind[r] = "guarded"
  BY <1>3, KindFacts DEF StepsByKind, PcsOf, Issued
<1> QED BY <1>1, <1>2, <1>3, KindFacts DEF Kinds

LEMMA NextTypeOK ==
  ASSUME TypeOK, StepsByKind, [Next]_vars
  PROVE  TypeOK'
<1> USE KindFacts, StepFacts DEF TypeOK, Pcs, Step, rowVars, cacheVars, histVars, budgetVars
<1>1. ASSUME NEW r \in Requests, InsertSession(r)
       PROVE  TypeOK'
  BY <1>1, RankIsNatural DEF InsertSession, vars
<1>2. ASSUME NEW r \in Requests, CacheAccess(r)
       PROVE  TypeOK'
  BY <1>2 DEF CacheAccess
<1>3. ASSUME NEW r \in Requests, CacheRefresh(r)
       PROVE  TypeOK'
  BY <1>3 DEF CacheRefresh
<1>4. ASSUME NEW r \in Requests, NEW t \in Issued, ReadAccessCache(r, t)
       PROVE  TypeOK'
  BY <1>4 DEF ReadAccessCache, Issued
<1>5. ASSUME NEW r \in Requests, LoadCached(r)
       PROVE  TypeOK'
  BY <1>5 DEF LoadCached, Endpoints
<1>6. ASSUME NEW r \in Requests, InvalidateAccess(r)
       PROVE  TypeOK'
  BY <1>6 DEF InvalidateAccess
<1>7. ASSUME NEW r \in Requests, SearchRecent(r)
       PROVE  TypeOK'
  BY <1>7 DEF SearchRecent
<1>8. ASSUME NEW r \in Requests, Recache(r)
       PROVE  TypeOK'
  BY <1>8 DEF Recache, Endpoints
<1>9. ASSUME NEW r \in Requests, NEW s \in Sessions, FindOwn(r, s)
       PROVE  TypeOK'
  BY <1>9 DEF FindOwn
<1>10. ASSUME NEW r \in Requests, DeleteRow(r)
       PROVE  TypeOK'
  BY <1>10 DEF DeleteRow, Logout, RowsWithout, Refreshing
<1>11. ASSUME NEW r \in Requests, DeleteAll(r)
       PROVE  TypeOK'
  BY <1>11 DEF DeleteAll, Logout, RowsWithout, Refreshing
<1>12. ASSUME NEW r \in Requests, NEW s \in Sessions \cap Issued, ReadRefreshCache(r, s)
       PROVE  TypeOK'
  BY <1>12 DEF ReadRefreshCache, Issued
<1>13. ASSUME NEW r \in Requests, LoadByRefresh(r)
       PROVE  TypeOK'
  BY <1>13 DEF LoadByRefresh
<1>14. ASSUME NEW r \in Requests, SearchBulk(r)
       PROVE  TypeOK'
  BY <1>14 DEF SearchBulk
<1>15. ASSUME NEW r \in Requests, SelectForSave(r)
       PROVE  TypeOK'
  BY <1>15 DEF SelectForSave
<1>16. ASSUME NEW r \in Requests, UpdateRow(r)
       PROVE  TypeOK'
  BY <1>16 DEF UpdateRow
<1>17. ASSUME NEW r \in Requests, ReinsertRow(r)
       PROVE  TypeOK'
  BY <1>17 DEF ReinsertRow
<1>18. ASSUME NEW r \in Requests, Fail(r)
       PROVE  TypeOK'
  BY <1>18 DEF Fail
<1>19. ASSUME NEW s \in Sessions, ExpireSession(s)
       PROVE  TypeOK'
  BY <1>19 DEF ExpireSession, Lapse
<1>20. ASSUME NEW s \in Sessions, ExpireRefreshKey(s)
       PROVE  TypeOK'
  BY <1>20 DEF ExpireRefreshKey, Lapse
<1>21. ASSUME NEW t \in Issuers, ExpireAccessKey(t)
       PROVE  TypeOK'
  BY <1>21 DEF ExpireAccessKey, Lapse
<1>22. ASSUME FindExpired
       PROVE  TypeOK'
  BY <1>22 DEF FindExpired
<1>23. ASSUME DeleteExpired
       PROVE  TypeOK'
  BY <1>23 DEF DeleteExpired, RowsWithout
<1>24. CASE UNCHANGED vars
  BY <1>24 DEF vars, rowVars
<1> QED BY <1>1, <1>2, <1>3, <1>4, <1>5, <1>6, <1>7, <1>8, <1>9, <1>10, <1>11, <1>12, <1>13, <1>14, <1>15, <1>16, <1>17, <1>18, <1>19, <1>20, <1>21, <1>22, <1>23, <1>24 DEF Next, Validate, Refresh

-----------------------------------------------------------------------------
(* A request that has begun has begun for good, and a finished one rests.   *)
LEMMA RequestsMoveOn ==
  ASSUME TypeOK, [Next]_vars, NEW x \in Requests
  PROVE  /\ pc[x] # "new" => pc'[x] # "new"
         /\ pc[x] \in Finished => pc'[x] = pc[x]
<1> USE DEF TypeOK, Finished, Step
<1>1. ASSUME NEW r \in Requests, InsertSession(r)
      PROVE  (pc[x] # "new" => pc'[x] # "new") /\ (pc[x] \in Finished => pc'[x] = pc[x])
  BY <1>1 DEF InsertSession
<1>2. ASSUME NEW r \in Requests, CacheAccess(r)
      PROVE  (pc[x] # "new" => pc'[x] # "new") /\ (pc[x] \in Finished => pc'[x] = pc[x])
  BY <1>2 DEF CacheAccess
<1>3. ASSUME NEW r \in Requests, CacheRefresh(r)
      PROVE  (pc[x] # "new" => pc'[x] # "new") /\ (pc[x] \in Finished => pc'[x] = pc[x])
  BY <1>3 DEF CacheRefresh
<1>4. ASSUME NEW r \in Requests, NEW t \in Issued, ReadAccessCache(r, t)
      PROVE  (pc[x] # "new" => pc'[x] # "new") /\ (pc[x] \in Finished => pc'[x] = pc[x])
  BY <1>4 DEF ReadAccessCache
<1>5. ASSUME NEW r \in Requests, LoadCached(r)
      PROVE  (pc[x] # "new" => pc'[x] # "new") /\ (pc[x] \in Finished => pc'[x] = pc[x])
  BY <1>5 DEF LoadCached, Endpoints
<1>6. ASSUME NEW r \in Requests, InvalidateAccess(r)
      PROVE  (pc[x] # "new" => pc'[x] # "new") /\ (pc[x] \in Finished => pc'[x] = pc[x])
  BY <1>6 DEF InvalidateAccess
<1>7. ASSUME NEW r \in Requests, SearchRecent(r)
      PROVE  (pc[x] # "new" => pc'[x] # "new") /\ (pc[x] \in Finished => pc'[x] = pc[x])
  BY <1>7 DEF SearchRecent
<1>8. ASSUME NEW r \in Requests, Recache(r)
      PROVE  (pc[x] # "new" => pc'[x] # "new") /\ (pc[x] \in Finished => pc'[x] = pc[x])
  BY <1>8 DEF Recache, Endpoints
<1>9. ASSUME NEW r \in Requests, NEW s \in Sessions, FindOwn(r, s)
      PROVE  (pc[x] # "new" => pc'[x] # "new") /\ (pc[x] \in Finished => pc'[x] = pc[x])
  BY <1>9 DEF FindOwn
<1>10. ASSUME NEW r \in Requests, DeleteRow(r)
      PROVE  (pc[x] # "new" => pc'[x] # "new") /\ (pc[x] \in Finished => pc'[x] = pc[x])
  BY <1>10 DEF DeleteRow
<1>11. ASSUME NEW r \in Requests, DeleteAll(r)
      PROVE  (pc[x] # "new" => pc'[x] # "new") /\ (pc[x] \in Finished => pc'[x] = pc[x])
  BY <1>11 DEF DeleteAll
<1>12. ASSUME NEW r \in Requests, NEW s \in Sessions \cap Issued, ReadRefreshCache(r, s)
      PROVE  (pc[x] # "new" => pc'[x] # "new") /\ (pc[x] \in Finished => pc'[x] = pc[x])
  BY <1>12 DEF ReadRefreshCache
<1>13. ASSUME NEW r \in Requests, LoadByRefresh(r)
      PROVE  (pc[x] # "new" => pc'[x] # "new") /\ (pc[x] \in Finished => pc'[x] = pc[x])
  BY <1>13 DEF LoadByRefresh
<1>14. ASSUME NEW r \in Requests, SearchBulk(r)
      PROVE  (pc[x] # "new" => pc'[x] # "new") /\ (pc[x] \in Finished => pc'[x] = pc[x])
  BY <1>14 DEF SearchBulk
<1>15. ASSUME NEW r \in Requests, SelectForSave(r)
      PROVE  (pc[x] # "new" => pc'[x] # "new") /\ (pc[x] \in Finished => pc'[x] = pc[x])
  BY <1>15 DEF SelectForSave
<1>16. ASSUME NEW r \in Requests, UpdateRow(r)
      PROVE  (pc[x] # "new" => pc'[x] # "new") /\ (pc[x] \in Finished => pc'[x] = pc[x])
  BY <1>16 DEF UpdateRow
<1>17. ASSUME NEW r \in Requests, ReinsertRow(r)
      PROVE  (pc[x] # "new" => pc'[x] # "new") /\ (pc[x] \in Finished => pc'[x] = pc[x])
  BY <1>17 DEF ReinsertRow
<1>18. ASSUME NEW r \in Requests, Fail(r)
      PROVE  (pc[x] # "new" => pc'[x] # "new") /\ (pc[x] \in Finished => pc'[x] = pc[x])
  BY <1>18 DEF Fail
<1>19. ASSUME NEW s \in Sessions, ExpireSession(s)
      PROVE  (pc[x] # "new" => pc'[x] # "new") /\ (pc[x] \in Finished => pc'[x] = pc[x])
  BY <1>19 DEF ExpireSession
<1>20. ASSUME NEW s \in Sessions, ExpireRefreshKey(s)
      PROVE  (pc[x] # "new" => pc'[x] # "new") /\ (pc[x] \in Finished => pc'[x] = pc[x])
  BY <1>20 DEF ExpireRefreshKey
<1>21. ASSUME NEW t \in Issuers, ExpireAccessKey(t)
      PROVE  (pc[x] # "new" => pc'[x] # "new") /\ (pc[x] \in Finished => pc'[x] = pc[x])
  BY <1>21 DEF ExpireAccessKey
<1>22. CASE FindExpired
  BY <1>22 DEF FindExpired
<1>23. CASE DeleteExpired
  BY <1>23 DEF DeleteExpired
<1>24. CASE UNCHANGED vars
  BY <1>24 DEF vars
<1> QED BY <1>1, <1>2, <1>3, <1>4, <1>5, <1>6, <1>7, <1>8, <1>9, <1>10, <1>11, <1>12, <1>13, <1>14, <1>15, <1>16, <1>17, <1>18, <1>19, <1>20, <1>21, <1>22, <1>23, <1>24 DEF Next, Validate, Refresh

(* Every request stays at the steps of its kind, with what they need.       *)
LEMMA NextStepsByKind ==
  ASSUME TypeOK, StepsByKind, KnownSessions, [Next]_vars
  PROVE  StepsByKind'
<1>0. \A x \in Requests : (pc[x] # "new" => pc'[x] # "new") /\ (pc[x] = "done" => pc'[x] = "done")
  BY RequestsMoveOn DEF Finished
<1> USE <1>0, KindFacts, StepFacts DEF TypeOK, StepsByKind, Step, PcsOf, Issued
<1>1. ASSUME NEW r \in Requests, InsertSession(r)
      PROVE  StepsByKind'
  BY <1>1 DEF InsertSession
<1>2. ASSUME NEW r \in Requests, CacheAccess(r)
      PROVE  StepsByKind'
  <2>1. pc'[r] \in PcsOf[Kind[r]]
    <3>1. CASE r \in Sessions
      BY <1>2, <3>1 DEF CacheAccess
    <3>2. CASE Kind[r] = "refresh"
      BY <1>2, <3>2 DEF CacheAccess
    <3> QED BY <1>2, <3>1, <3>2 DEF CacheAccess, Kinds
  <2>2. r \notin Guarded /\ pc'[r] \in {"cacheRefresh", "done"}
    BY <1>2 DEF CacheAccess
  <2> QED BY <1>2, <2>1, <2>2 DEF CacheAccess
<1>3. ASSUME NEW r \in Requests, CacheRefresh(r)
      PROVE  StepsByKind'
  BY <1>3 DEF CacheRefresh
<1>4. ASSUME NEW r \in Requests, NEW t \in Issued, ReadAccessCache(r, t)
      PROVE  StepsByKind'
  BY <1>4 DEF ReadAccessCache
<1>5. ASSUME NEW r \in Requests, LoadCached(r)
      PROVE  StepsByKind'
  BY <1>5 DEF LoadCached, Endpoints
<1>6. ASSUME NEW r \in Requests, InvalidateAccess(r)
      PROVE  StepsByKind'
  BY <1>6 DEF InvalidateAccess
<1>7. ASSUME NEW r \in Requests, SearchRecent(r)
      PROVE  StepsByKind'
  BY <1>7 DEF SearchRecent
<1>8. ASSUME NEW r \in Requests, Recache(r)
      PROVE  StepsByKind'
  BY <1>8 DEF Recache, Endpoints
<1>9. ASSUME NEW r \in Requests, NEW s \in Sessions, FindOwn(r, s)
      PROVE  StepsByKind'
  BY <1>9 DEF FindOwn
<1>10. ASSUME NEW r \in Requests, DeleteRow(r)
      PROVE  StepsByKind'
  BY <1>10 DEF DeleteRow
<1>11. ASSUME NEW r \in Requests, DeleteAll(r)
      PROVE  StepsByKind'
  BY <1>11 DEF DeleteAll
<1>12. ASSUME NEW r \in Requests, NEW s \in Sessions \cap Issued, ReadRefreshCache(r, s)
      PROVE  StepsByKind'
  BY <1>12 DEF ReadRefreshCache
<1>13. ASSUME NEW r \in Requests, LoadByRefresh(r)
      PROVE  StepsByKind'
  BY <1>13 DEF LoadByRefresh
<1>14. ASSUME NEW r \in Requests, SearchBulk(r)
      PROVE  StepsByKind'
  BY <1>14 DEF SearchBulk
<1>15. ASSUME NEW r \in Requests, SelectForSave(r)
      PROVE  StepsByKind'
  BY <1>15 DEF SelectForSave
<1>16. ASSUME NEW r \in Requests, UpdateRow(r)
      PROVE  StepsByKind'
  BY <1>16 DEF UpdateRow
<1>17. ASSUME NEW r \in Requests, ReinsertRow(r)
      PROVE  StepsByKind'
  BY <1>17 DEF ReinsertRow
<1>18. ASSUME NEW r \in Requests, Fail(r)
      PROVE  StepsByKind'
  <2>1. "failed" \in PcsOf[Kind[r]]
    BY DEF Kinds
  <2> QED BY <1>18, <2>1 DEF Fail, Finished
<1>19. ASSUME NEW s \in Sessions, ExpireSession(s)
      PROVE  StepsByKind'
  BY <1>19 DEF ExpireSession
<1>20. ASSUME NEW s \in Sessions, ExpireRefreshKey(s)
      PROVE  StepsByKind'
  BY <1>20 DEF ExpireRefreshKey
<1>21. ASSUME NEW t \in Issuers, ExpireAccessKey(t)
      PROVE  StepsByKind'
  BY <1>21 DEF ExpireAccessKey
<1>22. CASE FindExpired
  BY <1>22 DEF FindExpired
<1>23. CASE DeleteExpired
  BY <1>23 DEF DeleteExpired
<1>24. CASE UNCHANGED vars
  BY <1>24 DEF vars
<1> QED BY <1>1, <1>2, <1>3, <1>4, <1>5, <1>6, <1>7, <1>8, <1>9, <1>10, <1>11, <1>12, <1>13, <1>14, <1>15, <1>16, <1>17, <1>18, <1>19, <1>20, <1>21, <1>22, <1>23, <1>24 DEF Next, Validate, Refresh

(* No session turns up anywhere before its login has inserted it.           *)
LEMMA NextKnownSessions ==
  ASSUME TypeOK, StepsByKind, KnownSessions, [Next]_vars
  PROVE  KnownSessions'
<1>0. \A x \in Requests : pc[x] # "new" => pc'[x] # "new"
  BY RequestsMoveOn
<1> USE <1>0, KindFacts, StepFacts DEF TypeOK, KnownSessions, Step, Issued, rowVars, cacheVars, histVars
<1>1. ASSUME NEW r \in Requests, InsertSession(r)
      PROVE  KnownSessions'
  BY <1>1 DEF InsertSession
<1>2. ASSUME NEW r \in Requests, CacheAccess(r)
      PROVE  KnownSessions'
  BY <1>2 DEF CacheAccess
<1>3. ASSUME NEW r \in Requests, CacheRefresh(r)
      PROVE  KnownSessions'
  BY <1>3 DEF CacheRefresh
<1>4. ASSUME NEW r \in Requests, NEW t \in Issued, ReadAccessCache(r, t)
      PROVE  KnownSessions'
  BY <1>4 DEF ReadAccessCache
<1>5. ASSUME NEW r \in Requests, LoadCached(r)
      PROVE  KnownSessions'
  BY <1>5 DEF LoadCached, Endpoints
<1>6. ASSUME NEW r \in Requests, InvalidateAccess(r)
      PROVE  KnownSessions'
  BY <1>6 DEF InvalidateAccess
<1>7. ASSUME NEW r \in Requests, SearchRecent(r)
      PROVE  KnownSessions'
  BY <1>7 DEF SearchRecent, Live
<1>8. ASSUME NEW r \in Requests, Recache(r)
      PROVE  KnownSessions'
  BY <1>8 DEF Recache, Endpoints
<1>9. ASSUME NEW r \in Requests, NEW s \in Sessions, FindOwn(r, s)
      PROVE  KnownSessions'
  BY <1>9 DEF FindOwn
<1>10. ASSUME NEW r \in Requests, DeleteRow(r)
      PROVE  KnownSessions'
  BY <1>10 DEF DeleteRow, Logout, RowsWithout
<1>11. ASSUME NEW r \in Requests, DeleteAll(r)
      PROVE  KnownSessions'
  BY <1>11 DEF DeleteAll, Logout, RowsWithout
<1>12. ASSUME NEW r \in Requests, NEW s \in Sessions \cap Issued, ReadRefreshCache(r, s)
      PROVE  KnownSessions'
  BY <1>12 DEF ReadRefreshCache
<1>13. ASSUME NEW r \in Requests, LoadByRefresh(r)
      PROVE  KnownSessions'
  BY <1>13 DEF LoadByRefresh, Live
<1>14. ASSUME NEW r \in Requests, SearchBulk(r)
      PROVE  KnownSessions'
  BY <1>14 DEF SearchBulk, Live
<1>15. ASSUME NEW r \in Requests, SelectForSave(r)
      PROVE  KnownSessions'
  BY <1>15 DEF SelectForSave
<1>16. ASSUME NEW r \in Requests, UpdateRow(r)
      PROVE  KnownSessions'
  BY <1>16 DEF UpdateRow
<1>17. ASSUME NEW r \in Requests, ReinsertRow(r)
      PROVE  KnownSessions'
  BY <1>17 DEF ReinsertRow
<1>18. ASSUME NEW r \in Requests, Fail(r)
      PROVE  KnownSessions'
  BY <1>18 DEF Fail, Finished
<1>19. ASSUME NEW s \in Sessions, ExpireSession(s)
      PROVE  KnownSessions'
  BY <1>19 DEF ExpireSession
<1>20. ASSUME NEW s \in Sessions, ExpireRefreshKey(s)
      PROVE  KnownSessions'
  BY <1>20 DEF ExpireRefreshKey
<1>21. ASSUME NEW t \in Issuers, ExpireAccessKey(t)
      PROVE  KnownSessions'
  BY <1>21 DEF ExpireAccessKey
<1>22. CASE FindExpired
  BY <1>22 DEF FindExpired
<1>23. CASE DeleteExpired
  BY <1>23 DEF DeleteExpired, RowsWithout
<1>24. CASE UNCHANGED vars
  BY <1>24 DEF vars
<1> QED BY <1>1, <1>2, <1>3, <1>4, <1>5, <1>6, <1>7, <1>8, <1>9, <1>10, <1>11, <1>12, <1>13, <1>14, <1>15, <1>16, <1>17, <1>18, <1>19, <1>20, <1>21, <1>22, <1>23, <1>24 DEF Next, Validate, Refresh

(* A token a guarded request presents is an issued one, so not null.         *)
LEMMA PresentedTokens ==
  ASSUME TypeOK, StepsByKind, NEW x \in Guarded, pc[x] # "new"
  PROVE  token[x] \in Issuers /\ pc[token[x]] = "done" /\ token[x] # NoSession
  BY KindFacts DEF StepsByKind, Issued

(* A row only ever takes the token of a request that is not finished, never *)
(* one a client has presented.                                              *)
LEMMA NextNeverCurrentAgain ==
  ASSUME TypeOK, StepsByKind, NeverCurrentAgain, [Next]_vars
  PROVE  NeverCurrentAgain'
<1>0. \A x \in Guarded : pc[x] # "new" =>
         token[x] \in Issuers /\ pc[token[x]] = "done" /\ token[x] # NoSession
  BY PresentedTokens
<1> USE <1>0, KindFacts, StepFacts DEF TypeOK, NeverCurrentAgain, Step, Issued, rowVars, cacheVars, histVars
<1>1. ASSUME NEW r \in Requests, InsertSession(r)
      PROVE  NeverCurrentAgain'
  <2>1. \A x \in Guarded : pc'[x] # "new" => pc[x] # "new" /\ token'[x] = token[x] /\ current'[x] = current[x]
    BY <1>1 DEF InsertSession
  <2>2. \A x \in Guarded, s \in Sessions : pc[x] # "new" /\ rows'[s] = token[x] => rows[s] = token[x]
    BY <1>1 DEF InsertSession
  <2>3. \A x \in Guarded : pc'[x] = "recache" => pc[x] = "recache"
    BY <1>1 DEF InsertSession
  <2> QED BY <2>1, <2>2, <2>3
<1>2. ASSUME NEW r \in Requests, CacheAccess(r)
      PROVE  NeverCurrentAgain'
  BY <1>2 DEF CacheAccess
<1>3. ASSUME NEW r \in Requests, CacheRefresh(r)
      PROVE  NeverCurrentAgain'
  BY <1>3 DEF CacheRefresh
<1>4. ASSUME NEW r \in Requests, NEW t \in Issued, ReadAccessCache(r, t)
      PROVE  NeverCurrentAgain'
  BY <1>4 DEF ReadAccessCache
<1>5. ASSUME NEW r \in Requests, LoadCached(r)
      PROVE  NeverCurrentAgain'
  BY <1>5 DEF LoadCached, Endpoints
<1>6. ASSUME NEW r \in Requests, InvalidateAccess(r)
      PROVE  NeverCurrentAgain'
  BY <1>6 DEF InvalidateAccess
<1>7. ASSUME NEW r \in Requests, SearchRecent(r)
      PROVE  NeverCurrentAgain'
  BY <1>7 DEF SearchRecent, Live
<1>8. ASSUME NEW r \in Requests, Recache(r)
      PROVE  NeverCurrentAgain'
  BY <1>8 DEF Recache, Endpoints
<1>9. ASSUME NEW r \in Requests, NEW s \in Sessions, FindOwn(r, s)
      PROVE  NeverCurrentAgain'
  BY <1>9 DEF FindOwn
<1>10. ASSUME NEW r \in Requests, DeleteRow(r)
      PROVE  NeverCurrentAgain'
  <2>1. \A x \in Guarded : pc'[x] # "new" => pc[x] # "new" /\ token'[x] = token[x] /\ current'[x] = current[x]
    BY <1>10 DEF DeleteRow, Logout, RowsWithout
  <2>2. \A x \in Guarded, s \in Sessions : pc[x] # "new" /\ rows'[s] = token[x] => rows[s] = token[x]
    BY <1>10 DEF DeleteRow, Logout, RowsWithout
  <2>3. \A x \in Guarded : pc'[x] = "recache" => pc[x] = "recache"
    BY <1>10 DEF DeleteRow, Logout, RowsWithout
  <2> QED BY <2>1, <2>2, <2>3
<1>11. ASSUME NEW r \in Requests, DeleteAll(r)
      PROVE  NeverCurrentAgain'
  <2>1. \A x \in Guarded : pc'[x] # "new" => pc[x] # "new" /\ token'[x] = token[x] /\ current'[x] = current[x]
    BY <1>11 DEF DeleteAll, Logout, RowsWithout
  <2>2. \A x \in Guarded, s \in Sessions : pc[x] # "new" /\ rows'[s] = token[x] => rows[s] = token[x]
    BY <1>11 DEF DeleteAll, Logout, RowsWithout
  <2>3. \A x \in Guarded : pc'[x] = "recache" => pc[x] = "recache"
    BY <1>11 DEF DeleteAll, Logout, RowsWithout
  <2> QED BY <2>1, <2>2, <2>3
<1>12. ASSUME NEW r \in Requests, NEW s \in Sessions \cap Issued, ReadRefreshCache(r, s)
      PROVE  NeverCurrentAgain'
  BY <1>12 DEF ReadRefreshCache
<1>13. ASSUME NEW r \in Requests, LoadByRefresh(r)
      PROVE  NeverCurrentAgain'
  BY <1>13 DEF LoadByRefresh, Live
<1>14. ASSUME NEW r \in Requests, SearchBulk(r)
      PROVE  NeverCurrentAgain'
  BY <1>14 DEF SearchBulk, Live
<1>15. ASSUME NEW r \in Requests, SelectForSave(r)
      PROVE  NeverCurrentAgain'
  BY <1>15 DEF SelectForSave
<1>16. ASSUME NEW r \in Requests, UpdateRow(r)
      PROVE  NeverCurrentAgain'
  <2>1. \A x \in Guarded : pc'[x] # "new" => pc[x] # "new" /\ token'[x] = token[x] /\ current'[x] = current[x]
    BY <1>16 DEF UpdateRow
  <2>2. \A x \in Guarded, s \in Sessions : pc[x] # "new" /\ rows'[s] = token[x] => rows[s] = token[x]
    BY <1>16 DEF UpdateRow
  <2>3. \A x \in Guarded : pc'[x] = "recache" => pc[x] = "recache"
    BY <1>16 DEF UpdateRow
  <2> QED BY <2>1, <2>2, <2>3
<1>17. ASSUME NEW r \in Requests, ReinsertRow(r)
      PROVE  NeverCurrentAgain'
  <2>1. \A x \in Guarded : pc'[x] # "new" => pc[x] # "new" /\ token'[x] = token[x] /\ current'[x] = current[x]
    BY <1>17 DEF ReinsertRow
  <2>2. \A x \in Guarded, s \in Sessions : pc[x] # "new" /\ rows'[s] = token[x] => rows[s] = token[x]
    BY <1>17 DEF ReinsertRow
  <2>3. \A x \in Guarded : pc'[x] = "recache" => pc[x] = "recache"
    BY <1>17 DEF ReinsertRow
  <2> QED BY <2>1, <2>2, <2>3
<1>18. ASSUME NEW r \in Requests, Fail(r)
      PROVE  NeverCurrentAgain'
  BY <1>18 DEF Fail, Finished
<1>19. ASSUME NEW s \in Sessions, ExpireSession(s)
      PROVE  NeverCurrentAgain'
  BY <1>19 DEF ExpireSession
<1>20. ASSUME NEW s \in Sessions, ExpireRefreshKey(s)
      PROVE  NeverCurrentAgain'
  BY <1>20 DEF ExpireRefreshKey
<1>21. ASSUME NEW t \in Issuers, ExpireAccessKey(t)
      PROVE  NeverCurrentAgain'
  BY <1>21 DEF ExpireAccessKey
<1>22. CASE FindExpired
  BY <1>22 DEF FindExpired
<1>23. CASE DeleteExpired
  <2>1. \A x \in Guarded, s \in Sessions : pc[x] # "new" /\ rows'[s] = token[x] => rows[s] = token[x]
    BY <1>23 DEF DeleteExpired, RowsWithout
  <2> QED BY <1>23, <2>1 DEF DeleteExpired
<1>24. CASE UNCHANGED vars
  BY <1>24 DEF vars
<1> QED BY <1>1, <1>2, <1>3, <1>4, <1>5, <1>6, <1>7, <1>8, <1>9, <1>10, <1>11, <1>12, <1>13, <1>14, <1>15, <1>16, <1>17, <1>18, <1>19, <1>20, <1>21, <1>22, <1>23, <1>24 DEF Next, Validate, Refresh

(* A request gets past the guard only by comparing its token with a row.    *)
LEMMA NextNoStaleAdmission ==
  ASSUME TypeOK, StepsByKind, NeverCurrentAgain, NoStaleAdmission, [Next]_vars
  PROVE  NoStaleAdmission'
<1> USE KindFacts, StepFacts DEF TypeOK, NeverCurrentAgain, NoStaleAdmission, Admitted, Step, rowVars, cacheVars, histVars
<1>1. ASSUME NEW r \in Requests, InsertSession(r)
      PROVE  NoStaleAdmission'
  BY <1>1 DEF InsertSession
<1>2. ASSUME NEW r \in Requests, CacheAccess(r)
      PROVE  NoStaleAdmission'
  BY <1>2 DEF CacheAccess
<1>3. ASSUME NEW r \in Requests, CacheRefresh(r)
      PROVE  NoStaleAdmission'
  BY <1>3 DEF CacheRefresh
<1>4. ASSUME NEW r \in Requests, NEW t \in Issued, ReadAccessCache(r, t)
      PROVE  NoStaleAdmission'
  BY <1>4 DEF ReadAccessCache
<1>5. ASSUME NEW r \in Requests, LoadCached(r)
      PROVE  NoStaleAdmission'
  BY <1>5 DEF LoadCached, Endpoints
<1>6. ASSUME NEW r \in Requests, InvalidateAccess(r)
      PROVE  NoStaleAdmission'
  BY <1>6 DEF InvalidateAccess
<1>7. ASSUME NEW r \in Requests, SearchRecent(r)
      PROVE  NoStaleAdmission'
  BY <1>7 DEF SearchRecent, Live
<1>8. ASSUME NEW r \in Requests, Recache(r)
      PROVE  NoStaleAdmission'
  BY <1>8 DEF Recache, Endpoints
<1>9. ASSUME NEW r \in Requests, NEW s \in Sessions, FindOwn(r, s)
      PROVE  NoStaleAdmission'
  BY <1>9 DEF FindOwn
<1>10. ASSUME NEW r \in Requests, DeleteRow(r)
      PROVE  NoStaleAdmission'
  BY <1>10 DEF DeleteRow, Logout, RowsWithout
<1>11. ASSUME NEW r \in Requests, DeleteAll(r)
      PROVE  NoStaleAdmission'
  BY <1>11 DEF DeleteAll, Logout, RowsWithout
<1>12. ASSUME NEW r \in Requests, NEW s \in Sessions \cap Issued, ReadRefreshCache(r, s)
      PROVE  NoStaleAdmission'
  BY <1>12 DEF ReadRefreshCache
<1>13. ASSUME NEW r \in Requests, LoadByRefresh(r)
      PROVE  NoStaleAdmission'
  BY <1>13 DEF LoadByRefresh, Live
<1>14. ASSUME NEW r \in Requests, SearchBulk(r)
      PROVE  NoStaleAdmission'
  BY <1>14 DEF SearchBulk, Live
<1>15. ASSUME NEW r \in Requests, SelectForSave(r)
      PROVE  NoStaleAdmission'
  BY <1>15 DEF SelectForSave
<1>16. ASSUME NEW r \in Requests, UpdateRow(r)
      PROVE  NoStaleAdmission'
  BY <1>16 DEF UpdateRow
<1>17. ASSUME NEW r \in Requests, ReinsertRow(r)
      PROVE  NoStaleAdmission'
  BY <1>17 DEF ReinsertRow
<1>18. ASSUME NEW r \in Requests, Fail(r)
      PROVE  NoStaleAdmission'
  BY <1>18 DEF Fail, Finished
<1>19. ASSUME NEW s \in Sessions, ExpireSession(s)
      PROVE  NoStaleAdmission'
  BY <1>19 DEF ExpireSession
<1>20. ASSUME NEW s \in Sessions, ExpireRefreshKey(s)
      PROVE  NoStaleAdmission'
  BY <1>20 DEF ExpireRefreshKey
<1>21. ASSUME NEW t \in Issuers, ExpireAccessKey(t)
      PROVE  NoStaleAdmission'
  BY <1>21 DEF ExpireAccessKey
<1>22. CASE FindExpired
  BY <1>22 DEF FindExpired
<1>23. CASE DeleteExpired
  BY <1>23 DEF DeleteExpired, RowsWithout
<1>24. CASE UNCHANGED vars
  BY <1>24 DEF vars
<1> QED BY <1>1, <1>2, <1>3, <1>4, <1>5, <1>6, <1>7, <1>8, <1>9, <1>10, <1>11, <1>12, <1>13, <1>14, <1>15, <1>16, <1>17, <1>18, <1>19, <1>20, <1>21, <1>22, <1>23, <1>24 DEF Next, Validate, Refresh

(* A refresh that raced a logout and has written stays on record.           *)
LEMMA RacedWritersStay ==
  ASSUME TypeOK, StepsByKind, RacesAreKnown, [Next]_vars, NEW q \in Sessions, RacedWriter(q)
  PROVE  RacedWriter(q)'
<1> PICK w \in raced : sess[w] = q /\ pc[w] \in {"cacheAccess", "done", "failed"}
  BY DEF RacedWriter
<1>0. w \in Requests /\ Kind[w] = "refresh" /\ w \notin Sessions /\ w \notin Guarded
  BY KindFacts DEF TypeOK, RacesAreKnown
<1> SUFFICES w \in raced' /\ sess'[w] = q /\ pc'[w] \in {"cacheAccess", "done", "failed"}
  BY DEF RacedWriter
<1> DEFINE Stays == w \in raced' /\ sess'[w] = q /\ pc'[w] \in {"cacheAccess", "done", "failed"}
<1> USE <1>0, KindFacts, StepFacts DEF TypeOK, Step, histVars
<1>1. ASSUME NEW r \in Requests, InsertSession(r)
      PROVE  Stays
  BY <1>1 DEF InsertSession
<1>2. ASSUME NEW r \in Requests, CacheAccess(r)
      PROVE  Stays
  BY <1>2 DEF CacheAccess
<1>3. ASSUME NEW r \in Requests, CacheRefresh(r)
      PROVE  Stays
  BY <1>3 DEF CacheRefresh
<1>4. ASSUME NEW r \in Requests, NEW t \in Issued, ReadAccessCache(r, t)
      PROVE  Stays
  BY <1>4 DEF ReadAccessCache
<1>5. ASSUME NEW r \in Requests, LoadCached(r)
      PROVE  Stays
  BY <1>5 DEF LoadCached, Endpoints
<1>6. ASSUME NEW r \in Requests, InvalidateAccess(r)
      PROVE  Stays
  BY <1>6 DEF InvalidateAccess
<1>7. ASSUME NEW r \in Requests, SearchRecent(r)
      PROVE  Stays
  BY <1>7 DEF SearchRecent
<1>8. ASSUME NEW r \in Requests, Recache(r)
      PROVE  Stays
  BY <1>8 DEF Recache, Endpoints
<1>9. ASSUME NEW r \in Requests, NEW s \in Sessions, FindOwn(r, s)
      PROVE  Stays
  BY <1>9 DEF FindOwn
<1>10. ASSUME NEW r \in Requests, DeleteRow(r)
      PROVE  Stays
  BY <1>10 DEF DeleteRow, Logout
<1>11. ASSUME NEW r \in Requests, DeleteAll(r)
      PROVE  Stays
  BY <1>11 DEF DeleteAll, Logout
<1>12. ASSUME NEW r \in Requests, NEW s \in Sessions \cap Issued, ReadRefreshCache(r, s)
      PROVE  Stays
  BY <1>12 DEF ReadRefreshCache
<1>13. ASSUME NEW r \in Requests, LoadByRefresh(r)
      PROVE  Stays
  BY <1>13 DEF LoadByRefresh
<1>14. ASSUME NEW r \in Requests, SearchBulk(r)
      PROVE  Stays
  BY <1>14 DEF SearchBulk
<1>15. ASSUME NEW r \in Requests, SelectForSave(r)
      PROVE  Stays
  BY <1>15 DEF SelectForSave
<1>16. ASSUME NEW r \in Requests, UpdateRow(r)
      PROVE  Stays
  BY <1>16 DEF UpdateRow
<1>17. ASSUME NEW r \in Requests, ReinsertRow(r)
      PROVE  Stays
  BY <1>17 DEF ReinsertRow
<1>18. ASSUME NEW r \in Requests, Fail(r)
      PROVE  Stays
  BY <1>18 DEF Fail, Finished
<1>19. ASSUME NEW s \in Sessions, ExpireSession(s)
      PROVE  Stays
  BY <1>19 DEF ExpireSession
<1>20. ASSUME NEW s \in Sessions, ExpireRefreshKey(s)
      PROVE  Stays
  BY <1>20 DEF ExpireRefreshKey
<1>21. ASSUME NEW t \in Issuers, ExpireAccessKey(t)
      PROVE  Stays
  BY <1>21 DEF ExpireAccessKey
<1>22. CASE FindExpired
  BY <1>22 DEF FindExpired
<1>23. CASE DeleteExpired
  BY <1>23 DEF DeleteExpired
<1>24. CASE UNCHANGED vars
  BY <1>24 DEF vars
<1> QED BY <1>1, <1>2, <1>3, <1>4, <1>5, <1>6, <1>7, <1>8, <1>9, <1>10, <1>11, <1>12, <1>13, <1>14, <1>15, <1>16, <1>17, <1>18, <1>19, <1>20, <1>21, <1>22, <1>23, <1>24 DEF Next, Validate, Refresh

(* A logout records every refresh that holds a session it removes.          *)
LEMMA LogoutKeepsRaces ==
  ASSUME TypeOK, StepsByKind, RacesAreKnown, NEW S \in SUBSET Sessions, Logout(S),
         \A q \in Sessions : Refreshing(q)' = Refreshing(q),
         \A q \in Sessions : RacedWriter(q) => RacedWriter(q)'
  PROVE  RacesAreKnown'
<1> DEFINE removed == {q \in S : rows[q] # NoSession}
<1>1. /\ removed \in SUBSET Sessions
      /\ rows' = [q \in Sessions |-> IF q \in removed THEN NoSession ELSE rows[q]]
      /\ deleted' = deleted \cup removed
      /\ raced' = raced \cup UNION {Refreshing(q) : q \in removed}
  BY DEF Logout, RowsWithout
<1> HIDE DEF removed
<1>2. \A x \in raced' : Kind[x] = "refresh"
  <2>1. \A q \in Sessions : \A x \in Refreshing(q) : Kind[x] = "refresh"
    BY StepFacts DEF Refreshing
  <2> QED BY <1>1, <2>1 DEF RacesAreKnown
<1>3. ASSUME NEW q \in removed
      PROVE  rows'[q] = NoSession /\ Refreshing(q)' \ raced' = {}
  BY <1>1
<1>4. ASSUME NEW q \in deleted, q \notin removed,
             rows'[q] # NoSession \/ Refreshing(q)' \ raced' # {}
      PROVE  RacedWriter(q)'
  <2>1. q \in Sessions /\ rows'[q] = rows[q] /\ raced \subseteq raced'
    BY <1>1, <1>4 DEF TypeOK
  <2> QED BY <1>4, <2>1 DEF RacesAreKnown
<1> QED BY <1>1, <1>2, <1>3, <1>4 DEF RacesAreKnown

(* A deleted session comes back, or is about to, only by a raced refresh.   *)
LEMMA NextRacesAreKnown ==
  ASSUME TypeOK, StepsByKind, KnownSessions, RacesAreKnown, [Next]_vars
  PROVE  RacesAreKnown'
<1>0. \A q \in Sessions : RacedWriter(q) => RacedWriter(q)'
  BY RacedWritersStay
<1> DEFINE Suspect(q) == rows[q] # NoSession \/ Refreshing(q) \ raced # {}
<1>a. \A q \in deleted : Suspect(q) => RacedWriter(q)
  BY DEF RacesAreKnown
<1>b. deleted \subseteq Sessions /\ \A x \in raced : Kind[x] = "refresh"
  BY DEF TypeOK, RacesAreKnown
<1>c. ASSUME raced' = raced, deleted' = deleted,
             \A q \in deleted : Suspect(q)' => Suspect(q)
      PROVE  RacesAreKnown'
  BY <1>0, <1>a, <1>b, <1>c DEF RacesAreKnown
<1> USE <1>b, <1>c, KindFacts, StepFacts DEF TypeOK, Refreshing, Step, histVars, rowVars, cacheVars
<1>1. ASSUME NEW r \in Requests, InsertSession(r)
      PROVE  RacesAreKnown'
  <2>1. r \notin deleted
    BY <1>1 DEF InsertSession, KnownSessions
  <2> QED BY <1>1, <2>1 DEF InsertSession
<1>2. ASSUME NEW r \in Requests, CacheAccess(r)
      PROVE  RacesAreKnown'
  BY <1>2 DEF CacheAccess
<1>3. ASSUME NEW r \in Requests, CacheRefresh(r)
      PROVE  RacesAreKnown'
  BY <1>3 DEF CacheRefresh
<1>4. ASSUME NEW r \in Requests, NEW t \in Issued, ReadAccessCache(r, t)
      PROVE  RacesAreKnown'
  BY <1>4 DEF ReadAccessCache
<1>5. ASSUME NEW r \in Requests, LoadCached(r)
      PROVE  RacesAreKnown'
  BY <1>5 DEF LoadCached, Endpoints
<1>6. ASSUME NEW r \in Requests, InvalidateAccess(r)
      PROVE  RacesAreKnown'
  BY <1>6 DEF InvalidateAccess
<1>7. ASSUME NEW r \in Requests, SearchRecent(r)
      PROVE  RacesAreKnown'
  BY <1>7 DEF SearchRecent
<1>8. ASSUME NEW r \in Requests, Recache(r)
      PROVE  RacesAreKnown'
  BY <1>8 DEF Recache, Endpoints
<1>9. ASSUME NEW r \in Requests, NEW s \in Sessions, FindOwn(r, s)
      PROVE  RacesAreKnown'
  BY <1>9 DEF FindOwn
<1>10. ASSUME NEW r \in Requests, DeleteRow(r)
      PROVE  RacesAreKnown'
  <2>1. \A q \in Sessions : Refreshing(q)' = Refreshing(q)
    BY <1>10 DEF DeleteRow
  <2>2. {sess[r]} \in SUBSET Sessions /\ Logout({sess[r]})
    BY <1>10 DEF DeleteRow
  <2> QED BY <1>0, <2>1, <2>2, LogoutKeepsRaces
<1>11. ASSUME NEW r \in Requests, DeleteAll(r)
      PROVE  RacesAreKnown'
  <2>1. \A q \in Sessions : Refreshing(q)' = Refreshing(q)
    BY <1>11 DEF DeleteAll
  <2>2. Logout({s \in Sessions : UserOf[s] = User(r)})
    BY <1>11 DEF DeleteAll
  <2> QED BY <1>0, <2>1, <2>2, LogoutKeepsRaces
<1>12. ASSUME NEW r \in Requests, NEW s \in Sessions \cap Issued, ReadRefreshCache(r, s)
      PROVE  RacesAreKnown'
  BY <1>12 DEF ReadRefreshCache
<1>13. ASSUME NEW r \in Requests, LoadByRefresh(r)
      PROVE  RacesAreKnown'
  <2>1. \A q \in deleted : Refreshing(q)' # Refreshing(q) => rows[q] # NoSession
    BY <1>13 DEF LoadByRefresh, Live
  <2> QED BY <1>13, <2>1 DEF LoadByRefresh
<1>14. ASSUME NEW r \in Requests, SearchBulk(r)
      PROVE  RacesAreKnown'
  <2>1. \A q \in deleted : Refreshing(q)' # Refreshing(q) => rows[q] # NoSession
    BY <1>14 DEF SearchBulk, Live
  <2> QED BY <1>14, <2>1 DEF SearchBulk
<1>15. ASSUME NEW r \in Requests, SelectForSave(r)
      PROVE  RacesAreKnown'
  BY <1>15 DEF SelectForSave
<1>16. ASSUME NEW r \in Requests, UpdateRow(r)
      PROVE  RacesAreKnown'
  BY <1>16 DEF UpdateRow
<1>17. ASSUME NEW r \in Requests, ReinsertRow(r)
      PROVE  RacesAreKnown'
  <2>1. \A q \in deleted : q # sess[r] => (Suspect(q)' => Suspect(q))
    BY <1>17 DEF ReinsertRow
  <2>2. CASE rows[sess[r]] = NoSession /\ r \in raced
    <3>1. RacedWriter(sess[r])'
      BY <1>17, <2>2 DEF ReinsertRow, RacedWriter
    <3> QED BY <1>0, <1>17, <1>a, <2>1, <3>1 DEF ReinsertRow, RacesAreKnown
  <2>3. CASE rows[sess[r]] # NoSession \/ r \notin raced
    <3>1. Suspect(sess[r])
      BY <1>17, <2>3 DEF ReinsertRow
    <3> QED BY <1>17, <2>1, <3>1 DEF ReinsertRow
  <2> QED BY <2>2, <2>3
<1>18. ASSUME NEW r \in Requests, Fail(r)
      PROVE  RacesAreKnown'
  BY <1>18 DEF Fail, Finished
<1>19. ASSUME NEW s \in Sessions, ExpireSession(s)
      PROVE  RacesAreKnown'
  BY <1>19 DEF ExpireSession
<1>20. ASSUME NEW s \in Sessions, ExpireRefreshKey(s)
      PROVE  RacesAreKnown'
  BY <1>20 DEF ExpireRefreshKey
<1>21. ASSUME NEW t \in Issuers, ExpireAccessKey(t)
      PROVE  RacesAreKnown'
  BY <1>21 DEF ExpireAccessKey
<1>22. CASE FindExpired
  BY <1>22 DEF FindExpired
<1>23. CASE DeleteExpired
  BY <1>23 DEF DeleteExpired, RowsWithout
<1>24. CASE UNCHANGED vars
  BY <1>24 DEF vars
<1> QED BY <1>1, <1>2, <1>3, <1>4, <1>5, <1>6, <1>7, <1>8, <1>9, <1>10, <1>11, <1>12, <1>13, <1>14, <1>15, <1>16, <1>17, <1>18, <1>19, <1>20, <1>21, <1>22, <1>23, <1>24 DEF Next, Validate, Refresh

-----------------------------------------------------------------------------
(* Why tokens are turned down.  First what one step does to a token, a row, *)
(* a key and a guarded request.                                             *)

Answering == {"cacheAccess", "cacheRefresh", "done", "failed"}

(* x has written its row, or will not any more: it keeps its session.       *)
SessionKept(x) ==
  pc[x] \in Answering =>
    /\ sess'[x] = sess[x] /\ pc'[x] \in Answering
    /\ pc[x] \in {"cacheRefresh", "done", "failed"} => pc'[x] \in {"cacheRefresh", "done", "failed"}

(* A row keeps its token, is deleted, or takes that of a request working on it. *)
RowMoves(s) ==
  \/ rows'[s] \in {rows[s], NoSession}
  \/ \E x \in Issuers : /\ pc[x] \in {"new", "update", "insert"} /\ pc'[x] = "cacheAccess"
                        /\ sess'[x] = s /\ rows'[s] = x

(* A key stays, goes, is set by its token's request or by a validation.     *)
KeyMoves(x) ==
  \/ /\ accessCache'[x] = accessCache[x]
     /\ pc'[x] \in {"cacheRefresh", "done"} => pc[x] \in {"cacheRefresh", "done"}
  \/ /\ accessCache'[x] = NoSession /\ pc'[x] = pc[x]
     /\ x \in lapsed' \/ \E g \in Guarded : pc[g] = "invalidate" /\ token[g] = x
  \/ /\ pc[x] = "cacheAccess" /\ pc'[x] \in {"cacheRefresh", "done"}
     /\ accessCache'[x] = sess[x] /\ sess[x] \in Sessions
  \/ /\ pc'[x] = pc[x]
     /\ \E g \in Guarded : /\ pc[g] = "recache" /\ token[g] = x
                           /\ accessCache'[x] = sess[g] /\ sess[g] \in Sessions

(* Only a guarded request's own steps move it.                              *)
GuardMoves(x) ==
  \/ pc'[x] = pc[x] /\ token'[x] = token[x] /\ sess'[x] = sess[x]
  \/ pc'[x] \in {"done", "findOwn", "deleteRow", "deleteAll", "failed"}
  \/ \E t \in Issued : ReadAccessCache(x, t)
  \/ LoadCached(x) \/ InvalidateAccess(x) \/ SearchRecent(x)

(* A row's created_at is final.                                             *)
RankKept(s) ==
  /\ pc[s] # "new" => createdAt'[s] = createdAt[s]
  /\ pc'[s] = "new" => createdAt'[s] = createdAt[s] /\ pc[s] = "new"

LEMMA SessionsKept ==
  ASSUME TypeOK, StepsByKind, [Next]_vars, NEW x \in Issuers
  PROVE  SessionKept(x)
<1> USE KindFacts, StepFacts DEF TypeOK, Step, rowVars, cacheVars, histVars, Answering
<1>1. ASSUME NEW r \in Requests, InsertSession(r) \/ UpdateRow(r) \/ ReinsertRow(r)
      PROVE  SessionKept(x)
  BY <1>1 DEF SessionKept, InsertSession, UpdateRow, ReinsertRow
<1>2. ASSUME NEW r \in Requests, CacheAccess(r) \/ CacheRefresh(r) \/ Recache(r)
      PROVE  SessionKept(x)
  BY <1>2 DEF SessionKept, CacheAccess, CacheRefresh, Recache, Endpoints
<1>3. ASSUME NEW r \in Requests, LoadCached(r) \/ SearchRecent(r) \/ InvalidateAccess(r)
      PROVE  SessionKept(x)
  BY <1>3 DEF SessionKept, LoadCached, SearchRecent, InvalidateAccess, Endpoints
<1>4. ASSUME NEW r \in Requests, NEW t \in Issued, ReadAccessCache(r, t)
      PROVE  SessionKept(x)
  BY <1>4 DEF SessionKept, ReadAccessCache, Issued
<1>5. ASSUME NEW r \in Requests, NEW s \in Sessions, FindOwn(r, s)
      PROVE  SessionKept(x)
  BY <1>5 DEF SessionKept, FindOwn
<1>6. ASSUME NEW r \in Requests, DeleteRow(r) \/ DeleteAll(r)
      PROVE  SessionKept(x)
  BY <1>6 DEF SessionKept, DeleteRow, DeleteAll, Logout, RowsWithout
<1>7. ASSUME NEW r \in Requests, NEW s \in Sessions \cap Issued, ReadRefreshCache(r, s)
      PROVE  SessionKept(x)
  BY <1>7 DEF SessionKept, ReadRefreshCache
<1>8. ASSUME NEW r \in Requests, LoadByRefresh(r) \/ SearchBulk(r) \/ SelectForSave(r)
      PROVE  SessionKept(x)
  BY <1>8 DEF SessionKept, LoadByRefresh, SearchBulk, SelectForSave
<1>9. ASSUME NEW r \in Requests, Fail(r)
      PROVE  SessionKept(x)
  BY <1>9 DEF SessionKept, Fail, Finished
<1>10. ASSUME NEW s \in Sessions, ExpireSession(s) \/ ExpireRefreshKey(s)
      PROVE  SessionKept(x)
  BY <1>10 DEF SessionKept, ExpireSession, ExpireRefreshKey, Lapse
<1>11. ASSUME NEW t \in Issuers, ExpireAccessKey(t)
      PROVE  SessionKept(x)
  BY <1>11 DEF SessionKept, ExpireAccessKey, Lapse
<1>12. CASE FindExpired \/ DeleteExpired \/ UNCHANGED vars
  BY <1>12 DEF SessionKept, FindExpired, DeleteExpired, RowsWithout, vars
<1> QED BY <1>1, <1>2, <1>3, <1>4, <1>5, <1>6, <1>7, <1>8, <1>9, <1>10, <1>11, <1>12 DEF Next, Validate, Refresh

LEMMA RowsMove ==
  ASSUME TypeOK, StepsByKind, [Next]_vars, NEW q \in Sessions
  PROVE  RowMoves(q)
<1> USE KindFacts, StepFacts DEF TypeOK, Step, rowVars, cacheVars, histVars
<1>1. ASSUME NEW r \in Requests, InsertSession(r) \/ UpdateRow(r) \/ ReinsertRow(r)
      PROVE  RowMoves(q)
  BY <1>1 DEF RowMoves, InsertSession, UpdateRow, ReinsertRow
<1>2. ASSUME NEW r \in Requests, CacheAccess(r) \/ CacheRefresh(r) \/ Recache(r)
      PROVE  RowMoves(q)
  BY <1>2 DEF RowMoves, CacheAccess, CacheRefresh, Recache, Endpoints
<1>3. ASSUME NEW r \in Requests, LoadCached(r) \/ SearchRecent(r) \/ InvalidateAccess(r)
      PROVE  RowMoves(q)
  BY <1>3 DEF RowMoves, LoadCached, SearchRecent, InvalidateAccess, Endpoints
<1>4. ASSUME NEW r \in Requests, NEW t \in Issued, ReadAccessCache(r, t)
      PROVE  RowMoves(q)
  BY <1>4 DEF RowMoves, ReadAccessCache, Issued
<1>5. ASSUME NEW r \in Requests, NEW s \in Sessions, FindOwn(r, s)
      PROVE  RowMoves(q)
  BY <1>5 DEF RowMoves, FindOwn
<1>6. ASSUME NEW r \in Requests, DeleteRow(r) \/ DeleteAll(r)
      PROVE  RowMoves(q)
  BY <1>6 DEF RowMoves, DeleteRow, DeleteAll, Logout, RowsWithout
<1>7. ASSUME NEW r \in Requests, NEW s \in Sessions \cap Issued, ReadRefreshCache(r, s)
      PROVE  RowMoves(q)
  BY <1>7 DEF RowMoves, ReadRefreshCache
<1>8. ASSUME NEW r \in Requests, LoadByRefresh(r) \/ SearchBulk(r) \/ SelectForSave(r)
      PROVE  RowMoves(q)
  BY <1>8 DEF RowMoves, LoadByRefresh, SearchBulk, SelectForSave
<1>9. ASSUME NEW r \in Requests, Fail(r)
      PROVE  RowMoves(q)
  BY <1>9 DEF RowMoves, Fail, Finished
<1>10. ASSUME NEW s \in Sessions, ExpireSession(s) \/ ExpireRefreshKey(s)
      PROVE  RowMoves(q)
  BY <1>10 DEF RowMoves, ExpireSession, ExpireRefreshKey, Lapse
<1>11. ASSUME NEW t \in Issuers, ExpireAccessKey(t)
      PROVE  RowMoves(q)
  BY <1>11 DEF RowMoves, ExpireAccessKey, Lapse
<1>12. CASE FindExpired \/ DeleteExpired \/ UNCHANGED vars
  BY <1>12 DEF RowMoves, FindExpired, DeleteExpired, RowsWithout, vars
<1> QED BY <1>1, <1>2, <1>3, <1>4, <1>5, <1>6, <1>7, <1>8, <1>9, <1>10, <1>11, <1>12 DEF Next, Validate, Refresh

LEMMA KeysMove ==
  ASSUME TypeOK, StepsByKind, [Next]_vars, NEW x \in Issuers
  PROVE  KeyMoves(x)
<1> USE KindFacts, StepFacts DEF TypeOK, Step, rowVars, cacheVars, histVars
<1>1. ASSUME NEW r \in Requests, InsertSession(r) \/ UpdateRow(r) \/ ReinsertRow(r)
      PROVE  KeyMoves(x)
  BY <1>1 DEF KeyMoves, InsertSession, UpdateRow, ReinsertRow
<1>2. ASSUME NEW r \in Requests, CacheAccess(r) \/ CacheRefresh(r) \/ Recache(r)
      PROVE  KeyMoves(x)
  BY <1>2 DEF KeyMoves, CacheAccess, CacheRefresh, Recache, Endpoints
<1>3. ASSUME NEW r \in Requests, LoadCached(r) \/ SearchRecent(r) \/ InvalidateAccess(r)
      PROVE  KeyMoves(x)
  BY <1>3 DEF KeyMoves, LoadCached, SearchRecent, InvalidateAccess, Endpoints
<1>4. ASSUME NEW r \in Requests, NEW t \in Issued, ReadAccessCache(r, t)
      PROVE  KeyMoves(x)
  BY <1>4 DEF KeyMoves, ReadAccessCache, Issued
<1>5. ASSUME NEW r \in Requests, NEW s \in Sessions, FindOwn(r, s)
      PROVE  KeyMoves(x)
  BY <1>5 DEF KeyMoves, FindOwn
<1>6. ASSUME NEW r \in Requests, DeleteRow(r) \/ DeleteAll(r)
      PROVE  KeyMoves(x)
  BY <1>6 DEF KeyMoves, DeleteRow, DeleteAll, Logout, RowsWithout
<1>7. ASSUME NEW r \in Requests, NEW s \in Sessions \cap Issued, ReadRefreshCache(r, s)
      PROVE  KeyMoves(x)
  BY <1>7 DEF KeyMoves, ReadRefreshCache
<1>8. ASSUME NEW r \in Requests, LoadByRefresh(r) \/ SearchBulk(r) \/ SelectForSave(r)
      PROVE  KeyMoves(x)
  BY <1>8 DEF KeyMoves, LoadByRefresh, SearchBulk, SelectForSave
<1>9. ASSUME NEW r \in Requests, Fail(r)
      PROVE  KeyMoves(x)
  BY <1>9 DEF KeyMoves, Fail, Finished
<1>10. ASSUME NEW s \in Sessions, ExpireSession(s) \/ ExpireRefreshKey(s)
      PROVE  KeyMoves(x)
  BY <1>10 DEF KeyMoves, ExpireSession, ExpireRefreshKey, Lapse
<1>11. ASSUME NEW t \in Issuers, ExpireAccessKey(t)
      PROVE  KeyMoves(x)
  BY <1>11 DEF KeyMoves, ExpireAccessKey, Lapse
<1>12. CASE FindExpired \/ DeleteExpired \/ UNCHANGED vars
  BY <1>12 DEF KeyMoves, FindExpired, DeleteExpired, RowsWithout, vars
<1> QED BY <1>1, <1>2, <1>3, <1>4, <1>5, <1>6, <1>7, <1>8, <1>9, <1>10, <1>11, <1>12 DEF Next, Validate, Refresh

LEMMA GuardsMove ==
  ASSUME TypeOK, StepsByKind, [Next]_vars, NEW x \in Guarded
  PROVE  GuardMoves(x)
<1> USE KindFacts, StepFacts DEF TypeOK, Step, rowVars, cacheVars, histVars
<1>1. ASSUME NEW r \in Requests, InsertSession(r) \/ UpdateRow(r) \/ ReinsertRow(r)
      PROVE  GuardMoves(x)
  BY <1>1 DEF GuardMoves, InsertSession, UpdateRow, ReinsertRow
<1>2. ASSUME NEW r \in Requests, CacheAccess(r) \/ CacheRefresh(r) \/ Recache(r)
      PROVE  GuardMoves(x)
  BY <1>2 DEF GuardMoves, CacheAccess, CacheRefresh, Recache, Endpoints
<1>3. ASSUME NEW r \in Requests, LoadCached(r) \/ SearchRecent(r) \/ InvalidateAccess(r)
      PROVE  GuardMoves(x)
  <2>1. CASE r = x
    BY <1>3, <2>1 DEF GuardMoves
  <2>2. CASE r # x
    BY <1>3, <2>2 DEF GuardMoves, LoadCached, SearchRecent, InvalidateAccess, Endpoints
  <2> QED BY <2>1, <2>2
<1>4. ASSUME NEW r \in Requests, NEW t \in Issued, ReadAccessCache(r, t)
      PROVE  GuardMoves(x)
  <2>1. CASE r = x
    BY <1>4, <2>1 DEF GuardMoves
  <2>2. CASE r # x
    BY <1>4, <2>2 DEF GuardMoves, ReadAccessCache, Issued
  <2> QED BY <2>1, <2>2
<1>5. ASSUME NEW r \in Requests, NEW s \in Sessions, FindOwn(r, s)
      PROVE  GuardMoves(x)
  BY <1>5 DEF GuardMoves, FindOwn
<1>6. ASSUME NEW r \in Requests, DeleteRow(r) \/ DeleteAll(r)
      PROVE  GuardMoves(x)
  BY <1>6 DEF GuardMoves, DeleteRow, DeleteAll, Logout, RowsWithout
<1>7. ASSUME NEW r \in Requests, NEW s \in Sessions \cap Issued, ReadRefreshCache(r, s)
      PROVE  GuardMoves(x)
  BY <1>7 DEF GuardMoves, ReadRefreshCache
<1>8. ASSUME NEW r \in Requests, LoadByRefresh(r) \/ SearchBulk(r) \/ SelectForSave(r)
      PROVE  GuardMoves(x)
  BY <1>8 DEF GuardMoves, LoadByRefresh, SearchBulk, SelectForSave
<1>9. ASSUME NEW r \in Requests, Fail(r)
      PROVE  GuardMoves(x)
  BY <1>9 DEF GuardMoves, Fail, Finished
<1>10. ASSUME NEW s \in Sessions, ExpireSession(s) \/ ExpireRefreshKey(s)
      PROVE  GuardMoves(x)
  BY <1>10 DEF GuardMoves, ExpireSession, ExpireRefreshKey, Lapse
<1>11. ASSUME NEW t \in Issuers, ExpireAccessKey(t)
      PROVE  GuardMoves(x)
  BY <1>11 DEF GuardMoves, ExpireAccessKey, Lapse
<1>12. CASE FindExpired \/ DeleteExpired \/ UNCHANGED vars
  BY <1>12 DEF GuardMoves, FindExpired, DeleteExpired, RowsWithout, vars
<1> QED BY <1>1, <1>2, <1>3, <1>4, <1>5, <1>6, <1>7, <1>8, <1>9, <1>10, <1>11, <1>12 DEF Next, Validate, Refresh

LEMMA RanksKept ==
  ASSUME TypeOK, StepsByKind, [Next]_vars, NEW q \in Sessions
  PROVE  RankKept(q)
<1> USE KindFacts, StepFacts DEF TypeOK, Step, rowVars, cacheVars, histVars
<1>1. ASSUME NEW r \in Requests, InsertSession(r) \/ UpdateRow(r) \/ ReinsertRow(r)
      PROVE  RankKept(q)
  BY <1>1 DEF RankKept, InsertSession, UpdateRow, ReinsertRow
<1>2. ASSUME NEW r \in Requests, CacheAccess(r) \/ CacheRefresh(r) \/ Recache(r)
      PROVE  RankKept(q)
  BY <1>2 DEF RankKept, CacheAccess, CacheRefresh, Recache, Endpoints
<1>3. ASSUME NEW r \in Requests, LoadCached(r) \/ SearchRecent(r) \/ InvalidateAccess(r)
      PROVE  RankKept(q)
  BY <1>3 DEF RankKept, LoadCached, SearchRecent, InvalidateAccess, Endpoints
<1>4. ASSUME NEW r \in Requests, NEW t \in Issued, ReadAccessCache(r, t)
      PROVE  RankKept(q)
  BY <1>4 DEF RankKept, ReadAccessCache, Issued
<1>5. ASSUME NEW r \in Requests, NEW s \in Sessions, FindOwn(r, s)
      PROVE  RankKept(q)
  BY <1>5 DEF RankKept, FindOwn
<1>6. ASSUME NEW r \in Requests, DeleteRow(r) \/ DeleteAll(r)
      PROVE  RankKept(q)
  BY <1>6 DEF RankKept, DeleteRow, DeleteAll, Logout, RowsWithout
<1>7. ASSUME NEW r \in Requests, NEW s \in Sessions \cap Issued, ReadRefreshCache(r, s)
      PROVE  RankKept(q)
  BY <1>7 DEF RankKept, ReadRefreshCache
<1>8. ASSUME NEW r \in Requests, LoadByRefresh(r) \/ SearchBulk(r) \/ SelectForSave(r)
      PROVE  RankKept(q)
  BY <1>8 DEF RankKept, LoadByRefresh, SearchBulk, SelectForSave
<1>9. ASSUME NEW r \in Requests, Fail(r)
      PROVE  RankKept(q)
  BY <1>9 DEF RankKept, Fail, Finished
<1>10. ASSUME NEW s \in Sessions, ExpireSession(s) \/ ExpireRefreshKey(s)
      PROVE  RankKept(q)
  BY <1>10 DEF RankKept, ExpireSession, ExpireRefreshKey, Lapse
<1>11. ASSUME NEW t \in Issuers, ExpireAccessKey(t)
      PROVE  RankKept(q)
  BY <1>11 DEF RankKept, ExpireAccessKey, Lapse
<1>12. CASE FindExpired \/ DeleteExpired \/ UNCHANGED vars
  BY <1>12 DEF RankKept, FindExpired, DeleteExpired, RowsWithout, vars
<1> QED BY <1>1, <1>2, <1>3, <1>4, <1>5, <1>6, <1>7, <1>8, <1>9, <1>10, <1>11, <1>12 DEF Next, Validate, Refresh

(* Facts about the tokens in use: whose they are, and that they stay lost.  *)
LEMMA LostStaysLost ==
  ASSUME TypeOK, StepsByKind, [Next]_vars, NEW t \in Issuers, pc[t] \in Answering, Outdated(t),
         sess[t] \in Sessions
  PROVE  Outdated(t)'
<1>1. sess'[t] = sess[t]
  BY SessionsKept DEF SessionKept
<1>2. rows'[sess[t]] # t
  BY RowsMove, KindFacts DEF RowMoves, Outdated, Answering
<1> QED BY <1>1, <1>2 DEF Outdated

LEMMA NextTokensKnow ==
  ASSUME TypeOK, StepsByKind, TokensKnowTheirSession, SearchedForCause, [Next]_vars
  PROVE  TokensKnowTheirSession'
<1>1. ASSUME NEW s \in Sessions, rows'[s] # NoSession
      PROVE  /\ sess'[rows'[s]] = s
             /\ pc'[rows'[s]] \in {"cacheAccess", "cacheRefresh", "done", "failed"}
  <2>1. CASE rows'[s] = rows[s]
    <3>1. rows[s] \in Issuers /\ sess[rows[s]] = s /\ pc[rows[s]] \in Answering
      BY <1>1, <2>1 DEF TokensKnowTheirSession, TypeOK, Answering
    <3> QED BY <2>1, <3>1, SessionsKept DEF SessionKept, Answering
  <2>2. CASE \E x \in Issuers : pc'[x] = "cacheAccess" /\ sess'[x] = s /\ rows'[s] = x
    BY <2>2
  <2> QED BY <1>1, <2>1, <2>2, RowsMove DEF RowMoves
<1>2. ASSUME NEW t \in Issuers, accessCache'[t] # NoSession
      PROVE  accessCache'[t] = sess'[t] /\ pc'[t] \in {"cacheRefresh", "done", "failed"}
  <2>1. CASE accessCache'[t] = accessCache[t]
    <3>1. accessCache[t] = sess[t] /\ pc[t] \in {"cacheRefresh", "done", "failed"}
      BY <1>2, <2>1 DEF TokensKnowTheirSession
    <3> QED BY <2>1, <3>1, SessionsKept DEF SessionKept, Answering
  <2>2. CASE pc[t] = "cacheAccess" /\ pc'[t] \in {"cacheRefresh", "done"} /\ accessCache'[t] = sess[t]
    BY <2>2, SessionsKept DEF SessionKept, Answering
  <2>3. ASSUME NEW g \in Guarded, pc[g] = "recache", token[g] = t, accessCache'[t] = sess[g]
        PROVE  accessCache'[t] = sess'[t] /\ pc'[t] \in {"cacheRefresh", "done", "failed"}
    <3>1. sess[g] = sess[t]
      BY <2>3 DEF SearchedForCause
    <3>2. pc[t] = "done"
      BY <2>3, PresentedTokens
    <3> QED BY <2>3, <3>1, <3>2, SessionsKept DEF SessionKept, Answering
  <2> QED BY <1>2, <2>1, <2>2, <2>3, KeysMove DEF KeyMoves
<1>3. ASSUME NEW s \in Sessions, pc'[s] = "new"
      PROVE  createdAt'[s] = 0
  BY <1>3, RanksKept DEF RankKept, TokensKnowTheirSession
<1> QED BY <1>1, <1>2, <1>3 DEF TokensKnowTheirSession

(* A token that can be presented, or soon can, has a session of its own.    *)
LEMMA TokensHaveSessions ==
  ASSUME TypeOK, StepsByKind, HaveSessions, NEW t \in Issuers, pc[t] \in {"cacheRefresh", "done"}
  PROVE  sess[t] \in Sessions /\ pc[t] \in Answering
  BY DEF HaveSessions, Answering

LEMMA LapsesGrow ==
  ASSUME [Next]_vars
  PROVE  lapsed \subseteq lapsed' /\ expired \subseteq expired'
<1> USE DEF rowVars, cacheVars, histVars, budgetVars
<1>1. ASSUME NEW r \in Requests,
             \/ InsertSession(r) \/ CacheAccess(r) \/ CacheRefresh(r) \/ Validate(r)
             \/ \E s \in Sessions : FindOwn(r, s)
             \/ DeleteRow(r) \/ DeleteAll(r) \/ Refresh(r) \/ Fail(r)
      PROVE  lapsed' = lapsed /\ expired' = expired
  BY <1>1 DEF InsertSession, CacheAccess, CacheRefresh, Validate, ReadAccessCache, LoadCached,
              InvalidateAccess, SearchRecent, Recache, FindOwn, DeleteRow, DeleteAll, Logout, Refresh,
              ReadRefreshCache, LoadByRefresh, SearchBulk, SelectForSave, UpdateRow, ReinsertRow, Fail
<1>2. CASE \E s \in Sessions : ExpireSession(s) \/ ExpireRefreshKey(s)
  BY <1>2 DEF ExpireSession, ExpireRefreshKey
<1>3. CASE \E t \in Issuers : ExpireAccessKey(t)
  BY <1>3 DEF ExpireAccessKey
<1>4. CASE FindExpired \/ DeleteExpired \/ UNCHANGED vars
  BY <1>4 DEF FindExpired, DeleteExpired, vars
<1> QED BY <1>1, <1>2, <1>3, <1>4 DEF Next

LEMMA NextHaveSessions ==
  ASSUME TypeOK, StepsByKind, HaveSessions, [Next]_vars
  PROVE  HaveSessions'
<1> SUFFICES ASSUME NEW t \in Issuers, pc'[t] \in {"cacheRefresh", "done"}
             PROVE  sess'[t] \in Sessions
  BY DEF HaveSessions
<1>1. CASE pc[t] \in {"cacheRefresh", "done"}
  BY <1>1, SessionsKept DEF HaveSessions, SessionKept, Answering
<1>2. CASE pc[t] = "cacheAccess"
  <2>1. sess[t] \in Sessions
    BY <1>2, KindFacts, StepFacts
  <2> QED BY <1>2, <2>1, SessionsKept DEF SessionKept, Answering
<1> QED BY <1>1, <1>2, KeysMove DEF KeyMoves

(* An answered token loses its key only with cause, and does not regain it. *)
LEMMA NextUncachedForCause ==
  ASSUME TypeOK, StepsByKind, HaveSessions, TokensKnowTheirSession, UncachedForCause,
         SearchedForCause, [Next]_vars
  PROVE  UncachedForCause'
<1> SUFFICES ASSUME NEW t \in Issuers, pc'[t] \in {"cacheRefresh", "done"}
             PROVE  accessCache'[t] # NoSession \/ t \in lapsed' \/ Outdated(t)'
  BY DEF UncachedForCause
<1>1. CASE pc[t] \in {"cacheRefresh", "done"}
  <2>1. sess[t] \in Sessions /\ pc[t] \in Answering
    BY <1>1, TokensHaveSessions
  <2>2. accessCache[t] # NoSession \/ t \in lapsed \/ Outdated(t)
    BY <1>1 DEF UncachedForCause
  <2>3. Outdated(t) => Outdated(t)'
    BY <2>1, LostStaysLost
  <2>4. t \in lapsed => t \in lapsed'
    BY LapsesGrow
  <2>5. ASSUME NEW g \in Guarded, pc[g] = "invalidate", token[g] = t
        PROVE  Outdated(t)
    BY <2>5 DEF SearchedForCause
  <2>6. accessCache[t] # NoSession /\ accessCache'[t] = NoSession => t \in lapsed' \/ Outdated(t)
    BY <1>1, <2>1, <2>5, KeysMove, KindFacts DEF KeyMoves
  <2> QED BY <2>2, <2>3, <2>4, <2>6
<1>2. CASE pc[t] \notin {"cacheRefresh", "done"}
  BY <1>2, KeysMove, KindFacts DEF KeyMoves
<1> QED BY <1>1, <1>2

(* How a guarded request came to search, to compare or to store a key.      *)
LEMMA NextSearchedForCause ==
  ASSUME TypeOK, StepsByKind, HaveSessions, TokensKnowTheirSession, UncachedForCause,
         SearchedForCause, [Next]_vars
  PROVE  SearchedForCause'
<1> DEFINE Cause(g, t) ==
             /\ pc'[g] \in {"load", "invalidate", "recache"} => sess'[g] = sess'[t]
             /\ pc'[g] = "invalidate" => rows'[sess'[t]] # t
             /\ pc'[g] = "search" => t \in lapsed' \/ rows'[sess'[t]] # t \/ sess'[t] \in expired'
<1> SUFFICES ASSUME NEW g \in Guarded, pc'[g] \in {"load", "invalidate", "recache", "search"}
             PROVE  Cause(g, token'[g])
  <2>1. \A g \in Guarded : Cause(g, token'[g])
    OBVIOUS
  <2> QED BY <2>1 DEF SearchedForCause, Outdated
<1>1. PICK t \in Issuers : t = token'[g] /\ pc[t] = "done"
  <2>1. CASE pc[g] = "new"
    <3>1. PICK u \in Issued : ReadAccessCache(g, u)
      BY <2>1, GuardsMove DEF GuardMoves, LoadCached, InvalidateAccess, SearchRecent, Step
    <3> QED BY <3>1, KindFacts DEF ReadAccessCache, Issued, TypeOK
  <2>2. CASE pc[g] # "new"
    <3>1. token'[g] = token[g]
      BY <2>2, GuardsMove DEF GuardMoves, ReadAccessCache, LoadCached, InvalidateAccess, SearchRecent, Step
    <3> QED BY <2>2, <3>1, PresentedTokens
  <2> QED BY <2>1, <2>2
<1>2. /\ sess[t] \in Sessions /\ sess'[t] = sess[t] /\ (rows[sess[t]] # t => rows'[sess[t]] # t)
      /\ (t \in lapsed => t \in lapsed') /\ (sess[t] \in expired => sess[t] \in expired')
  <2>1. sess[t] \in Sessions /\ sess'[t] = sess[t]
    BY <1>1, TokensHaveSessions, SessionsKept DEF SessionKept
  <2>2. rows[sess[t]] # t => rows'[sess[t]] # t
    BY <1>1, <2>1, LostStaysLost, TokensHaveSessions DEF Outdated
  <2> QED BY <2>1, <2>2, LapsesGrow
<1>3. CASE pc'[g] = pc[g] /\ token'[g] = token[g] /\ sess'[g] = sess[g]
  <2>1. t = token[g]
    BY <1>1, <1>3
  <2>2. /\ pc[g] \in {"load", "invalidate", "recache"} => sess[g] = sess[t]
        /\ pc[g] = "invalidate" => rows[sess[t]] # t
        /\ pc[g] = "search" => t \in lapsed \/ rows[sess[t]] # t \/ sess[t] \in expired
    BY <2>1 DEF SearchedForCause, Outdated
  <2> QED BY <1>1, <1>2, <1>3, <2>1, <2>2
<1>4. ASSUME NEW u \in Issued, ReadAccessCache(g, u) PROVE
             /\ pc'[g] \in {"load", "search"} /\ (pc'[g] = "load" => sess'[g] = sess[t])
             /\ pc'[g] = "search" => t \in lapsed \/ Outdated(t)
  <2>1. t = u /\ sess'[g] = accessCache[t]
        /\ pc'[g] = IF accessCache[t] = NoSession THEN "search" ELSE "load"
    BY <1>1, <1>4, KindFacts DEF ReadAccessCache, Step, TypeOK
  <2> QED BY <1>1, <2>1 DEF TokensKnowTheirSession, UncachedForCause
<1>5. CASE LoadCached(g)
  <2>1. /\ pc[g] = "load" /\ t = token[g] /\ sess'[g] = sess[g]
        /\ pc'[g] \notin {"load", "recache"}
        /\ pc'[g] = "invalidate" => rows[sess[g]] # token[g]
        /\ pc'[g] = "search" => ~Live(sess[g])
    BY <1>1, <1>5, KindFacts DEF LoadCached, Endpoints, Step, TypeOK
  <2>2. sess[g] = sess[t]
    BY <2>1 DEF SearchedForCause
  <2>3. pc'[g] = "search" => Outdated(t) \/ sess[t] \in expired
    BY <1>1, <2>1, <2>2, KindFacts DEF Live, Outdated
  <2> QED BY <1>1, <1>2, <2>1, <2>2, <2>3 DEF Outdated
<1>6. CASE InvalidateAccess(g)
  <2>1. pc[g] = "invalidate" /\ t = token[g] /\ pc'[g] = "search"
    BY <1>1, <1>6, KindFacts DEF InvalidateAccess, Step, TypeOK
  <2> QED BY <1>1, <1>2, <2>1 DEF SearchedForCause, Outdated
<1>7. CASE SearchRecent(g)
  <2>1. /\ t = token[g] /\ pc'[g] \in {"rejected", "recache"}
        /\ pc'[g] = "recache" => sess'[g] \in Sessions /\ rows[sess'[g]] = t
    BY <1>1, <1>7, KindFacts DEF SearchRecent, Step, TypeOK
  <2>2. pc'[g] = "recache" => sess'[g] = sess[t]
    BY <1>1, <2>1, KindFacts DEF TokensKnowTheirSession
  <2> QED BY <1>1, <1>2, <2>1, <2>2
<1>8. ASSUME NEW u \in Issued, ReadAccessCache(g, u)
      PROVE  Cause(g, token'[g])
  BY <1>1, <1>2, <1>4, <1>8 DEF Outdated
<1> QED BY <1>3, <1>5, <1>6, <1>7, <1>8, GuardsMove DEF GuardMoves

(* The reasons of a rejection stand when it happens, and go on standing.    *)
LEMMA NextRejectedForCause ==
  ASSUME TypeOK, StepsByKind, KnownSessions, HaveSessions, TokensKnowTheirSession,
         SearchedForCause, RejectedForCause, [Next]_vars
  PROVE  RejectedForCause'
<1> SUFFICES ASSUME NEW g \in Guarded, pc'[g] = "rejected"
             PROVE  LET t == token'[g]
                        s == sess'[t]
                    IN  \/ rows'[s] # t
                        \/ s \in expired'
                        \/ /\ t \in lapsed'
                           /\ Cardinality({n \in Sessions : createdAt'[n] > createdAt'[s]}) >= RecentLimit
  BY DEF RejectedForCause, SessionOf
<1> DEFINE t == token[g]
           s == sess[t]
           newer == {n \in Sessions : createdAt[n] > createdAt[s]}
           newerNow == {n \in Sessions : createdAt'[n] > createdAt'[s]}
<1>1. /\ token'[g] = t /\ (pc[g] = "rejected" \/ SearchRecent(g)) /\ pc[g] # "new"
  BY GuardsMove, KindFacts
     DEF GuardMoves, ReadAccessCache, LoadCached, InvalidateAccess, SearchRecent, Endpoints, Step, TypeOK
<1>2. t \in Issuers /\ pc[t] = "done"
  BY <1>1, PresentedTokens
<1>3. /\ s \in Sessions /\ sess'[t] = s /\ (rows[s] # t => rows'[s] # t)
      /\ (t \in lapsed => t \in lapsed') /\ (s \in expired => s \in expired')
  <2>1. s \in Sessions /\ sess'[t] = s
    BY <1>2, TokensHaveSessions, SessionsKept DEF SessionKept
  <2>2. rows[s] # t => rows'[s] # t
    BY <1>2, <2>1, LostStaysLost, TokensHaveSessions DEF Outdated
  <2> QED BY <2>1, <2>2, LapsesGrow
<1>4. rows[s] # t \/ s \in expired \/ (t \in lapsed /\ Cardinality(newer) >= RecentLimit)
  <2>1. CASE pc[g] = "rejected"
    BY <2>1 DEF RejectedForCause, SessionOf
  <2>2. CASE SearchRecent(g)
    <3>1. pc[g] = "search"
      BY <2>2 DEF SearchRecent, Step
    <3>2. t \in lapsed \/ rows[s] # t \/ s \in expired
      BY <3>1 DEF SearchedForCause, Outdated
    <3>3. {q \in Sessions : /\ Live(q) /\ Cardinality(Newer(q)) < RecentLimit
                            /\ rows[q] = token[g]} = {}
      BY <2>2, KindFacts DEF SearchRecent, Step, TypeOK
    <3>4. CASE rows[s] = t /\ s \notin expired
      <4>1. Live(s)
        BY <1>2, <3>4, KindFacts DEF Live
      <4>2. ~(Cardinality(Newer(s)) < RecentLimit)
        BY <1>3, <3>3, <3>4, <4>1
      <4>3. IsFiniteSet(newer) /\ Newer(s) \subseteq newer /\ IsFiniteSet(Newer(s))
        <5>1. newer \subseteq Requests /\ Newer(s) \subseteq newer
          BY DEF Newer, Sessions
        <5> QED BY <5>1, RequestsAssumption, FS_Subset
      <4>4. /\ Cardinality(Newer(s)) \in Nat /\ Cardinality(newer) \in Nat
            /\ Cardinality(Newer(s)) <= Cardinality(newer)
        BY <4>3, FS_Subset, FS_CardinalityType
      <4>5. Cardinality(newer) >= RecentLimit
        BY <4>2, <4>4, LimitsAssumption
      <4> QED BY <3>2, <3>4, <4>5
    <3> QED BY <3>2, <3>4
  <2> QED BY <1>1, <2>1, <2>2
<1>5. CASE rows[s] # t \/ s \in expired
  BY <1>1, <1>3, <1>5
<1>6. CASE rows[s] = t /\ t \in lapsed /\ Cardinality(newer) >= RecentLimit
  <2>1. pc[s] # "new"
    BY <1>2, <1>3, <1>6, KindFacts DEF KnownSessions
  <2>2. createdAt'[s] = createdAt[s] /\ createdAt[s] \in Nat
    BY <1>3, <2>1, RanksKept DEF RankKept, TypeOK
  <2>3. \A n \in newer : n \in Sessions /\ createdAt'[n] = createdAt[n]
    <3> SUFFICES ASSUME NEW n \in newer PROVE createdAt'[n] = createdAt[n]
      OBVIOUS
    <3>1. pc[n] # "new"
      BY <2>2 DEF TokensKnowTheirSession
    <3> QED BY <3>1, RanksKept DEF RankKept
  <2>4. newer \subseteq newerNow
    BY <2>2, <2>3
  <2>5. IsFiniteSet(newerNow) /\ IsFiniteSet(newer)
    <3>1. newerNow \subseteq Requests /\ newer \subseteq Requests
      BY DEF Sessions
    <3> QED BY <3>1, RequestsAssumption, FS_Subset
  <2>6. /\ Cardinality(newer) \in Nat /\ Cardinality(newerNow) \in Nat
        /\ Cardinality(newer) <= Cardinality(newerNow)
    BY <2>4, <2>5, FS_Subset, FS_CardinalityType
  <2>7. Cardinality(newerNow) >= RecentLimit
    BY <1>6, <2>6, LimitsAssumption
  <2> QED BY <1>1, <1>3, <1>6, <2>7
<1> QED BY <1>4, <1>5, <1>6

-----------------------------------------------------------------------------
(* The strengthened invariant holds of every state of every run.            *)
LEMMA InitIInv == Init => IInv
<1> SUFFICES ASSUME Init PROVE IInv
  OBVIOUS
<1>1. TypeOK
  BY InitTypeOK
<1>2. StepsByKind
  BY KindFacts DEF Init, StepsByKind, PcsOf, Kinds
<1> QED BY <1>1, <1>2, KindFacts
        DEF Init, IInv, KnownSessions, NeverCurrentAgain, RacesAreKnown, NoStaleAdmission, Admitted,
            HaveSessions, TokensKnowTheirSession, UncachedForCause, SearchedForCause, RejectedForCause

LEMMA Invariance == Spec => []IInv
<1>1. ASSUME IInv, [Next]_vars PROVE IInv'
  BY <1>1, NextTypeOK, NextStepsByKind, NextKnownSessions, NextNeverCurrentAgain,
     NextRacesAreKnown, NextNoStaleAdmission, NextHaveSessions, NextTokensKnow,
     NextUncachedForCause, NextSearchedForCause, NextRejectedForCause DEF IInv
<1> QED BY InitIInv, <1>1, PTL DEF Spec

(* The state stays well formed in every run. *)
THEOREM TypeCorrect == Spec => []TypeOK
<1>1. IInv => TypeOK
  BY DEF IInv
<1> QED BY Invariance, <1>1, PTL

(* However logins, refreshes, logouts, validations and expiries interleave, *)
(* and whatever Redis keys are left behind, AuthGuard admits a request only *)
(* with a token that was its row's current one when the request began.      *)
THEOREM StaleTokensStayOut == Spec => []NoStaleAdmission
<1>1. IInv => NoStaleAdmission
  BY DEF IInv
<1> QED BY Invariance, <1>1, PTL

(* A token a client was given is turned down only because its row is gone,  *)
(* has a newer token or is expired, or because its key lapsed and as many   *)
(* newer sessions as the database search looks at stand before its row.     *)
THEOREM RejectionsHaveCause == Spec => []RejectedForCause
<1>1. IInv => RejectedForCause
  BY DEF IInv
<1> QED BY Invariance, <1>1, PTL

(* The one way back for a session that was logged out is a refresh that had *)
(* loaded its row before the logout: save inserts what delete removed.      *)
THEOREM RevivalNeedsRace == Spec => []OnlyRacedRefreshRevives
<1>1. IInv => OnlyRacedRefreshRevives
  BY DEF IInv, RacesAreKnown, RacedWriter, OnlyRacedRefreshRevives
<1> QED BY Invariance, <1>1, PTL
-----------------------------------------------------------------------------
(* SessionAuth implements SessionTable: each step is one of the table's or  *)
(* leaves the table alone.                                                  *)

(* A step's place in the table is told by where the request is. *)
LEMMA StageValues ==
  ASSUME NEW r \in Requests
  PROVE  /\ StageFor(r, "new") = "idle" /\ StageFor(r, "load") = "idle"
         /\ StageFor(r, "invalidate") = "idle" /\ StageFor(r, "search") = "idle"
         /\ StageFor(r, "loadRefresh") = "idle" /\ StageFor(r, "searchBulk") = "idle"
         /\ StageFor(r, "save") = "refreshing" /\ StageFor(r, "update") = "refreshing"
         /\ StageFor(r, "insert") = "refreshing"
         /\ StageFor(r, "cacheAccess") = "written" /\ StageFor(r, "cacheRefresh") = "written"
         /\ r \notin Guarded => StageFor(r, "done") = "answered"
         /\ r \in Guarded => StageFor(r, "done") = "admitted"
         /\ StageFor(r, "rejected") = "over" /\ StageFor(r, "failed") = "over"
         /\ StageFor(r, "recache") = "admitted" /\ StageFor(r, "findOwn") = "admitted"
         /\ StageFor(r, "deleteRow") = "admitted" /\ StageFor(r, "deleteAll") = "admitted"
  BY DEF StageFor

LEMMA TableRequests ==
  /\ Sessions \cup (Issuers \ Sessions) = Issuers
  /\ (Sessions \cup (Issuers \ Sessions)) \cup Guarded = Requests
  BY KindFacts DEF Kinds, Issuers, Guarded, Sessions

LEMMA TableInit == IInv /\ Init => Table!Init
<1> SUFFICES ASSUME IInv, Init
             PROVE  Table!Init
  OBVIOUS
<1>1. \A r \in Requests : Stage[r] = "idle"
  BY StageValues DEF Init, Stage
<1>2. Stage = [r \in Requests |-> "idle"]
  BY <1>1 DEF Stage
<1>3. Given = [t \in Issuers |-> NoSession]
  BY KindFacts DEF Init, Given
<1>4. Presented = [r \in Guarded |-> NoSession] /\ ActsFor = [r \in Guarded |-> NoSession]
  BY <1>1, KindFacts DEF Presented, ActsFor
<1> QED BY <1>2, <1>3, <1>4, TableRequests DEF Init, Table!Init, Table!Calls, Table!Tokens

(* A step of r moves r only. *)
LEMMA StageMoves ==
  ASSUME TypeOK, NEW r \in Requests, NEW from, NEW to \in Pcs, Step(r, from, to)
  PROVE  /\ pc[r] = from /\ pc'[r] = to
         /\ Stage[r] = StageFor(r, from)
         /\ Stage' = [Stage EXCEPT ![r] = StageFor(r, to)]
         /\ StageFor(r, to) = StageFor(r, from) => Stage' = Stage
         /\ \A q \in Requests \ {r} : Stage'[q] = Stage[q]
  BY DEF TypeOK, Stage, Step

LEMMA GuardedSteps ==
  ASSUME IInv, NEW r \in Requests, Validate(r) \/ \E s \in Sessions : FindOwn(r, s)
  PROVE  [Table!Next]_(Table!tableVars)
<1> USE KindFacts DEF IInv
<1>1. TypeOK /\ r \in Guarded
  BY StepFacts DEF Validate, ReadAccessCache, LoadCached, InvalidateAccess, SearchRecent, Recache, FindOwn, Step
<1>2. ASSUME Stage' = Stage, rows' = rows, expired' = expired,
             Stage[r] = "admitted" => User(r)' = User(r) /\ token'[r] = token[r],
             \A q \in Requests \ {r} : sess'[q] = sess[q] /\ token'[q] = token[q]
      PROVE  UNCHANGED Table!tableVars
  <2>1. Given' = Given
    BY <1>1, <1>2 DEF Given
  <2>2. Presented' = Presented
    BY <1>1, <1>2 DEF Presented
  <2>3. ActsFor' = ActsFor
    BY <1>1, <1>2 DEF ActsFor, User
  <2> QED BY <1>2, <2>1, <2>2, <2>3 DEF Table!tableVars
<1>3. ASSUME NEW s \in Sessions, sess' = [sess EXCEPT ![r] = s], token' = token,
             Live(s), rows[s] = token[r], pc[token[r]] = "done", token[r] \in Issuers,
             Stage[r] = "idle", Stage' = [Stage EXCEPT ![r] = "admitted"],
             rows' = rows, expired' = expired
      PROVE  Table!Admit(r, s)
  <2>1. Given' = Given
    BY <1>1, <1>3 DEF Given, TypeOK
  <2>2. Presented' = [Presented EXCEPT ![r] = rows[s]]
    BY <1>1, <1>3 DEF Presented, Stage
  <2>3. ActsFor' = [ActsFor EXCEPT ![r] = UserOf[s]]
    BY <1>1, <1>3 DEF ActsFor, User, Stage, TypeOK
  <2>4. Stage[token[r]] = "answered"
    BY <1>3, StageValues DEF Stage
  <2>5. rows[s] \in Table!Answered
    BY <1>3, <2>4, TableRequests DEF Table!Answered, Table!Tokens
  <2> QED BY <1>1, <1>3, <2>1, <2>2, <2>3, <2>5 DEF Table!Admit, Table!Live, Table!Move, Live
<1>4. ASSUME NEW t \in Issued, ReadAccessCache(r, t)
      PROVE  UNCHANGED Table!tableVars
  <2>1. Stage' = Stage /\ Stage[r] = "idle"
    <3>1. PICK p \in {"search", "load"} : Step(r, "new", p)
      BY <1>4 DEF ReadAccessCache
    <3>2. p \in Pcs /\ StageFor(r, p) = "idle" /\ StageFor(r, "new") = "idle"
      BY StageValues DEF Pcs
    <3> QED BY <1>1, <3>1, <3>2, StageMoves
  <2> QED BY <1>1, <1>2, <1>4, <2>1 DEF ReadAccessCache, rowVars, TypeOK
<1>5. ASSUME LoadCached(r)
      PROVE  [Table!Next]_(Table!tableVars)
  <2>1. CASE pc'[r] \in {"search", "invalidate"}
    <3>1. Stage' = Stage
      <4>1. PICK p \in {"search", "invalidate"} : Step(r, "load", p)
        BY <1>1, <1>5, <2>1 DEF LoadCached, Step, TypeOK, Endpoints
      <4>2. p \in Pcs /\ StageFor(r, p) = "idle" /\ StageFor(r, "load") = "idle"
        BY StageValues DEF Pcs
      <4> QED BY <1>1, <4>1, <4>2, StageMoves
    <3> QED BY <1>1, <1>2, <1>5, <3>1 DEF LoadCached, rowVars, User
  <2>2. CASE pc'[r] \in Endpoints
    <3>1. Live(sess[r]) /\ rows[sess[r]] = token[r]
      BY <1>1, <1>5, <2>2 DEF LoadCached, Step, Endpoints, TypeOK
    <3>2. Stage[r] = "idle" /\ Stage' = [Stage EXCEPT ![r] = "admitted"]
      <4>1. PICK p \in Endpoints : Step(r, "load", p)
        BY <1>1, <1>5, <2>2 DEF LoadCached, Step, TypeOK, Endpoints
      <4>2. p \in Pcs /\ StageFor(r, p) = "admitted" /\ StageFor(r, "load") = "idle"
        BY <1>1, StageValues DEF Pcs, Endpoints
      <4> QED BY <1>1, <4>1, <4>2, StageMoves
    <3>3. pc[r] = "load"
      BY <1>5 DEF LoadCached, Step
    <3>4. sess[r] \in Sessions /\ pc[token[r]] = "done" /\ token[r] \in Issuers
      BY <1>1, <3>3, StepFacts
    <3>5. Table!Admit(r, sess[r])
      BY <1>1, <1>3, <1>5, <3>1, <3>2, <3>4 DEF LoadCached, rowVars, TypeOK
    <3> QED BY <3>4, <3>5, TableRequests DEF Table!Next, Table!Calls, Table!Tokens
  <2> QED BY <1>1, <1>5, <2>1, <2>2 DEF LoadCached, Step, Endpoints, TypeOK
<1>6. ASSUME InvalidateAccess(r)
      PROVE  UNCHANGED Table!tableVars
  <2>1. Stage' = Stage
    <3>1. Step(r, "invalidate", "search")
      BY <1>6 DEF InvalidateAccess
    <3>2. "search" \in Pcs /\ StageFor(r, "search") = "idle" /\ StageFor(r, "invalidate") = "idle"
      BY StageValues DEF Pcs
    <3> QED BY <1>1, <3>1, <3>2, StageMoves
  <2> QED BY <1>1, <1>2, <1>6, <2>1 DEF InvalidateAccess, rowVars, User
<1>7. ASSUME SearchRecent(r)
      PROVE  [Table!Next]_(Table!tableVars)
  <2> DEFINE found == {s \in Sessions : /\ Live(s) /\ Cardinality(Newer(s)) < RecentLimit
                                        /\ rows[s] = token[r]}
  <2>1. /\ Step(r, "search", IF found = {} THEN "rejected" ELSE "recache")
        /\ sess' = [sess EXCEPT ![r] = IF found = {} THEN @ ELSE CHOOSE s \in found : TRUE]
        /\ token' = token /\ rows' = rows /\ expired' = expired
    BY <1>7 DEF SearchRecent, rowVars
  <2>2. pc[token[r]] = "done" /\ token[r] \in Issuers
    BY <1>1, <2>1, StepFacts DEF Step
  <2>3. CASE found = {}
    <3>1. Stage[r] = "idle" /\ Stage' = [Stage EXCEPT ![r] = "over"]
      <4>1. "rejected" \in Pcs /\ StageFor(r, "rejected") = "over" /\ StageFor(r, "search") = "idle"
        BY StageValues DEF Pcs
      <4> QED BY <1>1, <2>1, <2>3, <4>1, StageMoves
    <3>2. Given' = Given
      BY <1>1, <2>1, <2>3 DEF Given, TypeOK
    <3>3. Presented' = [q \in Guarded |-> IF q = r THEN NoSession ELSE Presented[q]]
      BY <1>1, <2>1, <3>1 DEF Presented, Stage
    <3>4. ActsFor' = [q \in Guarded |-> IF q = r THEN NoSession ELSE ActsFor[q]]
      BY <1>1, <2>1, <2>3, <3>1 DEF ActsFor, Stage, User, TypeOK
    <3>5. Table!GiveUp(r)
      BY <2>1, <3>1, <3>2, <3>3, <3>4 DEF Table!GiveUp
    <3> QED BY <3>5, TableRequests DEF Table!Next, Table!Calls, Table!Tokens
  <2>4. CASE found # {}
    <3>1. PICK s \in found : s = (CHOOSE x \in found : TRUE)
      BY <2>4
    <3>2. s \in Sessions /\ Live(s) /\ rows[s] = token[r]
      OBVIOUS
    <3>3. Stage[r] = "idle" /\ Stage' = [Stage EXCEPT ![r] = "admitted"]
      <4>1. "recache" \in Pcs /\ StageFor(r, "recache") = "admitted" /\ StageFor(r, "search") = "idle"
        BY StageValues DEF Pcs
      <4> QED BY <1>1, <2>1, <2>4, <4>1, StageMoves
    <3>4. sess' = [sess EXCEPT ![r] = s]
      BY <2>1, <2>4, <3>1
    <3>5. Table!Admit(r, s)
      BY <1>1, <1>3, <2>1, <2>2, <3>2, <3>3, <3>4
    <3> QED BY <3>2, <3>5, TableRequests DEF Table!Next, Table!Calls, Table!Tokens
  <2> QED BY <2>3, <2>4
<1>8. ASSUME Recache(r)
      PROVE  UNCHANGED Table!tableVars
  <2>1. Stage' = Stage
    <3>1. PICK p \in Endpoints : Step(r, "recache", p)
      BY <1>8 DEF Recache
    <3>2. p \in Pcs /\ StageFor(r, p) = "admitted" /\ StageFor(r, "recache") = "admitted"
      BY <1>1, StageValues DEF Pcs, Endpoints
    <3> QED BY <1>1, <3>1, <3>2, StageMoves
  <2> QED BY <1>1, <1>2, <1>8, <2>1 DEF Recache, rowVars, User
<1>9. ASSUME NEW s \in Sessions, FindOwn(r, s)
      PROVE  UNCHANGED Table!tableVars
  <2>1. Stage' = Stage
    <3>1. PICK p \in {"deleteRow", "done"} : Step(r, "findOwn", p)
      BY <1>9 DEF FindOwn
    <3>2. p \in Pcs /\ StageFor(r, p) = "admitted" /\ StageFor(r, "findOwn") = "admitted"
      BY <1>1, StageValues DEF Pcs
    <3> QED BY <1>1, <3>1, <3>2, StageMoves
  <2>2. User(r)' = User(r)
    BY <1>9, <1>1 DEF FindOwn, User, TypeOK
  <2> QED BY <1>1, <1>2, <1>9, <2>1, <2>2 DEF FindOwn, rowVars, TypeOK
<1> QED BY <1>4, <1>5, <1>6, <1>7, <1>8, <1>9 DEF Validate
(* What a request behind the guard shows does not depend on the others. *)
LEMMA GuardedLooks ==
  ASSUME TypeOK, \A q \in Guarded : Stage'[q] = Stage[q] /\ sess'[q] = sess[q] /\ token'[q] = token[q]
  PROVE  Presented' = Presented /\ ActsFor' = ActsFor
  BY DEF Presented, ActsFor, User

LEMMA IssuerSteps ==
  ASSUME IInv, NEW r \in Requests,
         InsertSession(r) \/ CacheAccess(r) \/ CacheRefresh(r) \/ Refresh(r)
  PROVE  [Table!Next]_(Table!tableVars)
<1> USE KindFacts DEF IInv
<1>1. TypeOK /\ r \in Issuers /\ r \notin Guarded
  BY StepFacts DEF Refresh, InsertSession, CacheAccess, CacheRefresh, ReadRefreshCache, LoadByRefresh,
     SearchBulk, SelectForSave, UpdateRow, ReinsertRow, Step, Issuers, Guarded
<1>2. expired' = expired /\ \A q \in Requests \ {r} : sess'[q] = sess[q] /\ token'[q] = token[q]
  BY <1>1 DEF Refresh, InsertSession, CacheAccess, CacheRefresh, ReadRefreshCache, LoadByRefresh,
     SearchBulk, SelectForSave, UpdateRow, ReinsertRow, rowVars, TypeOK
<1>3. ASSUME NEW from, NEW to \in Pcs, Step(r, from, to)
      PROVE  Presented' = Presented /\ ActsFor' = ActsFor
  <2>1. \A q \in Requests \ {r} : Stage'[q] = Stage[q]
    BY <1>1, <1>3, StageMoves
  <2> QED BY <1>1, <1>2, <2>1, GuardedLooks
<1>4. ASSUME NEW from, NEW to \in Pcs, Step(r, from, to), StageFor(r, from) = StageFor(r, to),
             rows' = rows, sess' = sess
      PROVE  UNCHANGED Table!tableVars
  BY <1>1, <1>2, <1>3, <1>4, StageMoves DEF Given, Table!tableVars
<1>5. ASSUME NEW from, Step(r, from, "failed") \/ Step(r, from, "rejected"),
             StageFor(r, from) \notin {"answered", "over"}, rows' = rows, sess' = sess
      PROVE  Table!GiveUp(r)
  <2>1. PICK p \in {"failed", "rejected"} : Step(r, from, p)
    BY <1>5
  <2>2. p \in Pcs /\ StageFor(r, p) = "over"
    BY StageValues DEF Pcs
  <2>3. Stage[r] \notin {"answered", "over"} /\ Stage' = [Stage EXCEPT ![r] = "over"]
    BY <1>1, <1>5, <2>1, <2>2, StageMoves
  <2>4. Presented' = Presented /\ ActsFor' = ActsFor
    BY <1>3, <2>1, <2>2
  <2>5. /\ Presented' = [q \in Guarded |-> IF q = r THEN NoSession ELSE Presented[q]]
        /\ ActsFor' = [q \in Guarded |-> IF q = r THEN NoSession ELSE ActsFor[q]]
    BY <1>1, <2>4 DEF Presented, ActsFor
  <2>6. Given' = Given
    BY <1>5 DEF Given
  <2> QED BY <1>2, <1>5, <2>3, <2>5, <2>6 DEF Table!GiveUp
<1>6. r \in Table!Calls /\ r \in Table!Tokens
  BY <1>1, TableRequests DEF Table!Calls, Table!Tokens
<1>7. ASSUME InsertSession(r)
      PROVE  r \in Sessions /\ Table!Open(r)
  <2>1. Step(r, "new", "cacheAccess") /\ r \in Sessions
    BY <1>7 DEF InsertSession
  <2>2. "cacheAccess" \in Pcs /\ StageFor(r, "new") = "idle" /\ StageFor(r, "cacheAccess") = "written"
    BY StageValues DEF Pcs
  <2>3. Stage[r] = "idle" /\ Stage' = [Stage EXCEPT ![r] = "written"]
    BY <1>1, <2>1, <2>2, StageMoves
  <2>4. Given' = [Given EXCEPT ![r] = r]
    BY <1>1, <1>7 DEF InsertSession, Given, TypeOK
  <2>5. Presented' = Presented /\ ActsFor' = ActsFor
    BY <1>3, <2>1, <2>2
  <2> QED BY <1>7, <2>1, <2>3, <2>4, <2>5 DEF InsertSession, Table!Open, Table!Move
<1>8. ASSUME NEW from \in {"cacheAccess", "cacheRefresh"}, Step(r, from, "done"),
             rows' = rows, sess' = sess
      PROVE  Table!Answer(r)
  <2>1. "done" \in Pcs /\ StageFor(r, from) = "written" /\ StageFor(r, "done") = "answered"
    BY <1>1, StageValues DEF Pcs
  <2>2. Stage[r] = "written" /\ Stage' = [Stage EXCEPT ![r] = "answered"]
    BY <1>1, <1>8, <2>1, StageMoves
  <2>3. Given' = Given
    BY <1>8 DEF Given
  <2>4. Presented' = Presented /\ ActsFor' = ActsFor
    BY <1>3, <1>8, <2>1
  <2> QED BY <1>2, <1>6, <1>8, <2>2, <2>3, <2>4 DEF Table!Answer, Table!Move
<1>9. ASSUME CacheAccess(r)
      PROVE  Table!Answer(r) \/ UNCHANGED Table!tableVars
  <2>1. rows' = rows /\ sess' = sess
    BY <1>9 DEF CacheAccess, rowVars
  <2>2. CASE Kind[r] = "login"
    <3>1. Step(r, "cacheAccess", "cacheRefresh")
      BY <1>9, <2>2 DEF CacheAccess
    <3>2. "cacheRefresh" \in Pcs /\ StageFor(r, "cacheAccess") = StageFor(r, "cacheRefresh")
      BY StageValues DEF Pcs
    <3> QED BY <1>4, <2>1, <3>1, <3>2
  <2>3. CASE Kind[r] # "login"
    <3>1. Step(r, "cacheAccess", "done")
      BY <1>9, <2>3 DEF CacheAccess
    <3> QED BY <1>8, <2>1, <3>1
  <2> QED BY <2>2, <2>3
<1>10. ASSUME CacheRefresh(r)
       PROVE  Table!Answer(r)
  BY <1>8, <1>10 DEF CacheRefresh, rowVars
<1>11. ASSUME NEW s \in Sessions \cap Issued, ReadRefreshCache(r, s)
       PROVE  UNCHANGED Table!tableVars
  <2>1. PICK p \in {"loadRefresh", "searchBulk"} : Step(r, "new", p)
    BY <1>11 DEF ReadRefreshCache
  <2>2. p \in Pcs /\ StageFor(r, "new") = StageFor(r, p)
    BY StageValues DEF Pcs
  <2> QED BY <1>4, <1>11, <2>1, <2>2 DEF ReadRefreshCache, rowVars
<1>12. ASSUME NEW from \in {"loadRefresh", "searchBulk"}, Step(r, from, "save"), Live(token[r]),
              sess' = [sess EXCEPT ![r] = token[r]], rows' = rows
       PROVE  token[r] \in Sessions /\ Table!Begin(r, token[r])
  <2>1. "save" \in Pcs /\ StageFor(r, from) = "idle" /\ StageFor(r, "save") = "refreshing"
    BY StageValues DEF Pcs
  <2>2. Stage[r] = "idle" /\ Stage' = [Stage EXCEPT ![r] = "refreshing"] /\ pc[r] = from
    BY <1>1, <1>12, <2>1, StageMoves
  <2>3. token[r] \in Sessions \cap Issued /\ r \notin Sessions
    BY <1>1, <1>12, <2>2, StepFacts DEF StepsByKind
  <2>4. Given' = [Given EXCEPT ![r] = token[r]]
    BY <1>1, <1>12 DEF Given, TypeOK
  <2>5. Presented' = Presented /\ ActsFor' = ActsFor
    BY <1>3, <1>12, <2>1
  <2>6. Stage[token[r]] = "answered"
    BY <2>3, StageValues DEF Stage, Issued
  <2>7. token[r] \in Table!Answered
    BY <2>3, <2>6, TableRequests DEF Table!Answered, Table!Tokens
  <2> QED BY <1>1, <1>2, <1>12, <2>2, <2>3, <2>4, <2>5, <2>7 DEF Table!Begin, Table!Move, Table!Live, Live
<1>13. ASSUME LoadByRefresh(r)
       PROVE  (token[r] \in Sessions /\ Table!Begin(r, token[r])) \/ UNCHANGED Table!tableVars
  <2>1. CASE Live(token[r])
    BY <1>12, <1>13, <2>1 DEF LoadByRefresh, rowVars
  <2>2. CASE ~Live(token[r])
    <3>1. Step(r, "loadRefresh", "searchBulk") /\ rows' = rows
      BY <1>13, <2>2 DEF LoadByRefresh, rowVars
    <3>2. sess' = sess
      BY <1>1, <1>13, <2>2 DEF LoadByRefresh, TypeOK
    <3>3. "searchBulk" \in Pcs /\ StageFor(r, "loadRefresh") = StageFor(r, "searchBulk")
      BY StageValues DEF Pcs
    <3> QED BY <1>4, <3>1, <3>2, <3>3
  <2> QED BY <2>1, <2>2
<1>14. ASSUME SearchBulk(r)
       PROVE  (token[r] \in Sessions /\ Table!Begin(r, token[r])) \/ Table!GiveUp(r)
  <2>1. PICK batch \in SUBSET {s \in Sessions : Live(s)} :
          /\ Step(r, "searchBulk", IF token[r] \in batch THEN "save" ELSE "rejected")
          /\ sess' = [sess EXCEPT ![r] = IF token[r] \in batch THEN token[r] ELSE @]
          /\ rows' = rows
    BY <1>14 DEF SearchBulk, rowVars
  <2>2. CASE token[r] \in batch
    BY <1>12, <2>1, <2>2
  <2>3. CASE token[r] \notin batch
    <3>1. sess' = sess
      BY <1>1, <2>1, <2>3 DEF TypeOK
    <3>2. StageFor(r, "searchBulk") = "idle"
      BY StageValues
    <3> QED BY <1>5, <2>1, <2>3, <3>1, <3>2
  <2> QED BY <2>2, <2>3
<1>15. ASSUME SelectForSave(r)
       PROVE  UNCHANGED Table!tableVars
  <2>1. PICK p \in {"insert", "update"} : Step(r, "save", p)
    BY <1>15 DEF SelectForSave
  <2>2. p \in Pcs /\ StageFor(r, "save") = StageFor(r, p)
    BY StageValues DEF Pcs
  <2> QED BY <1>4, <1>15, <2>1, <2>2 DEF SelectForSave, rowVars
<1>16. ASSUME NEW from \in {"update", "insert"}, Step(r, from, "cacheAccess"), sess' = sess,
              \/ rows' = [rows EXCEPT ![sess[r]] = r]
              \/ rows[sess[r]] = NoSession /\ rows' = rows
       PROVE  Table!Rotate(r)
  <2>1. "cacheAccess" \in Pcs /\ StageFor(r, from) = "refreshing" /\ StageFor(r, "cacheAccess") = "written"
    BY StageValues DEF Pcs
  <2>2. Stage[r] = "refreshing" /\ Stage' = [Stage EXCEPT ![r] = "written"] /\ pc[r] = from
    BY <1>1, <1>16, <2>1, StageMoves
  <2>3. r \in Issuers \ Sessions
    BY <1>1, <2>2, StepFacts
  <2>4. Given' = Given /\ Given[r] = sess[r]
    BY <1>1, <1>16 DEF Given
  <2>5. Presented' = Presented /\ ActsFor' = ActsFor
    BY <1>3, <1>16, <2>1
  <2> QED BY <1>2, <1>16, <2>2, <2>3, <2>4, <2>5 DEF Table!Rotate, Table!Move
<1>17. ASSUME UpdateRow(r)
       PROVE  Table!Rotate(r)
  <2>1. Step(r, "update", "cacheAccess") /\ sess' = sess
    BY <1>17 DEF UpdateRow
  <2>2. CASE rows[sess[r]] = NoSession
    <3>1. rows' = rows
      BY <1>1, <1>17, <2>2 DEF UpdateRow, TypeOK
    <3> QED BY <1>16, <2>1, <2>2, <3>1
  <2>3. CASE rows[sess[r]] # NoSession
    <3>1. rows' = [rows EXCEPT ![sess[r]] = r]
      BY <1>17, <2>3 DEF UpdateRow
    <3> QED BY <1>16, <2>1, <3>1
  <2> QED BY <2>2, <2>3
<1>18. ASSUME ReinsertRow(r)
       PROVE  Table!Rotate(r) \/ Table!GiveUp(r)
  <2>1. sess' = sess
    BY <1>18 DEF ReinsertRow
  <2>2. CASE rows[sess[r]] = NoSession
    <3>1. rows' = [rows EXCEPT ![sess[r]] = r] /\ Step(r, "insert", "cacheAccess")
      BY <1>18, <2>2 DEF ReinsertRow
    <3> QED BY <1>16, <2>1, <3>1
  <2>3. CASE rows[sess[r]] # NoSession
    <3>1. rows' = rows /\ Step(r, "insert", "failed")
      BY <1>1, <1>18, <2>3 DEF ReinsertRow, TypeOK
    <3>2. StageFor(r, "insert") = "refreshing"
      BY StageValues
    <3> QED BY <1>5, <2>1, <3>1, <3>2
  <2> QED BY <2>2, <2>3
<1>19. /\ \A s \in Sessions : Table!Open(s) \/ Table!Begin(r, s) => Table!Next
       /\ Table!Rotate(r) \/ Table!Answer(r) \/ Table!GiveUp(r) => Table!Next
  BY <1>6 DEF Table!Next
<1> HIDE DEF IInv
<1> QED BY <1>7, <1>9, <1>10, <1>11, <1>13, <1>14, <1>15, <1>17, <1>18, <1>19 DEF Refresh
LEMMA LogoutSteps ==
  ASSUME IInv, NEW r \in Requests, DeleteRow(r) \/ DeleteAll(r)
  PROVE  Table!Next
<1> USE KindFacts DEF IInv
<1>1. PICK from \in {"deleteRow", "deleteAll"} : Step(r, from, "done")
  BY DEF DeleteRow, DeleteAll
<1>2. TypeOK /\ r \in Guarded /\ sess[r] \in Sessions
  BY <1>1, StepFacts DEF Step
<1>3. Stage' = Stage /\ Stage[r] = "admitted"
  <2>1. "done" \in Pcs /\ StageFor(r, from) = "admitted" /\ StageFor(r, "done") = "admitted"
    BY <1>2, StageValues DEF Pcs
  <2> QED BY <1>1, <1>2, <2>1, StageMoves
<1>4. Presented' = Presented /\ ActsFor' = ActsFor /\ Given' = Given
  BY <1>3 DEF DeleteRow, DeleteAll, Presented, ActsFor, Given, User
<1>5. ActsFor[r] = UserOf[sess[r]]
  BY <1>2, <1>3 DEF ActsFor, User
<1> DEFINE own == {s \in Sessions : UserOf[s] = ActsFor[r]}
<1>6. PICK S \in {{sess[r]}, own} : Logout(S)
  BY <1>5 DEF DeleteRow, DeleteAll, User
<1>7. S \in {own} \cup {{s} : s \in own}
  BY <1>2, <1>5, <1>6
<1>8. rows' = [s \in Sessions |-> IF s \in S THEN NoSession ELSE rows[s]]
  BY <1>2, <1>6 DEF Logout, RowsWithout, TypeOK
<1>9. Table!Remove(S)
  BY <1>3, <1>4, <1>8 DEF Table!Remove, DeleteRow, DeleteAll
<1>10. Table!LogOut(r)
  BY <1>2, <1>3, <1>7, <1>9 DEF Table!LogOut
<1> QED BY <1>10, TableRequests DEF Table!Next, Table!Calls, Table!Tokens

(* A request that stops is given up, unless it was finished or never began. *)
LEMMA FailStep ==
  ASSUME IInv, NEW r \in Requests, Fail(r)
  PROVE  Table!Next
<1> USE KindFacts DEF IInv
<1>1. /\ pc[r] \notin Finished \cup {"new"} /\ pc' = [pc EXCEPT ![r] = "failed"]
      /\ sess' = sess /\ token' = token /\ rows' = rows /\ expired' = expired
  BY DEF Fail, rowVars
<1>2. Step(r, pc[r], "failed") /\ "failed" \in Pcs /\ StageFor(r, "failed") = "over"
  BY <1>1, StageValues DEF Step, Pcs
<1>3. /\ Stage' = [Stage EXCEPT ![r] = "over"] /\ Stage[r] = StageFor(r, pc[r])
      /\ \A q \in Requests \ {r} : Stage'[q] = Stage[q]
  BY <1>2, StageMoves
<1>4. StageFor(r, pc[r]) \notin {"answered", "over"}
  BY <1>1, StageValues DEF TypeOK, Pcs, Finished
<1>5. Given' = Given
  BY <1>1 DEF Given
<1>6. Stage'[r] = "over"
  BY <1>3 DEF Stage
<1>7. /\ Presented' = [q \in Guarded |-> IF q = r THEN NoSession ELSE Presented[q]]
      /\ ActsFor' = [q \in Guarded |-> IF q = r THEN NoSession ELSE ActsFor[q]]
  BY <1>1, <1>3, <1>6 DEF Presented, ActsFor, User
<1>8. Table!GiveUp(r)
  BY <1>1, <1>3, <1>4, <1>5, <1>7 DEF Table!GiveUp
<1> QED BY <1>8, TableRequests DEF Table!Next, Table!Calls, Table!Tokens

(* The cleanup and the passing of time; Redis keys are not in the table.    *)
LEMMA TimeSteps ==
  ASSUME IInv, \/ \E s \in Sessions : ExpireSession(s) \/ ExpireRefreshKey(s)
               \/ \E t \in Issuers : ExpireAccessKey(t)
               \/ FindExpired \/ DeleteExpired \/ UNCHANGED vars
  PROVE  [Table!Next]_(Table!tableVars)
<1>1. pc' = pc /\ sess' = sess /\ token' = token
  BY DEF ExpireSession, ExpireRefreshKey, ExpireAccessKey, FindExpired, DeleteExpired, vars
<1>2. Stage' = Stage /\ Given' = Given
  BY <1>1 DEF Stage, Given
<1>3. Presented' = Presented /\ ActsFor' = ActsFor
  BY <1>1, <1>2 DEF Presented, ActsFor, User
<1>4. ASSUME NEW s \in Sessions, ExpireSession(s)
      PROVE  Table!Next
  <2>1. Table!Expire(s)
    BY <1>2, <1>3, <1>4 DEF ExpireSession, Table!Expire, Table!Live
  <2> QED BY <2>1 DEF Table!Next
<1>5. CASE DeleteExpired
  <2>1. Table!Remove(expired)
    BY <1>2, <1>3, <1>5 DEF DeleteExpired, RowsWithout, Table!Remove
  <2> QED BY <2>1 DEF Table!Next
<1>6. ASSUME rows' = rows, expired' = expired
      PROVE  UNCHANGED Table!tableVars
  BY <1>2, <1>3, <1>6 DEF Table!tableVars
<1> QED BY <1>4, <1>5, <1>6
        DEF ExpireRefreshKey, ExpireAccessKey, FindExpired, vars, rowVars

LEMMA TableStep == IInv /\ [Next]_vars => [Table!Next]_(Table!tableVars)
<1> SUFFICES ASSUME IInv, [Next]_vars
             PROVE  [Table!Next]_(Table!tableVars)
  OBVIOUS
<1> QED BY GuardedSteps, IssuerSteps, LogoutSteps, FailStep, TimeSteps DEF Next

(* However requests, expiries and the cleanup interleave, and whatever      *)
(* Redis holds, every behaviour of the sessions is one of the table's.      *)
THEOREM RefinesTable == Spec => ImplementsTable
<1> QED BY InitIInv, Invariance, TableInit, TableStep, PTL DEF Spec, ImplementsTable, Table!Spec

(* Nobody acts as a user whose session the token presented was not made     *)
(* for: what the table promises by itself, the code promises.               *)
THEOREM TokensActForTheirUser == Spec => []Table!TokensAreBound
<1> QED BY RefinesTable, Table!BoundTokens, PTL DEF ImplementsTable
=============================================================================
