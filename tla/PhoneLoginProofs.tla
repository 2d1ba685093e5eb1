---------------------------- MODULE PhoneLoginProofs ----------------------------
(***************************************************************************)
(* Machine-checked proofs about PhoneLogin, for every set of codes, logins *)
(* and spellings, every address of theirs and every check limit.           *)
(* Normalize is opened only where the characters of a phone are at issue,  *)
(* for AccountsTellNumbers.                                                *)
(***************************************************************************)
EXTENDS PhoneLogin, FiniteSetTheorems, TLAPS

(* What each step of a login does to where it is. *)
LEMMA StepFacts ==
  ASSUME TypeOK, NEW l \in Logins, NEW from, NEW to \in Pcs, Step(l, from, to)
  PROVE  /\ pc[l] = from /\ pc'[l] = to /\ pc' \in [Logins -> Pcs]
         /\ \A m \in Logins \ {l} : pc'[m] = pc[m]
  BY DEF Step, TypeOK

LEMMA NumberType == \A s \in Spellings : Normalize(s) \in Numbers
  BY DEF Numbers

-----------------------------------------------------------------------------
(* Types, and the account a login past findOrCreateUser holds.              *)

TypeInv == TypeOK /\ AccountsAreFound /\ IsFiniteSet(Rows)

LEMMA InitType == Init => TypeInv
<1> SUFFICES ASSUME Init PROVE TypeInv
  OBVIOUS
<1>1. (CHOOSE s \in Spellings : TRUE) \in Spellings
  BY SpellingsAssumption
<1>2. Rows = {}
  BY DEF Init, Rows
<1>3. TypeOK
  BY <1>1, LimitsAssumption DEF Init, TypeOK, Pcs
<1> QED BY <1>2, <1>3, FS_EmptySet DEF Init, TypeInv, AccountsAreFound

LEMMA CodeStepType ==
  ASSUME TypeInv, NEW s \in Spellings, ExpireOtp(s) \/ \E c \in Texts : StoreOtp(c, s)
  PROVE  TypeInv'
<1>1. UNCHANGED <<users, sessionVars, pc, phone, user, flagged, fails, histVars>>
  BY DEF ExpireOtp, StoreOtp
<1>2. code' \in [Spellings -> Texts \cup {NoCode}] /\ issued' \in [Spellings -> SUBSET Texts]
  BY DEF TypeInv, TypeOK, ExpireOtp, StoreOtp
<1> QED BY <1>1, <1>2 DEF TypeInv, TypeOK, AccountsAreFound, Rows, Number, sessionVars, histVars

LEMMA AcceptType ==
  ASSUME TypeInv, NEW l \in Logins, NEW s \in Spellings, AcceptOtp(l, s)
  PROVE  TypeInv'
<1>1. /\ pc[l] = "new" /\ pc'[l] = "delOtp" /\ pc' \in [Logins -> Pcs]
      /\ \A m \in Logins \ {l} : pc'[m] = pc[m]
  BY StepFacts DEF TypeInv, AcceptOtp, Pcs
<1>2. /\ phone' \in [Logins -> Spellings]
      /\ known' \subseteq Logins
      /\ \A m \in Logins \ {l} : phone'[m] = phone[m]
  BY DEF AcceptOtp, TypeInv, TypeOK
<1> QED BY <1>1, <1>2 DEF AcceptOtp, TypeInv, TypeOK, AccountsAreFound, Rows, Number, codeVars, sessionVars

(* Steps that only move the login on. *)
LEMMA MoveType ==
  ASSUME TypeInv, NEW l \in Logins, DeleteOtp(l) \/ DeleteAttempts(l) \/ UpdateUser(l) \/ Fail(l)
  PROVE  TypeInv'
<1>1. /\ pc' \in [Logins -> Pcs] /\ \A m \in Logins \ {l} : pc'[m] = pc[m]
      /\ \/ pc'[l] \in {"delAttempts", "find", "failed"}
         \/ pc[l] = "update" /\ pc'[l] = "check"
  BY DEF TypeInv, TypeOK, DeleteOtp, DeleteAttempts, UpdateUser, Fail, Step, Pcs
<1>2. /\ UNCHANGED <<issued, users, sessionVars, phone, user, flagged, histVars>>
      /\ code' \in [Spellings -> Texts \cup {NoCode}] /\ fails' \in Nat
  BY DEF TypeInv, TypeOK, DeleteOtp, DeleteAttempts, UpdateUser, Fail, codeVars
<1> QED BY <1>1, <1>2 DEF TypeInv, TypeOK, AccountsAreFound, Rows, Number, sessionVars, histVars

LEMMA FindType ==
  ASSUME TypeInv, NEW l \in Logins, FindUser(l)
  PROVE  TypeInv'
<1>1. Number(l) \in Numbers /\ users[Number(l)] \in Logins \cup {NoUser}
  BY NumberType DEF TypeInv, TypeOK, Number
<1>2. /\ pc[l] = "find" /\ pc'[l] = (IF users[Number(l)] = NoUser THEN "insert" ELSE "update")
      /\ pc' \in [Logins -> Pcs] /\ \A m \in Logins \ {l} : pc'[m] = pc[m]
  BY DEF TypeInv, TypeOK, FindUser, Step, Pcs
<1>3. /\ user' \in [Logins -> Logins \cup {NoUser}] /\ user'[l] = users[Number(l)]
      /\ \A m \in Logins \ {l} : user'[m] = user[m]
  BY <1>1 DEF TypeInv, TypeOK, FindUser
<1>4. UNCHANGED <<codeVars, users, sessionVars, phone, flagged, fails, histVars>>
  BY DEF FindUser
<1> QED BY <1>1, <1>2, <1>3, <1>4
     DEF TypeInv, TypeOK, AccountsAreFound, Rows, Number, codeVars, sessionVars, histVars

(* A row of users, once there, stays as it is. *)
LEMMA InsertFacts ==
  ASSUME TypeInv, NEW l \in Logins, InsertUser(l)
  PROVE  /\ Number(l) \in Numbers /\ pc[l] = "insert"
         /\ pc' \in [Logins -> Pcs] /\ \A m \in Logins \ {l} : pc'[m] = pc[m]
         /\ users' \in [Numbers -> Logins \cup {NoUser}]
         /\ user' \in [Logins -> Logins \cup {NoUser}]
         /\ \A m \in Logins \ {l} : user'[m] = user[m]
         /\ \A n \in Numbers : users[n] # NoUser => users'[n] = users[n]
         /\ \A n \in Numbers \ {Number(l)} : users'[n] = users[n]
         /\ \/ users[Number(l)] = NoUser /\ pc'[l] = "check" /\ users'[Number(l)] = l /\ user'[l] = l
            \/ users[Number(l)] # NoUser /\ pc'[l] = "conflict" /\ users' = users /\ user' = user
         /\ UNCHANGED <<codeVars, sessionVars, phone, flagged, fails, histVars>>
<1>1. Number(l) \in Numbers
  BY NumberType DEF TypeInv, TypeOK, Number
<1>2. CASE users[Number(l)] = NoUser
  BY <1>1, <1>2 DEF InsertUser, Step, TypeInv, TypeOK, Pcs
<1>3. CASE users[Number(l)] # NoUser
  BY <1>1, <1>3 DEF InsertUser, Step, TypeInv, TypeOK, Pcs
<1> QED BY <1>2, <1>3

LEMMA InsertType ==
  ASSUME TypeInv, NEW l \in Logins, InsertUser(l)
  PROVE  TypeInv'
<1>1. AccountsAreFound'
  <2> SUFFICES ASSUME NEW m \in Logins, pc'[m] \in {"update", "check", "session", "done"}
               PROVE  user'[m] # NoUser /\ users'[Number(m)'] = user'[m]
    BY DEF AccountsAreFound
  <2>1. Number(m)' = Number(m) /\ Number(m) \in Numbers
    BY InsertFacts, NumberType DEF Number, TypeInv, TypeOK
  <2>2. CASE m = l
    BY <2>1, <2>2, InsertFacts, NullsAssumption
  <2>3. CASE m # l
    BY <2>1, <2>3, InsertFacts DEF TypeInv, AccountsAreFound
  <2> QED BY <2>2, <2>3
<1>2. TypeOK'
  BY <1>1, InsertFacts DEF TypeInv, TypeOK, AccountsAreFound, Number, codeVars, sessionVars, histVars
<1> QED BY <1>1, <1>2, InsertFacts DEF TypeInv, Rows, sessionVars

LEMMA CheckType ==
  ASSUME TypeInv, NEW l \in Logins, CheckConcurrent(l)
  PROVE  TypeInv'
<1>1. /\ pc[l] = "check" /\ pc'[l] = "session" /\ pc' \in [Logins -> Pcs]
      /\ \A m \in Logins \ {l} : pc'[m] = pc[m]
  BY StepFacts DEF TypeInv, CheckConcurrent, Pcs
<1>2. flagged' \subseteq Logins /\ sighted' \in [Logins -> SUBSET Logins]
  BY DEF CheckConcurrent, TypeInv, TypeOK, Of
<1>3. UNCHANGED <<codeVars, users, sessionVars, phone, user, fails, known>>
  BY DEF CheckConcurrent
<1> QED BY <1>1, <1>2, <1>3 DEF TypeInv, TypeOK, AccountsAreFound, Rows, Number, codeVars, sessionVars

(* The new row ranks above all that are there. *)
LEMMA RowFacts ==
  ASSUME TypeInv, RowsAreRanked, NEW l \in Logins, InsertSession(l)
  PROVE  /\ pc[l] = "session" /\ pc'[l] = "done" /\ pc' \in [Logins -> Pcs]
         /\ \A m \in Logins \ {l} : pc'[m] = pc[m]
         /\ l \notin Rows /\ Rows' = Rows \cup {l}
         /\ IsFiniteSet(Rows') /\ Cardinality(Rows) \in Nat /\ Cardinality(Rows') = Cardinality(Rows) + 1
         /\ createdAt' = [createdAt EXCEPT ![l] = Cardinality(Rows) + 1]
         /\ createdAt' \in [Logins -> Nat] /\ createdAt'[l] = Cardinality(Rows) + 1
         /\ \A m \in Logins \ {l} : createdAt'[m] = createdAt[m] /\ sessions'[m] = sessions[m]
         /\ sessions' \in [Logins -> Logins \cup {NoUser}]
         /\ sessions'[l] = user[l] /\ user[l] # NoUser
         /\ UNCHANGED <<codeVars, users, phone, user, flagged, fails, histVars>>
<1>1. /\ pc[l] = "session" /\ pc'[l] = "done" /\ pc' \in [Logins -> Pcs]
      /\ \A m \in Logins \ {l} : pc'[m] = pc[m]
  BY StepFacts DEF TypeInv, InsertSession, Pcs
<1>2. IsFiniteSet(Rows) /\ Cardinality(Rows) \in Nat
  BY FS_CardinalityType DEF TypeInv
<1>3. createdAt' = [createdAt EXCEPT ![l] = Cardinality(Rows) + 1]
  BY DEF InsertSession, Rows
<1>4. /\ createdAt' \in [Logins -> Nat] /\ createdAt'[l] = Cardinality(Rows) + 1
      /\ \A m \in Logins \ {l} : createdAt'[m] = createdAt[m]
  BY <1>2, <1>3 DEF TypeInv, TypeOK
<1>5. l \notin Rows
  BY <1>1 DEF Rows, RowsAreRanked
<1>6. Rows' = Rows \cup {l}
  BY <1>2, <1>4 DEF Rows
<1>7. IsFiniteSet(Rows') /\ Cardinality(Rows') = Cardinality(Rows) + 1
  BY <1>2, <1>5, <1>6, FS_AddElement
<1>8. user[l] # NoUser
  BY <1>1 DEF TypeInv, AccountsAreFound
<1>9. /\ sessions' \in [Logins -> Logins \cup {NoUser}] /\ sessions'[l] = user[l]
      /\ \A m \in Logins \ {l} : sessions'[m] = sessions[m]
  BY DEF InsertSession, TypeInv, TypeOK
<1> QED BY <1>1, <1>2, <1>3, <1>4, <1>5, <1>6, <1>7, <1>8, <1>9 DEF InsertSession

LEMMA SessionType ==
  ASSUME TypeInv, RowsAreRanked, NEW l \in Logins, InsertSession(l)
  PROVE  TypeInv'
<1>1. \A m \in Logins : sessions'[m] = NoUser <=> createdAt'[m] = 0
  <2> SUFFICES ASSUME NEW m \in Logins PROVE sessions'[m] = NoUser <=> createdAt'[m] = 0
    OBVIOUS
  <2>1. CASE m = l
    BY <2>1, RowFacts
  <2>2. CASE m # l
    BY <2>2, RowFacts DEF TypeInv, TypeOK
  <2> QED BY <2>1, <2>2
<1>2. AccountsAreFound'
  BY RowFacts DEF TypeInv, AccountsAreFound, Number
<1>3. TypeOK'
  BY <1>1, <1>2, RowFacts DEF TypeInv, TypeOK, AccountsAreFound, Number, codeVars, histVars
<1> QED BY <1>2, <1>3, RowFacts DEF TypeInv

-----------------------------------------------------------------------------
(* The rows of sessions.                                                    *)

(* Every other step leaves the rows and the logins that have one alone. *)
LEMMA RowsUntouched ==
  ASSUME TypeInv, [Next]_vars, \A l \in Logins : ~InsertSession(l)
  PROVE  /\ sessions' = sessions /\ createdAt' = createdAt
         /\ \A m \in Logins : pc'[m] = "done" <=> pc[m] = "done"
         /\ \A m \in Logins : pc[m] = "done" => user'[m] = user[m]
<1> DEFINE Same == /\ sessions' = sessions /\ createdAt' = createdAt
                   /\ \A m \in Logins : pc'[m] = "done" <=> pc[m] = "done"
                   /\ \A m \in Logins : pc[m] = "done" => user'[m] = user[m]
<1>1. CASE UNCHANGED vars
  BY <1>1 DEF vars, sessionVars
<1>2. ASSUME NEW s \in Spellings, ExpireOtp(s) \/ \E c \in Texts : StoreOtp(c, s)
      PROVE  Same
  BY <1>2 DEF ExpireOtp, StoreOtp, sessionVars
<1>3. ASSUME NEW l \in Logins, Login(l) \/ Fail(l), ~InsertSession(l)
      PROVE  Same
  <2>1. CASE \E s \in Spellings : AcceptOtp(l, s)
    BY <2>1 DEF AcceptOtp, Step, TypeInv, TypeOK, sessionVars
  <2>2. CASE DeleteOtp(l) \/ DeleteAttempts(l) \/ UpdateUser(l) \/ CheckConcurrent(l)
    BY <2>2 DEF DeleteOtp, DeleteAttempts, UpdateUser, CheckConcurrent, Step, TypeInv, TypeOK, sessionVars
  <2>3. CASE Fail(l)
    BY <2>3 DEF Fail, TypeInv, TypeOK, sessionVars
  <2>4. CASE FindUser(l)
    <3>1. pc[l] = "find" /\ pc'[l] # "done" /\ \A m \in Logins \ {l} : pc'[m] = pc[m]
      BY <2>4 DEF FindUser, Step, TypeInv, TypeOK
    <3>2. sessions' = sessions /\ createdAt' = createdAt /\ \A m \in Logins \ {l} : user'[m] = user[m]
      BY <2>4 DEF FindUser, TypeInv, TypeOK, sessionVars
    <3> QED BY <3>1, <3>2
  <2>5. CASE InsertUser(l)
    BY <2>5, InsertFacts DEF sessionVars
  <2> QED BY <1>3, <2>1, <2>2, <2>3, <2>4, <2>5 DEF Login
<1> QED BY <1>1, <1>2, <1>3 DEF Next

LEMMA RankedStep ==
  ASSUME TypeInv, RowsAreRanked, [Next]_vars
  PROVE  RowsAreRanked'
<1>1. ASSUME NEW l \in Logins, InsertSession(l)
      PROVE  RowsAreRanked'
  <2>1. \A m \in Logins : createdAt'[m] <= Cardinality(Rows')
    <3> SUFFICES ASSUME NEW m \in Logins PROVE createdAt'[m] <= Cardinality(Rows')
      OBVIOUS
    <3>1. createdAt[m] \in Nat /\ createdAt[m] <= Cardinality(Rows)
      BY DEF TypeInv, TypeOK, RowsAreRanked
    <3>2. m = l \/ createdAt'[m] = createdAt[m]
      BY <1>1, RowFacts
    <3> QED BY <1>1, <3>1, <3>2, RowFacts
  <2>2. \A m \in Logins : /\ createdAt'[m] > 0 => pc'[m] = "done"
                          /\ pc'[m] = "done" => sessions'[m] = user'[m]
    <3> SUFFICES ASSUME NEW m \in Logins
                 PROVE  /\ createdAt'[m] > 0 => pc'[m] = "done"
                        /\ pc'[m] = "done" => sessions'[m] = user'[m]
      OBVIOUS
    <3>1. user' = user
      BY <1>1, RowFacts
    <3>2. CASE m = l
      BY <1>1, <3>1, <3>2, RowFacts
    <3>3. CASE m # l
      BY <1>1, <3>1, <3>3, RowFacts DEF RowsAreRanked
    <3> QED BY <3>2, <3>3
  <2> QED BY <1>1, <2>1, <2>2, RowFacts DEF RowsAreRanked
<1>2. CASE \A l \in Logins : ~InsertSession(l)
  <2>1. Rows' = Rows
    BY <1>2, RowsUntouched DEF Rows
  <2> QED BY <1>2, <2>1, RowsUntouched DEF RowsAreRanked
<1> QED BY <1>1, <1>2

-----------------------------------------------------------------------------
LEMMA TypeStep ==
  ASSUME TypeInv, RowsAreRanked, [Next]_vars
  PROVE  TypeInv'
<1>1. CASE UNCHANGED vars
  BY <1>1 DEF TypeInv, TypeOK, AccountsAreFound, Rows, Number, vars, codeVars, sessionVars, histVars
<1>2. ASSUME NEW l \in Logins, Login(l) \/ Fail(l)
      PROVE  TypeInv'
  BY <1>2, AcceptType, MoveType, FindType, InsertType, CheckType, SessionType DEF Login
<1>3. ASSUME NEW s \in Spellings, ExpireOtp(s) \/ \E c \in Texts : StoreOtp(c, s)
      PROVE  TypeInv'
  BY <1>3, CodeStepType
<1> QED BY <1>1, <1>2, <1>3 DEF Next

-----------------------------------------------------------------------------
(* The rows of users.                                                       *)

(* What a step does to the accounts and to the numbers of logins begun. *)
LEMMA AccountFacts ==
  ASSUME TypeInv, [Next]_vars
  PROVE  /\ \A n \in Numbers : users[n] # NoUser => users'[n] = users[n]
         /\ \A n \in Numbers : users[n] = NoUser /\ users'[n] # NoUser =>
              \E l \in Logins : users'[n] = l /\ Number(l) = n /\ pc[l] = "insert"
         /\ \A m \in Logins : pc[m] # "new" =>
              pc'[m] # "new" /\ phone'[m] = phone[m] /\ Number(m)' = Number(m)
<1> DEFINE Facts == /\ \A n \in Numbers : users[n] # NoUser => users'[n] = users[n]
                    /\ \A n \in Numbers : users[n] = NoUser /\ users'[n] # NoUser =>
                         \E l \in Logins : users'[n] = l /\ Number(l) = n /\ pc[l] = "insert"
                    /\ \A m \in Logins : pc[m] # "new" => pc'[m] # "new" /\ phone'[m] = phone[m]
<1>1. ASSUME UNCHANGED vars PROVE Facts
  BY <1>1 DEF vars
<1>2. ASSUME NEW s \in Spellings, ExpireOtp(s) \/ \E c \in Texts : StoreOtp(c, s)
      PROVE  Facts
  BY <1>2 DEF ExpireOtp, StoreOtp
<1>3. ASSUME NEW l \in Logins, Login(l) \/ Fail(l)
      PROVE  Facts
  <2>1. CASE \E s \in Spellings : AcceptOtp(l, s)
    BY <2>1 DEF AcceptOtp, Step, TypeInv, TypeOK
  <2>2. CASE \/ DeleteOtp(l) \/ DeleteAttempts(l) \/ UpdateUser(l)
             \/ CheckConcurrent(l) \/ InsertSession(l)
    BY <2>2 DEF DeleteOtp, DeleteAttempts, UpdateUser, CheckConcurrent, InsertSession, Step, TypeInv, TypeOK
  <2>3. CASE Fail(l)
    BY <2>3 DEF Fail, TypeInv, TypeOK
  <2>4. CASE FindUser(l)
    <3>1. pc'[l] # "new" /\ \A m \in Logins \ {l} : pc'[m] = pc[m]
      BY <2>4 DEF FindUser, Step, TypeInv, TypeOK
    <3>2. users' = users /\ phone' = phone
      BY <2>4 DEF FindUser
    <3> QED BY <3>1, <3>2
  <2>5. CASE InsertUser(l)
    BY <2>5, InsertFacts
  <2> QED BY <1>3, <2>1, <2>2, <2>3, <2>4, <2>5 DEF Login
<1>4. Facts
  BY <1>1, <1>2, <1>3 DEF Next
<1> QED BY <1>4 DEF Number

LEMMA OwnedStep ==
  ASSUME TypeInv, AccountsAreOwned, [Next]_vars
  PROVE  AccountsAreOwned'
<1> SUFFICES ASSUME NEW n \in Numbers, users'[n] # NoUser
             PROVE  pc'[users'[n]] # "new" /\ Normalize(phone'[users'[n]]) = n
  BY DEF AccountsAreOwned, Number
<1>1. CASE users[n] # NoUser
  <2>1. users'[n] = users[n] /\ users[n] \in Logins /\ pc[users[n]] # "new" /\ Number(users[n]) = n
    BY <1>1, AccountFacts DEF AccountsAreOwned, TypeInv, TypeOK
  <2> QED BY <2>1, AccountFacts DEF Number
<1>2. CASE users[n] = NoUser
  <2>1. PICK l \in Logins : users'[n] = l /\ Number(l) = n /\ pc[l] = "insert"
    BY <1>2, AccountFacts
  <2> QED BY <2>1, AccountFacts DEF Number
<1> QED BY <1>1, <1>2

(* A login that began when its number had an account never inserts one. *)
LEMMA KnownStep ==
  ASSUME TypeInv, KnownHaveAccounts, [Next]_vars
  PROVE  KnownHaveAccounts'
<1> SUFFICES ASSUME NEW k \in known'
             PROVE  users'[Number(k)'] # NoUser /\ pc'[k] \notin {"new", "insert", "conflict"}
  BY DEF KnownHaveAccounts
<1>1. CASE k \in known
  <2>1. /\ k \in Logins /\ users[Number(k)] # NoUser /\ pc[k] \notin {"new", "insert", "conflict"}
        /\ Number(k) \in Numbers
    BY <1>1, NumberType DEF KnownHaveAccounts, TypeInv, TypeOK, Number
  <2>2. users'[Number(k)'] # NoUser /\ pc'[k] # "new"
    BY <2>1, AccountFacts
  <2>3. pc'[k] \notin {"insert", "conflict"}
    <3>1. CASE UNCHANGED vars
      BY <2>1, <3>1 DEF vars
    <3>2. ASSUME NEW s \in Spellings, ExpireOtp(s) \/ \E c \in Texts : StoreOtp(c, s)
          PROVE  pc'[k] = pc[k]
      BY <3>2 DEF ExpireOtp, StoreOtp
    <3>3. ASSUME NEW l \in Logins, Login(l) \/ Fail(l)
          PROVE  pc'[k] \notin {"insert", "conflict"}
      <4>1. CASE InsertUser(l)
        BY <2>1, <4>1, InsertFacts
      <4>2. CASE FindUser(l)
        BY <2>1, <4>2 DEF FindUser, Step, TypeInv, TypeOK
      <4>3. CASE Fail(l)
        BY <2>1, <4>3 DEF Fail, TypeInv, TypeOK
      <4>4. CASE \/ DeleteOtp(l) \/ DeleteAttempts(l) \/ UpdateUser(l)
                 \/ CheckConcurrent(l) \/ InsertSession(l) \/ \E s \in Spellings : AcceptOtp(l, s)
        BY <2>1, <4>4 DEF DeleteOtp, DeleteAttempts, UpdateUser, CheckConcurrent, InsertSession,
                          AcceptOtp, Step, TypeInv, TypeOK
      <4> QED BY <3>3, <4>1, <4>2, <4>3, <4>4 DEF Login
    <3> QED BY <2>1, <3>1, <3>2, <3>3 DEF Next
  <2> QED BY <2>2, <2>3
<1>2. CASE k \notin known
  <2>1. PICK l \in Logins : \E s \in Spellings : AcceptOtp(l, s)
    BY <1>2 DEF Next, Login, vars, histVars, ExpireOtp, StoreOtp, DeleteOtp, DeleteAttempts, FindUser,
                UpdateUser, InsertUser, CheckConcurrent, InsertSession, Fail
  <2>2. PICK s \in Spellings : AcceptOtp(l, s)
    BY <2>1
  <2>3. /\ k = l /\ users[Normalize(s)] # NoUser /\ users' = users
        /\ phone'[l] = s /\ pc'[l] = "delOtp"
    BY <1>2, <2>2 DEF AcceptOtp, Step, TypeInv, TypeOK
  <2> QED BY <2>3 DEF Number
<1> QED BY <1>1, <1>2

-----------------------------------------------------------------------------
(* The look at the sessions of the account.                                 *)

(* The least-number principle, for a set of numbers. *)
LEMMA LeastByOrder ==
  ASSUME NEW T \in SUBSET Nat, T # {}
  PROVE  \E x \in T : \A y \in T : ~(y < x)
<1>1. \E x \in T : \A y \in T : ~(<<y, x>> \in OpToRel(<, Nat))
  BY NatLessThanWellFounded, WFMin
<1> QED BY <1>1, Zenon DEF OpToRel

(* Among the logins of a set there is one whose row is the newest. *)
LEMMA NewestExists ==
  ASSUME TypeOK, NEW B \in Nat, \A m \in Logins : createdAt[m] <= B,
         NEW D \in SUBSET Logins, D # {}
  PROVE  \E m \in D : \A n \in D : createdAt[n] <= createdAt[m]
<1> DEFINE T == {B - createdAt[m] : m \in D}
<1>1. \A m \in D : createdAt[m] \in Nat /\ createdAt[m] <= B /\ B - createdAt[m] \in Nat
  BY DEF TypeOK
<1>2. T \in SUBSET Nat /\ T # {}
  BY <1>1
<1>3. PICK x \in T : \A y \in T : ~(y < x)
  BY <1>2, LeastByOrder
<1>4. PICK m \in D : x = B - createdAt[m]
  BY <1>3
<1>5. \A n \in D : ~(B - createdAt[n] < B - createdAt[m])
  BY <1>3, <1>4
<1> QED BY <1>1, <1>5

LEMMA SightedStep ==
  ASSUME TypeInv, RowsAreRanked, SightedHaveRows, [Next]_vars
  PROVE  SightedHaveRows'
<1>0. Rows \subseteq Rows'
  <2>1. ASSUME NEW l \in Logins, InsertSession(l) PROVE Rows \subseteq Rows'
    BY <2>1, RowFacts
  <2>2. CASE \A l \in Logins : ~InsertSession(l)
    BY <2>2, RowsUntouched DEF Rows
  <2> QED BY <2>1, <2>2
<1>1. ASSUME NEW l \in Logins, CheckConcurrent(l)
      PROVE  SightedHaveRows'
  <2>1. user[l] # NoUser
    BY <1>1 DEF CheckConcurrent, Step, TypeInv, AccountsAreFound
  <2>2. Of(user[l]) \subseteq Rows
    BY <2>1 DEF Of, Rows, TypeInv, TypeOK
  <2>3. \A m \in Logins : sighted'[m] = sighted[m] \/ sighted'[m] = Of(user[l])
    BY <1>1 DEF CheckConcurrent, TypeInv, TypeOK
  <2> QED BY <1>0, <2>2, <2>3 DEF SightedHaveRows
<1>2. CASE \A l \in Logins : ~CheckConcurrent(l)
  <2>1. sighted' = sighted
    BY <1>2 DEF Next, Login, vars, histVars, ExpireOtp, StoreOtp, AcceptOtp, DeleteOtp, DeleteAttempts,
                FindUser, UpdateUser, InsertUser, InsertSession, Fail
  <2> QED BY <1>0, <2>1 DEF SightedHaveRows
<1> QED BY <1>1, <1>2

(* What hides the session of another address: newer ones from the login's. *)
Hiding(l, m) == {n \in sighted[l] : IpOf[n] = IpOf[l] /\ createdAt[n] > createdAt[m]}

(* A check that is not flagged: the newest session from another address is  *)
(* not among the CheckLimit newest, and all that are newer than it are from *)
(* the login's own.                                                         *)
LEMMA CheckHides ==
  ASSUME TypeInv, RowsAreRanked, NEW l \in Logins, CheckConcurrent(l), l \notin flagged',
         NEW m \in sighted'[l], IpOf[m] # IpOf[l]
  PROVE  Cardinality(Hiding(l, m)') >= CheckLimit
<1>1. /\ sighted'[l] = Of(user[l]) /\ createdAt' = createdAt /\ user[l] # NoUser
      /\ \A n \in RecentOf(user[l]) : IpOf[n] = IpOf[l]
  BY DEF CheckConcurrent, Step, TypeInv, TypeOK, AccountsAreFound, sessionVars
<1> DEFINE U == Of(user[l])
           D == {n \in U : IpOf[n] # IpOf[l]}
<1>2. U \subseteq Rows /\ U \subseteq Logins /\ IsFiniteSet(Rows) /\ Cardinality(Rows) \in Nat
  BY <1>1, FS_CardinalityType DEF Of, Rows, TypeInv, TypeOK
<1>3. D \in SUBSET Logins /\ m \in D
  BY <1>1, <1>2
<1>4. \A n \in Logins : createdAt[n] <= Cardinality(Rows)
  BY DEF RowsAreRanked
<1> HIDE DEF D
<1>5. PICK d \in D : \A n \in D : createdAt[n] <= createdAt[d]
  BY <1>2, <1>3, <1>4, NewestExists DEF TypeInv
<1>6. d \in U /\ IpOf[d] # IpOf[l] /\ \A n \in U : IpOf[n] # IpOf[l] => createdAt[n] <= createdAt[d]
  BY <1>5 DEF D
<1>7. d \notin RecentOf(user[l])
  BY <1>1, <1>6
<1>8. ~(Cardinality(NewerOf(user[l], d)) < CheckLimit)
  BY <1>6, <1>7 DEF RecentOf
<1>9. NewerOf(user[l], d) \subseteq Hiding(l, m)'
  <2> SUFFICES ASSUME NEW n \in NewerOf(user[l], d) PROVE n \in Hiding(l, m)'
    OBVIOUS
  <2>1. n \in U /\ createdAt[n] > createdAt[d]
    BY DEF NewerOf
  <2>2. n \in Logins /\ d \in Logins /\ m \in Logins /\ createdAt[m] <= createdAt[d]
    BY <1>2, <1>3, <1>5, <1>6, <2>1
  <2>3. createdAt[n] \in Nat /\ createdAt[d] \in Nat /\ createdAt[m] \in Nat
    BY <2>2 DEF TypeInv, TypeOK
  <2>4. IpOf[n] = IpOf[l] /\ createdAt[n] > createdAt[m]
    BY <1>6, <2>1, <2>2, <2>3
  <2> QED BY <1>1, <2>1, <2>4 DEF Hiding
<1>10. IsFiniteSet(Hiding(l, m)')
  <2>1. Hiding(l, m)' \subseteq Rows
    BY <1>1, <1>2 DEF Hiding
  <2> QED BY <1>2, <2>1, FS_Subset
<1>11. /\ Cardinality(NewerOf(user[l], d)) <= Cardinality(Hiding(l, m)')
       /\ Cardinality(NewerOf(user[l], d)) \in Nat /\ Cardinality(Hiding(l, m)') \in Nat
  BY <1>9, <1>10, FS_Subset, FS_CardinalityType
<1> QED BY <1>8, <1>11, LimitsAssumption

(* What was seen stays as it was: rows are never written again. *)
LEMMA OverlapStep ==
  ASSUME TypeInv, RowsAreRanked, SightedHaveRows, UnnoticedNeedsOverlap, [Next]_vars
  PROVE  UnnoticedNeedsOverlap'
<1> SUFFICES ASSUME NEW l \in Logins, l \notin flagged', NEW m \in Logins,
                    m \in sighted'[l], IpOf[m] # IpOf[l]
             PROVE  Cardinality(Hiding(l, m)') >= CheckLimit
  BY DEF UnnoticedNeedsOverlap, Hiding
<1>1. CASE CheckConcurrent(l)
  BY <1>1, CheckHides
<1>2. CASE ~CheckConcurrent(l)
  <2>1. sighted'[l] = sighted[l] /\ flagged \subseteq flagged'
    <3>1. ASSUME NEW k \in Logins, CheckConcurrent(k)
          PROVE  sighted'[l] = sighted[l] /\ flagged \subseteq flagged'
      <4>1. k # l
        BY <1>2, <3>1
      <4>2. flagged \subseteq flagged' /\ sighted' = [sighted EXCEPT ![k] = Of(user[k])]
        BY <3>1 DEF CheckConcurrent
      <4> QED BY <4>1, <4>2 DEF TypeInv, TypeOK
    <3>2. CASE \A k \in Logins : ~CheckConcurrent(k)
      BY <3>2 DEF Next, Login, vars, histVars, ExpireOtp, StoreOtp, AcceptOtp, DeleteOtp, DeleteAttempts,
                  FindUser, UpdateUser, InsertUser, InsertSession, Fail
    <3> QED BY <3>1, <3>2
  <2>2. \A n \in sighted[l] : createdAt'[n] = createdAt[n]
    <3>1. ASSUME NEW k \in Logins, InsertSession(k)
          PROVE  \A n \in sighted[l] : createdAt'[n] = createdAt[n]
      <4>1. k \notin sighted[l] /\ sighted[l] \subseteq Logins
        BY <3>1, RowFacts DEF SightedHaveRows, TypeInv, TypeOK
      <4> QED BY <3>1, <4>1, RowFacts
    <3>2. CASE \A k \in Logins : ~InsertSession(k)
      BY <3>2, RowsUntouched
    <3> QED BY <3>1, <3>2
  <2>3. Hiding(l, m)' = Hiding(l, m)
    BY <2>1, <2>2 DEF Hiding
  <2>4. Cardinality(Hiding(l, m)) >= CheckLimit
    BY <2>1 DEF UnnoticedNeedsOverlap, Hiding
  <2> QED BY <2>3, <2>4
<1> QED BY <1>1, <1>2

-----------------------------------------------------------------------------
(* Each part of the strengthening holds at first and is kept by every step. *)
THEOREM Invariance == Spec => []IndInv
<1> DEFINE Inv == /\ TypeInv /\ AccountsAreOwned /\ RowsAreRanked /\ SightedHaveRows
                  /\ KnownHaveAccounts /\ UnnoticedNeedsOverlap
<1>1. Init => Inv
  <2> SUFFICES ASSUME Init PROVE Inv
    OBVIOUS
  <2>1. Rows = {} /\ known = {} /\ \A l \in Logins : sighted[l] = {}
    BY DEF Init, Rows
  <2>2. RowsAreRanked
    BY <2>1, FS_EmptySet DEF Init, RowsAreRanked
  <2> QED BY <2>1, <2>2, InitType
       DEF Init, AccountsAreOwned, SightedHaveRows, KnownHaveAccounts, UnnoticedNeedsOverlap
<1>2. Inv /\ [Next]_vars => Inv'
  BY TypeStep, OwnedStep, RankedStep, SightedStep, KnownStep, OverlapStep
<1>3. Inv => IndInv
  BY DEF TypeInv, IndInv
<1> QED BY <1>1, <1>2, <1>3, PTL DEF Spec

(* Every state is well typed: a login that has its account's session, or    *)
(* is about to, holds the account of its own number.                        *)
THEOREM TypeCorrect == Spec => []TypeOK
<1>1. IndInv => TypeOK
  BY DEF IndInv
<1> QED BY <1>1, Invariance, PTL

(* Two logins that ended in a session are in one account exactly if their   *)
(* normalised phones are equal, whichever of them created it: the part of   *)
(* OneAccountPerNumber that is not about the characters of a phone.         *)
AccountsFollowNumbers ==
  \A l, m \in Logins : pc[l] = "done" /\ pc[m] = "done" =>
    (sessions[l] = sessions[m] <=> Normalize(phone[l]) = Normalize(phone[m]))

THEOREM OneAccount == Spec => []AccountsFollowNumbers
<1>1. IndInv => AccountsFollowNumbers
  <2> SUFFICES ASSUME IndInv, NEW l \in Logins, NEW m \in Logins, pc[l] = "done", pc[m] = "done"
               PROVE  sessions[l] = sessions[m] <=> Number(l) = Number(m)
    BY DEF AccountsFollowNumbers, Number
  <2>1. /\ sessions[l] = user[l] /\ users[Number(l)] = user[l] /\ user[l] # NoUser
        /\ sessions[m] = user[m] /\ users[Number(m)] = user[m] /\ user[m] # NoUser
    BY DEF IndInv, AccountsAreFound, RowsAreRanked
  <2>2. Number(l) \in Numbers /\ Number(m) \in Numbers
    BY NumberType DEF Number, IndInv, TypeOK
  <2>3. Number(user[l]) = Number(l) /\ Number(user[m]) = Number(m)
    BY <2>1, <2>2 DEF IndInv, AccountsAreOwned
  <2> QED BY <2>1, <2>3
<1> QED BY <1>1, Invariance, PTL

-----------------------------------------------------------------------------
(* What normalising does to the characters of a phone.                      *)

(* The characters kept of a spelling are again a sequence: the rank of a     *)
(* kept place numbers the kept places from 1 on without a gap.              *)
LEMMA KeptIsSequence ==
  ASSUME NEW p \in Seq(STRING)
  PROVE  Kept(p) \in Seq(STRING)
<1> DEFINE K == KeptAt(p)
           upTo(i) == {j \in K : j <= i}
           rank == [i \in K |-> Cardinality(upTo(i))]
           m == Cardinality(K)
<1>1. K \subseteq 1 .. Len(p) /\ IsFiniteSet(K) /\ m \in Nat /\ K \subseteq Int
  <2>1. Len(p) \in Nat /\ K \in SUBSET (1 .. Len(p))
    BY DEF KeptAt
  <2>2. IsFiniteSet(1 .. Len(p))
    BY <2>1, FS_Interval
  <2>3. IsFiniteSet(K) /\ Cardinality(K) \in Nat
    BY <2>1, <2>2, FS_Subset, FS_CardinalityType
  <2> QED BY <2>1, <2>3
<1>2. \A i \in K : /\ IsFiniteSet(upTo(i)) /\ Cardinality(upTo(i)) \in Nat
                     /\ Cardinality(upTo(i)) \in 1 .. m
  <2> SUFFICES ASSUME NEW i \in K
               PROVE  /\ IsFiniteSet(upTo(i)) /\ Cardinality(upTo(i)) \in Nat
                      /\ Cardinality(upTo(i)) \in 1 .. m
    OBVIOUS
  <2>1. upTo(i) \in SUBSET K /\ i \in upTo(i)
    BY <1>1
  <2>2. IsFiniteSet(upTo(i)) /\ Cardinality(upTo(i)) <= m
    BY <1>1, <2>1, FS_Subset
  <2>3. Cardinality(upTo(i)) \in Nat /\ Cardinality(upTo(i)) # 0
    BY <2>1, <2>2, FS_CardinalityType, FS_EmptySet
  <2> QED BY <1>1, <2>2, <2>3
<1>3. \A i, j \in K : i < j => Cardinality(upTo(i)) < Cardinality(upTo(j))
  <2> SUFFICES ASSUME NEW i \in K, NEW j \in K, i < j
               PROVE  Cardinality(upTo(i)) < Cardinality(upTo(j))
    OBVIOUS
  <2>1. upTo(i) \in SUBSET upTo(j) /\ j \in upTo(j) /\ j \notin upTo(i)
    BY <1>1
  <2>2. upTo(j) # upTo(i)
    BY <2>1
  <2> HIDE DEF upTo
  <2>3. IsFiniteSet(upTo(j)) /\ Cardinality(upTo(i)) \in Nat /\ Cardinality(upTo(j)) \in Nat
    BY <1>2
  <2>4. Cardinality(upTo(i)) <= Cardinality(upTo(j)) /\ Cardinality(upTo(j)) # Cardinality(upTo(i))
    BY <2>1, <2>2, <2>3, FS_Subset
  <2> QED BY <2>3, <2>4
<1>4. rank \in Injection(K, 1 .. m)
  <2>1. \A i, j \in K : Cardinality(upTo(i)) = Cardinality(upTo(j)) => i = j
    <3> SUFFICES ASSUME NEW i \in K, NEW j \in K, i # j
                 PROVE  Cardinality(upTo(i)) # Cardinality(upTo(j))
      OBVIOUS
    <3>1. i < j \/ j < i
      BY <1>1
    <3> HIDE DEF upTo
    <3>2. Cardinality(upTo(i)) \in Nat /\ Cardinality(upTo(j)) \in Nat
      BY <1>2
    <3> QED BY <1>3, <3>1, <3>2
  <2> HIDE DEF upTo
  <2> QED BY <1>2, <2>1 DEF Injection, IsInjective
<1>5. \A n \in 1 .. m : \E i \in K : Cardinality(upTo(i)) = n
  <2>1. IsFiniteSet(1 .. m) /\ Cardinality(1 .. m) = m
    BY <1>1, FS_Interval
  <2>2. rank \in Surjection(K, 1 .. m)
    BY <1>4, <2>1, FS_Injection
  <2> QED BY <2>2 DEF Surjection
<1> DEFINE place(n) == CHOOSE i \in K : Cardinality(upTo(i)) = n
<1>6. \A n \in 1 .. m : place(n) \in K
  <2> HIDE DEF K, upTo
  <2> QED BY <1>5
<1>7. Kept(p) = [n \in 1 .. m |-> p[place(n)]]
  BY DEF Kept
<1> HIDE DEF K, upTo, place
<1>8. ASSUME NEW n \in 1 .. m
      PROVE  p[place(n)] \in STRING
  <2>1. place(n) \in 1 .. Len(p)
    BY <1>1, <1>6
  <2> QED BY <2>1
<1> QED BY <1>1, <1>7, <1>8

(* The characters of a phone; that a literal is a string is not a fact the  *)
(* provers have.                                                            *)
Chars == STRING \cup {"+"}

(* The prefix of a phone, by its first characters. *)
In0098(t) == Len(t) >= 4 /\ t[1] = "0" /\ t[2] = "0" /\ t[3] = "9" /\ t[4] = "8"
InPlus98(t) == Len(t) >= 3 /\ t[1] = "+" /\ t[2] = "9" /\ t[3] = "8"
In98(t) == Len(t) >= 2 /\ t[1] = "9" /\ t[2] = "8"
In0(t) == Len(t) >= 1 /\ t[1] = "0"

LEMMA PrefixByCharacters ==
  ASSUME NEW t \in Seq(Chars)
  PROVE  /\ PrefixAt(t) \in 1 .. 5
         /\ PrefixAt(t) = 1 => In0098(t) /\ Subscriber(t) = SubSeq(t, 5, Len(t))
         /\ PrefixAt(t) = 2 => InPlus98(t) /\ Subscriber(t) = SubSeq(t, 4, Len(t))
         /\ PrefixAt(t) = 3 => In98(t) /\ Subscriber(t) = SubSeq(t, 3, Len(t))
         /\ PrefixAt(t) = 4 => In0(t) /\ Subscriber(t) = SubSeq(t, 2, Len(t))
         /\ PrefixAt(t) = 5 => /\ ~In0098(t) /\ ~InPlus98(t) /\ ~In98(t) /\ ~In0(t)
                               /\ Subscriber(t) = SubSeq(t, 1, Len(t))
         /\ IsPrefix(<<"9", "8">>, t) <=> In98(t)
<1> DEFINE P(i)     == IsPrefix(DialPrefixes[i], t)
           first(i) == P(i) /\ \A j \in 1 .. i - 1 : ~P(j)
<1>1. /\ IsPrefix(<<"0", "0", "9", "8">>, t) <=> In0098(t)
      /\ IsPrefix(<<"+", "9", "8">>, t) <=> InPlus98(t)
      /\ IsPrefix(<<"9", "8">>, t) <=> In98(t)
      /\ IsPrefix(<<"0">>, t) <=> In0(t)
      /\ IsPrefix(<<>>, t)
  BY DEF IsPrefix, In0098, InPlus98, In98, In0
<1>2. /\ Len(DialPrefixes) = 5
      /\ DialPrefixes[1] = <<"0", "0", "9", "8">> /\ DialPrefixes[2] = <<"+", "9", "8">>
      /\ DialPrefixes[3] = <<"9", "8">> /\ DialPrefixes[4] = <<"0">> /\ DialPrefixes[5] = <<>>
  BY DEF DialPrefixes
<1>3. /\ Len(DialPrefixes[1]) = 4 /\ Len(DialPrefixes[2]) = 3 /\ Len(DialPrefixes[3]) = 2
      /\ Len(DialPrefixes[4]) = 1 /\ Len(DialPrefixes[5]) = 0
  BY <1>2
<1>4. (P(1) <=> In0098(t)) /\ (P(2) <=> InPlus98(t)) /\ (P(3) <=> In98(t)) /\ (P(4) <=> In0(t)) /\ P(5)
  BY <1>1, <1>2
<1>5. PrefixAt(t) = CHOOSE i \in 1 .. 5 : first(i)
  BY <1>2 DEF PrefixAt
<1> HIDE DEF P
<1>6. ASSUME NEW i \in 1 .. 5, first(i)
      PROVE  PrefixAt(t) = i
  <2>1. \A j \in 1 .. 5 : first(j) => j = i
    <3> SUFFICES ASSUME NEW j \in 1 .. 5, first(j)
                 PROVE  j = i
      OBVIOUS
    <3>1. ~(i < j) /\ ~(j < i)
      BY <1>6
    <3> QED BY <3>1
  <2> HIDE DEF first
  <2> QED BY <1>5, <1>6, <2>1
<1>7. Subscriber(t) = SubSeq(t, Len(DialPrefixes[PrefixAt(t)]) + 1, Len(t))
  BY DEF Subscriber
<1>8. CASE P(1)
  <2>1. first(1)
    BY <1>8
  <2>2. PrefixAt(t) = 1
    BY <1>6, <2>1
  <2>3. Len(DialPrefixes[PrefixAt(t)]) = 4
    BY <1>3, <2>2, Zenon
  <2>4. Subscriber(t) = SubSeq(t, 4 + 1, Len(t)) /\ 4 + 1 = 5
    BY <1>7, <2>3
  <2> QED BY <1>1, <1>4, <1>8, <2>2, <2>4
<1>9. CASE ~P(1) /\ P(2)
  <2>1. first(2)
    BY <1>9
  <2>2. PrefixAt(t) = 2
    BY <1>6, <2>1
  <2>3. Len(DialPrefixes[PrefixAt(t)]) = 3
    BY <1>3, <2>2, Zenon
  <2>4. Subscriber(t) = SubSeq(t, 3 + 1, Len(t)) /\ 3 + 1 = 4
    BY <1>7, <2>3
  <2> QED BY <1>1, <1>4, <1>9, <2>2, <2>4
<1>10. CASE ~P(1) /\ ~P(2) /\ P(3)
  <2>1. first(3)
    BY <1>10
  <2>2. PrefixAt(t) = 3
    BY <1>6, <2>1
  <2>3. Len(DialPrefixes[PrefixAt(t)]) = 2
    BY <1>3, <2>2, Zenon
  <2>4. Subscriber(t) = SubSeq(t, 2 + 1, Len(t)) /\ 2 + 1 = 3
    BY <1>7, <2>3
  <2> QED BY <1>1, <1>4, <1>10, <2>2, <2>4
<1>11. CASE ~P(1) /\ ~P(2) /\ ~P(3) /\ P(4)
  <2>1. first(4)
    BY <1>11
  <2>2. PrefixAt(t) = 4
    BY <1>6, <2>1
  <2>3. Len(DialPrefixes[PrefixAt(t)]) = 1
    BY <1>3, <2>2, Zenon
  <2>4. Subscriber(t) = SubSeq(t, 1 + 1, Len(t)) /\ 1 + 1 = 2
    BY <1>7, <2>3
  <2> QED BY <1>1, <1>4, <1>11, <2>2, <2>4
<1>12. CASE ~P(1) /\ ~P(2) /\ ~P(3) /\ ~P(4)
  <2>1. first(5)
    BY <1>4, <1>12
  <2>2. PrefixAt(t) = 5
    BY <1>6, <2>1
  <2>3. Len(DialPrefixes[PrefixAt(t)]) = 0
    BY <1>3, <2>2, Zenon
  <2>4. Subscriber(t) = SubSeq(t, 0 + 1, Len(t)) /\ 0 + 1 = 1
    BY <1>7, <2>3
  <2> QED BY <1>1, <1>4, <1>12, <2>2, <2>4
<1> QED BY <1>8, <1>9, <1>10, <1>11, <1>12

(* A phone is its prefix and its subscriber's digits. *)
LEMMA PhoneFromParts ==
  ASSUME NEW t \in Seq(Chars), NEW u \in Seq(Chars),
         PrefixAt(t) = PrefixAt(u), Subscriber(t) = Subscriber(u)
  PROVE  t = u
<1>1. CASE PrefixAt(t) = 1
  <2>1. In0098(t) /\ In0098(u) /\ SubSeq(t, 5, Len(t)) = SubSeq(u, 5, Len(u))
    BY <1>1, PrefixByCharacters
  <2>2. Len(t) = Len(u)
    BY <2>1 DEF In0098
  <2>3. \A i \in 5 .. Len(t) : t[i] = u[i]
    <3> SUFFICES ASSUME NEW i \in 5 .. Len(t)
                 PROVE  t[i] = u[i]
      OBVIOUS
    <3>1. SubSeq(t, 5, Len(t))[i - 4] = t[i] /\ SubSeq(u, 5, Len(u))[i - 4] = u[i]
      BY <2>2
    <3> QED BY <2>1, <3>1
  <2>4. \A i \in 1 .. 4 : t[i] = u[i]
    BY <2>1 DEF In0098
  <2> QED BY <2>2, <2>3, <2>4
<1>2. CASE PrefixAt(t) = 2
  <2>1. InPlus98(t) /\ InPlus98(u) /\ SubSeq(t, 4, Len(t)) = SubSeq(u, 4, Len(u))
    BY <1>2, PrefixByCharacters
  <2> QED BY <2>1 DEF InPlus98
<1>3. CASE PrefixAt(t) = 3
  <2>1. In98(t) /\ In98(u) /\ SubSeq(t, 3, Len(t)) = SubSeq(u, 3, Len(u))
    BY <1>3, PrefixByCharacters
  <2> QED BY <2>1 DEF In98
<1>4. CASE PrefixAt(t) = 4
  <2>1. In0(t) /\ In0(u) /\ SubSeq(t, 2, Len(t)) = SubSeq(u, 2, Len(u))
    BY <1>4, PrefixByCharacters
  <2> QED BY <2>1 DEF In0
<1>5. CASE PrefixAt(t) = 5
  <2>1. SubSeq(t, 1, Len(t)) = SubSeq(u, 1, Len(u))
    BY <1>5, PrefixByCharacters
  <2> QED BY <2>1
<1> QED BY <1>1, <1>2, <1>3, <1>4, <1>5, PrefixByCharacters

(* A plus sign in front of 98 makes it the other spelling of that prefix. *)
Dialled(t) == IF IsPrefix(<<"9", "8">>, t) THEN <<"+">> \o t ELSE t

LEMMA DialledParts ==
  ASSUME NEW t \in Seq(Chars)
  PROVE  /\ Dialled(t) \in Seq(Chars)
         /\ PrefixAt(Dialled(t)) = IF PrefixAt(t) = 3 THEN 2 ELSE PrefixAt(t)
         /\ Subscriber(Dialled(t)) = Subscriber(t)
<1> DEFINE s == <<"+">> \o t
<1>1. CASE In98(t)
  <2>1. Dialled(t) = s
    BY <1>1, PrefixByCharacters DEF Dialled
  <2>2. s \in Seq(Chars) /\ Len(s) = Len(t) + 1 /\ InPlus98(s)
    <3>1. Len(t) \in Nat /\ Len(t) >= 2 /\ t[1] = "9" /\ t[2] = "8"
      BY <1>1 DEF In98
    <3>2. s \in Seq(Chars) /\ Len(s) = Len(t) + 1
      <4>1. \A x \in Chars : <<x>> \in Seq(Chars) /\ Len(<<x>>) = 1
        OBVIOUS
      <4>2. "+" \in Chars
        BY DEF Chars
      <4>3. <<"+">> \in Seq(Chars) /\ Len(<<"+">>) = 1
        BY <4>1, <4>2
      <4> QED BY <4>3
    <3>3. s[1] = "+"
      BY <3>1
    <3>4. s[2] = t[1]
      BY <3>1
    <3>5. s[3] = t[2]
      BY <3>1
    <3> HIDE DEF s
    <3> QED BY <3>1, <3>2, <3>3, <3>4, <3>5 DEF InPlus98
  <2>3. SubSeq(s, 4, Len(s)) = SubSeq(t, 3, Len(t))
    BY <1>1, <2>2 DEF In98
  <2> HIDE DEF s
  <2>4. ~In0098(s) /\ ~In98(s) /\ ~In0(s) /\ ~In0098(t) /\ ~InPlus98(t) /\ ~In0(t)
    BY <1>1, <2>2 DEF In0098, InPlus98, In98, In0
  <2>5. PrefixAt(s) = 2 /\ Subscriber(s) = SubSeq(s, 4, Len(s))
    BY <2>2, <2>4, PrefixByCharacters
  <2>6. PrefixAt(t) = 3 /\ Subscriber(t) = SubSeq(t, 3, Len(t))
    BY <1>1, <2>4, PrefixByCharacters
  <2> QED BY <2>1, <2>2, <2>3, <2>5, <2>6
<1>2. CASE ~In98(t)
  <2>1. Dialled(t) = t /\ PrefixAt(t) # 3
    BY <1>2, PrefixByCharacters DEF Dialled
  <2> QED BY <2>1
<1> QED BY <1>1, <1>2

(* Two phones normalise alike exactly if they reach one subscriber behind   *)
(* one prefix, 98 and +98 being one.                                        *)
LEMMA NormalizeTellsSubscribers ==
  ASSUME NEW p \in Seq(STRING), NEW q \in Seq(STRING)
  PROVE  Normalize(p) = Normalize(q) <=>
           Subscriber(Kept(p)) = Subscriber(Kept(q)) /\ SamePrefix(Kept(p), Kept(q))
<1> DEFINE t == Kept(p)
           u == Kept(q)
<1>1. t \in Seq(Chars) /\ u \in Seq(Chars)
  <2>1. t \in Seq(STRING) /\ u \in Seq(STRING)
    BY KeptIsSequence
  <2> HIDE DEF t, u
  <2> QED BY <2>1 DEF Chars
<1>2. Normalize(p) = Dialled(t) /\ Normalize(q) = Dialled(u)
  BY DEF Normalize, Dialled
<1> HIDE DEF t, u
<1>3. /\ Dialled(t) \in Seq(Chars) /\ Dialled(u) \in Seq(Chars)
      /\ PrefixAt(Dialled(t)) = IF PrefixAt(t) = 3 THEN 2 ELSE PrefixAt(t)
      /\ PrefixAt(Dialled(u)) = IF PrefixAt(u) = 3 THEN 2 ELSE PrefixAt(u)
      /\ Subscriber(Dialled(t)) = Subscriber(t)
      /\ Subscriber(Dialled(u)) = Subscriber(u)
  BY <1>1, DialledParts
<1>4. SamePrefix(t, u) <=> PrefixAt(Dialled(t)) = PrefixAt(Dialled(u))
  <2>1. PrefixAt(t) \in 1 .. 5 /\ PrefixAt(u) \in 1 .. 5
    BY <1>1, PrefixByCharacters
  <2>2. {PrefixAt(t), PrefixAt(u)} = {2, 3} <=>
          (PrefixAt(t) = 2 /\ PrefixAt(u) = 3) \/ (PrefixAt(t) = 3 /\ PrefixAt(u) = 2)
    BY <2>1
  <2> QED BY <1>3, <2>1, <2>2 DEF SamePrefix
<1>5. Dialled(t) = Dialled(u) <=> Subscriber(t) = Subscriber(u) /\ SamePrefix(t, u)
  BY <1>3, <1>4, PhoneFromParts
<1> QED
  BY <1>2, <1>5 DEF t, u

(* A phone in ASCII dials what is kept of it. *)
LEMMA AsciiDialsKept ==
  ASSUME NEW p \in Seq(STRING), InAsciiOnly(p)
  PROVE  Dial(p) = Kept(p)
<1>1. InAscii(p) = p
  BY DEF InAscii, InAsciiOnly
<1> QED BY <1>1 DEF Dial

(* Nothing is kept of a phone in the digits of other alphabets. *)
LEMMA LocalKeepsNothing ==
  ASSUME NEW p, NEW q, InLocalOnly(p), InLocalOnly(q)
  PROVE  Normalize(p) = Normalize(q)
<1>1. KeptAt(p) = {} /\ KeptAt(q) = {}
  BY DEF KeptAt, InLocalOnly
<1>2. Cardinality({}) = 0 /\ 1 .. 0 = {}
  BY FS_EmptySet
<1>3. Kept(p) = [n \in 1 .. 0 |-> p[CHOOSE i \in {} : Cardinality({j \in {} : j <= i}) = n]]
  BY <1>1, <1>2 DEF Kept
<1>4. Kept(q) = [n \in 1 .. 0 |-> q[CHOOSE i \in {} : Cardinality({j \in {} : j <= i}) = n]]
  BY <1>1, <1>2 DEF Kept
<1>5. Kept(p) = Kept(q)
  BY <1>2, <1>3, <1>4
<1> QED BY <1>5 DEF Normalize

(* Two sessions whose phones are in ASCII are in one account exactly if     *)
(* their phones reach one subscriber behind one prefix, whatever their      *)
(* punctuation and whichever login created the account; sessions whose      *)
(* phones are in the digits of other alphabets alone are all in one.        *)
THEOREM AccountsTellNumbers == Spec => []OneAccountPerNumber
<1>1. TypeOK /\ AccountsFollowNumbers => OneAccountPerNumber
  <2> SUFFICES ASSUME TypeOK, AccountsFollowNumbers,
                      NEW l \in Logins, NEW m \in Logins, pc[l] = "done", pc[m] = "done"
               PROVE  /\ InAsciiOnly(phone[l]) /\ InAsciiOnly(phone[m]) =>
                           (sessions[l] = sessions[m] <=> SameLine(phone[l], phone[m]))
                      /\ InLocalOnly(phone[l]) /\ InLocalOnly(phone[m]) => sessions[l] = sessions[m]
    BY DEF OneAccountPerNumber
  <2>1. phone[l] \in Seq(STRING) /\ phone[m] \in Seq(STRING)
    BY SpellingsAssumption DEF TypeOK
  <2>2. sessions[l] = sessions[m] <=> Normalize(phone[l]) = Normalize(phone[m])
    BY DEF AccountsFollowNumbers
  <2>3. ASSUME InAsciiOnly(phone[l]), InAsciiOnly(phone[m])
        PROVE  sessions[l] = sessions[m] <=> SameLine(phone[l], phone[m])
    <3>1. Dial(phone[l]) = Kept(phone[l]) /\ Dial(phone[m]) = Kept(phone[m])
      BY <2>1, <2>3, AsciiDialsKept
    <3> QED BY <2>1, <2>2, <3>1, NormalizeTellsSubscribers DEF SameLine
  <2>4. ASSUME InLocalOnly(phone[l]), InLocalOnly(phone[m])
        PROVE  sessions[l] = sessions[m]
    BY <2>2, <2>4, LocalKeepsNothing
  <2> QED BY <2>3, <2>4
<1> QED BY <1>1, OneAccount, TypeCorrect, PTL

(* Only a login that began before its number had an account can lose its    *)
(* code to a conflict at the UNIQUE column.                                 *)
THEOREM KnownNeverConflict == Spec => []OnlyFirstLoginsConflict
<1>1. IndInv => OnlyFirstLoginsConflict
  BY DEF IndInv, KnownHaveAccounts, OnlyFirstLoginsConflict
<1> QED BY <1>1, Invariance, PTL

(* Of two sessions of one account from different addresses, the check of    *)
(* the later login misses the earlier only if it came before its row or     *)
(* CheckLimit newer ones from the login's own address hid it.               *)
THEOREM UnnoticedOverlap == Spec => []UnnoticedNeedsOverlap
<1>1. IndInv => UnnoticedNeedsOverlap
  BY DEF IndInv
<1> QED BY <1>1, Invariance, PTL

=============================================================================
