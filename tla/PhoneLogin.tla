------------------------------ MODULE PhoneLogin ------------------------------
(***************************************************************************)
(* From an accepted code to a session: AuthService.verifyOtp.  OtpService  *)
(* keeps its keys under the phone as the client spells it, UserService     *)
(* finds or creates the account under the normalised phone, and            *)
(* createSession inserts the session after a look at the sessions the      *)
(* account has.  How the keys of a phone come and go is OtpFlow's matter;  *)
(* here a code is stored, accepted and deleted.  The account and the       *)
(* sessions are rows of PostgreSQL, read and written in steps of their own.*)
(***************************************************************************)
EXTENDS Integers, Sequences, FiniteSets, SequencesExt

CONSTANTS
  Texts,       (* requests for a code, each the name of the code it generates *)
  Logins,      (* verifications with the right code, each the name of the row *)
               (* it may insert into users and of the one into sessions       *)
  Spellings,   (* the phones clients send, as sequences of characters         *)
  LocalDigits, (* the digits of other alphabets a phone may be written in     *)
  AsciiOf,     (* the digit each of them stands for                           *)
  IpOf,        (* the address each login comes from                           *)
  CheckLimit,  (* SESSION.CONCURRENT_CHECK_LIMIT                              *)
  FailBudget,  (* bound: requests that end half-way                           *)
  NoCode,      (* no code is stored                                           *)
  NoUser       (* no row                                                      *)

ASSUME NullsAssumption     == NoCode \notin Texts /\ NoUser \notin Logins
ASSUME SpellingsAssumption == Spellings # {} /\ \A s \in Spellings : s \in Seq(STRING)
ASSUME LimitsAssumption    == CheckLimit \in Nat \ {0} /\ FailBudget \in Nat

VARIABLES
  code,      (* per spelling, the code otp:phone:<spelling> holds             *)
  issued,    (* per spelling, the codes stored so far or given up             *)
  users,     (* per normalised phone, the id of its row: phone is UNIQUE      *)
  sessions,  (* the user each session's row is for, NoUser before it exists   *)
  createdAt, (* rank of the row's created_at, 0 before it exists              *)
  pc,        (* where each login is                                           *)
  phone,     (* the spelling it came with                                     *)
  user,      (* the id findOrCreateUser gave it                               *)
  flagged,   (* logins logged as suspicious                                   *)
  fails,     (* what is left of the budget                                    *)
  known,     (* history: logins that began when their account had one         *)
  sighted    (* history: per login, the sessions of its user it checked among *)

codeVars    == <<code, issued>>
sessionVars == <<sessions, createdAt>>
histVars    == <<known, sighted>>
vars == <<codeVars, users, sessionVars, pc, phone, user, flagged, fails, histVars>>

-----------------------------------------------------------------------------
(* Phone numbers.                                                           *)

Digits == {"0", "1", "2", "3", "4", "5", "6", "7", "8", "9"}

ASSUME LocalAssumption == LocalDigits \cap (Digits \cup {"+"}) = {} /\ AsciiOf \in [LocalDigits -> Digits]

KeptAt(p) == {i \in DOMAIN p : p[i] \in Digits \cup {"+"}}

(* The characters \d and + match, in order: SelectSeq, in a form that can be reasoned about. *)
Kept(p) ==
  [n \in 1 .. Cardinality(KeptAt(p)) |->
     p[CHOOSE i \in KeptAt(p) : Cardinality({j \in KeptAt(p) : j <= i}) = n]]

(* Mutant of Normalize: spaces and dashes stay. *)
NormalizePrefix(p) == IF IsPrefix(<<"9", "8">>, p) THEN <<"+">> \o p ELSE p

(* normalizePhoneNumber; the branch for a phone in 09 leaves it as it is. *)
Normalize(p) == IF IsPrefix(<<"9", "8">>, Kept(p)) THEN <<"+">> \o Kept(p) ELSE Kept(p)

Numbers == {Normalize(p) : p \in Spellings}

-----------------------------------------------------------------------------
Pcs == {"new", "delOtp", "delAttempts", "find", "update", "insert", "check",
        "session", "done", "conflict", "failed"}

TypeOK ==
  /\ code \in [Spellings -> Texts \cup {NoCode}]
  /\ issued \in [Spellings -> SUBSET Texts]
  /\ users \in [Numbers -> Logins \cup {NoUser}]
  /\ sessions \in [Logins -> Logins \cup {NoUser}]
  /\ createdAt \in [Logins -> Nat]
  /\ \A l \in Logins : sessions[l] = NoUser <=> createdAt[l] = 0
  /\ pc \in [Logins -> Pcs]
  /\ phone \in [Logins -> Spellings]
  /\ user \in [Logins -> Logins \cup {NoUser}]
  /\ \A l \in Logins : pc[l] \in {"check", "session", "done"} =>
       user[l] # NoUser /\ users[Normalize(phone[l])] = user[l]
  /\ flagged \subseteq Logins /\ fails \in Nat
  /\ known \subseteq Logins /\ sighted \in [Logins -> SUBSET Logins]

Init ==
  /\ code = [s \in Spellings |-> NoCode]
  /\ issued = [s \in Spellings |-> {}]
  /\ users = [n \in Numbers |-> NoUser]
  /\ sessions = [l \in Logins |-> NoUser]
  /\ createdAt = [l \in Logins |-> 0]
  /\ pc = [l \in Logins |-> "new"]
  /\ phone = [l \in Logins |-> CHOOSE s \in Spellings : TRUE]
  /\ user = [l \in Logins |-> NoUser]
  /\ flagged = {} /\ fails = FailBudget
  /\ known = {} /\ sighted = [l \in Logins |-> {}]

Step(l, from, to) == pc[l] = from /\ pc' = [pc EXCEPT ![l] = to]

-----------------------------------------------------------------------------
(* The keys of one spelling.                                                *)

(* sendOtp stores a code; it is sent once, to one spelling. *)
StoreOtp(c, s) ==
  /\ \A q \in Spellings : c \notin issued[q]
  /\ code' = [code EXCEPT ![s] = c]
  /\ issued' = [issued EXCEPT ![s] = @ \cup {c}]
  /\ UNCHANGED <<users, sessionVars, pc, phone, user, flagged, fails, histVars>>

ExpireOtp(s) ==
  /\ code[s] # NoCode
  /\ code' = [code EXCEPT ![s] = NoCode]
  /\ UNCHANGED <<issued, users, sessionVars, pc, phone, user, flagged, fails, histVars>>

(* The stored code is read and the submitted one equals it. *)
AcceptOtp(l, s) ==
  /\ Step(l, "new", "delOtp")
  /\ code[s] # NoCode
  /\ phone' = [phone EXCEPT ![l] = s]
  /\ known' = known \cup {q \in {l} : users[Normalize(s)] # NoUser}
  /\ UNCHANGED <<codeVars, users, sessionVars, user, flagged, fails, sighted>>

(* Whichever code the key holds by now. *)
DeleteOtp(l) ==
  /\ Step(l, "delOtp", "delAttempts")
  /\ code' = [code EXCEPT ![phone[l]] = NoCode]
  /\ UNCHANGED <<issued, users, sessionVars, phone, user, flagged, fails, histVars>>

(* The counter itself is OtpFlow's. *)
DeleteAttempts(l) ==
  /\ Step(l, "delAttempts", "find")
  /\ UNCHANGED <<codeVars, users, sessionVars, phone, user, flagged, fails, histVars>>

-----------------------------------------------------------------------------
(* findOrCreateUser.                                                        *)

Number(l) == Normalize(phone[l])

(* Mutant of FindUser: the account is created without a look for one. *)
FindNobody(l) ==
  /\ Step(l, "find", "insert")
  /\ UNCHANGED <<codeVars, users, sessionVars, phone, user, flagged, fails, histVars>>

FindUser(l) ==
  /\ Step(l, "find", IF users[Number(l)] = NoUser THEN "insert" ELSE "update")
  /\ user' = [user EXCEPT ![l] = users[Number(l)]]
  /\ UNCHANGED <<codeVars, users, sessionVars, phone, flagged, fails, histVars>>

(* lastLoginAt is written and read by nothing. *)
UpdateUser(l) ==
  /\ Step(l, "update", "check")
  /\ UNCHANGED <<codeVars, users, sessionVars, phone, user, flagged, fails, histVars>>

(* Mutant of InsertUser: a row that is there already is written over. *)
UpsertUser(l) ==
  /\ Step(l, "insert", "check")
  /\ users' = [users EXCEPT ![Number(l)] = l]
  /\ user' = [user EXCEPT ![l] = l]
  /\ UNCHANGED <<codeVars, sessionVars, phone, flagged, fails, histVars>>

(* The INSERT fails when another login's came first. *)
InsertUser(l) ==
  LET free == users[Number(l)] = NoUser
  IN  /\ Step(l, "insert", IF free THEN "check" ELSE "conflict")
      /\ users' = [users EXCEPT ![Number(l)] = IF free THEN l ELSE @]
      /\ user' = [user EXCEPT ![l] = IF free THEN l ELSE @]
      /\ UNCHANGED <<codeVars, sessionVars, phone, flagged, fails, histVars>>

-----------------------------------------------------------------------------
(* createSession.                                                           *)

Of(u) == {m \in Logins : sessions[m] = u}
NewerOf(u, m) == {n \in Of(u) : createdAt[n] > createdAt[m]}

(* Mutant of RecentOf: the oldest sessions, not the newest. *)
OldestOf(u) == {m \in Of(u) : Cardinality(Of(u) \ NewerOf(u, m)) <= CheckLimit}

(* The query takes the newest few.  Its window, expires_at after five        *)
(* minutes ago, leaves none of these rows out.                               *)
RecentOf(u) == {m \in Of(u) : Cardinality(NewerOf(u, m)) < CheckLimit}

CheckConcurrent(l) ==
  /\ Step(l, "check", "session")
  /\ flagged' = flagged \cup {q \in {l} : \E m \in RecentOf(user[l]) : IpOf[m] # IpOf[l]}
  /\ sighted' = [sighted EXCEPT ![l] = Of(user[l])]
  /\ UNCHANGED <<codeVars, users, sessionVars, phone, user, fails, known>>

(* Tokens, the row; its Redis keys are the business of SessionAuth. *)
InsertSession(l) ==
  /\ Step(l, "session", "done")
  /\ sessions' = [sessions EXCEPT ![l] = user[l]]
  /\ createdAt' = [createdAt EXCEPT ![l] = Cardinality({m \in Logins : createdAt[m] > 0}) + 1]
  /\ UNCHANGED <<codeVars, users, phone, user, flagged, fails, histVars>>

(* A call rejects, or the process ends: the code is spent, no more happens. *)
Fail(l) ==
  /\ fails > 0
  /\ fails' = fails - 1
  /\ pc[l] \notin {"new", "done", "conflict", "failed"}
  /\ pc' = [pc EXCEPT ![l] = "failed"]
  /\ UNCHANGED <<codeVars, users, sessionVars, phone, user, flagged, histVars>>

Login(l) ==
  \/ \E s \in Spellings : AcceptOtp(l, s)
  \/ DeleteOtp(l) \/ DeleteAttempts(l)
  \/ FindUser(l) \/ UpdateUser(l) \/ InsertUser(l)
  \/ CheckConcurrent(l) \/ InsertSession(l)

Next ==
  \/ \E s \in Spellings : ExpireOtp(s) \/ \E c \in Texts : StoreOtp(c, s)
  \/ \E l \in Logins : Login(l) \/ Fail(l)

Spec == Init /\ [][Next]_vars

-----------------------------------------------------------------------------
(* Properties.                                                              *)

(* How a phone may begin, longest first, the subscriber's digits after it. *)
DialPrefixes == <<<<"0", "0", "9", "8">>, <<"+", "9", "8">>, <<"9", "8">>, <<"0">>, <<>>>>

PrefixAt(p) == CHOOSE i \in 1 .. Len(DialPrefixes) :
                 IsPrefix(DialPrefixes[i], p) /\ \A j \in 1 .. i - 1 : ~IsPrefix(DialPrefixes[j], p)

Subscriber(p) == SubSeq(p, Len(DialPrefixes[PrefixAt(p)]) + 1, Len(p))

(* 98 with or without its plus sign is one prefix. *)
SamePrefix(p, q) == PrefixAt(p) = PrefixAt(q) \/ {PrefixAt(p), PrefixAt(q)} = {2, 3}

(* What a phone dials: each digit read as the one it stands for, in whatever *)
(* alphabet, and no punctuation.                                             *)
InAscii(p) == [i \in DOMAIN p |-> IF p[i] \in LocalDigits THEN AsciiOf[p[i]] ELSE p[i]]
Dial(p)    == Kept(InAscii(p))

SameLine(p, q) == Subscriber(Dial(p)) = Subscriber(Dial(q)) /\ SamePrefix(Dial(p), Dial(q))

InAsciiOnly(p) == \A i \in DOMAIN p : p[i] \notin LocalDigits
InLocalOnly(p) == \A i \in DOMAIN p : p[i] \notin Digits \cup {"+"}

(* Two sessions whose phones are in ASCII belong to one account exactly if   *)
(* their phones reach one subscriber behind one prefix, however they are     *)
(* punctuated and whichever login created the account: behind 0, 0098 and    *)
(* +98 one subscriber has three accounts.  The digits of other alphabets,    *)
(* which IsPhoneNumber lets through, normalizePhoneNumber drops: all         *)
(* sessions whose phones are in those alone belong to one account, whoever   *)
(* their subscribers are.                                                    *)
OneAccountPerNumber ==
  \A l, m \in Logins : pc[l] = "done" /\ pc[m] = "done" =>
    LET p == phone[l]
        q == phone[m]
    IN  /\ InAsciiOnly(p) /\ InAsciiOnly(q) => (sessions[l] = sessions[m] <=> SameLine(p, q))
        /\ InLocalOnly(p) /\ InLocalOnly(q) => sessions[l] = sessions[m]

(* The code of a login is spent before its account is found, so a conflict   *)
(* at the UNIQUE column costs the client the code; but only a first login    *)
(* can lose this way: one that begins when the number has an account never.  *)
OnlyFirstLoginsConflict == \A l \in known : pc[l] # "conflict"

(* A login that is not logged as suspicious met no session of its account    *)
(* from another address when it checked, unless CheckLimit newer ones from   *)
(* its own address hid it: so two sessions from different addresses go       *)
(* unnoticed only if both checks came before either row, or hidden this way. *)
UnnoticedNeedsOverlap ==
  \A l \in Logins \ flagged, m \in Logins :
    m \in sighted[l] /\ IpOf[m] # IpOf[l] =>
      Cardinality({n \in sighted[l] : IpOf[n] = IpOf[l] /\ createdAt[n] > createdAt[m]}) >= CheckLimit

-----------------------------------------------------------------------------
(* The strengthening under which the safety properties are inductive.       *)

(* An account is the login's that created it, for the number it came with. *)
AccountsAreOwned ==
  \A n \in Numbers : users[n] # NoUser => pc[users[n]] # "new" /\ Number(users[n]) = n

(* A login past findOrCreateUser holds the account of its number. *)
AccountsAreFound ==
  \A l \in Logins : pc[l] \in {"update", "check", "session", "done"} =>
    user[l] # NoUser /\ users[Number(l)] = user[l]

(* Sessions are the finished logins' and ranked by age. *)
Rows == {m \in Logins : createdAt[m] > 0}

RowsAreRanked ==
  /\ IsFiniteSet(Rows)
  /\ \A m \in Logins : createdAt[m] > 0 => pc[m] = "done"
  /\ \A m \in Logins : pc[m] = "done" => sessions[m] = user[m]
  /\ \A m \in Logins : createdAt[m] <= Cardinality(Rows)

(* What was looked at has a row. *)
SightedHaveRows == \A l \in Logins : sighted[l] \subseteq Rows

KnownHaveAccounts ==
  \A l \in known : users[Number(l)] # NoUser /\ pc[l] \notin {"new", "insert", "conflict"}

IndInv == TypeOK /\ AccountsAreOwned /\ AccountsAreFound /\ RowsAreRanked /\ SightedHaveRows
            /\ KnownHaveAccounts /\ UnnoticedNeedsOverlap
=============================================================================
