-------------------------------- MODULE OtpFlow --------------------------------
(***************************************************************************)
(* One-time codes for one phone number: OtpService.sendOtp and verifyOtp,  *)
(* up to the point where the code is accepted and cleaned up.  All keys    *)
(* carry the phone, so the requests for one phone share: the code          *)
(* (otp:phone), two cooldown keys (otp:send:limit, otp:last_request) and   *)
(* the attempt counter (otp:verify:attempts).  Every Redis call is a step  *)
(* of its own; time passes between any two of them, in ticks, and a key    *)
(* carries the ticks it has left, 0 when it is absent.                     *)
(*                                                                         *)
(* A send request is also the name of the code it generates, so two codes  *)
(* are never equal; counters that only decide what is logged are left out. *)
(***************************************************************************)
EXTENDS Integers, FiniteSets

CONSTANTS
  Sends,        (* POST /auth/send-otp requests                              *)
  Verifies,     (* POST /auth/verify-otp requests                            *)
  Expiry,       (* auth.otp.expirySeconds, in ticks                          *)
  Cooldown,     (* auth.otp.sendCooldownSeconds, in ticks                    *)
  Window,       (* auth.rateLimit.verifyWindowSeconds, in ticks              *)
  MaxAttempts,  (* auth.otp.maxVerifyAttempts                                *)
  FailBudget,   (* bound: requests that end half-way                         *)
  NoOtp,        (* the key is absent                                         *)
  NoTtl,        (* the counter's key has no expiry yet                       *)
  Wrong         (* a guess that is no code                                   *)

Requests == Sends \cup Verifies

ASSUME RequestsAssumption == Sends \cap Verifies = {} /\ IsFiniteSet(Verifies)
ASSUME TimesAssumption    == {Expiry, Cooldown, Window} \subseteq Nat \ {0}
ASSUME LimitsAssumption   == {MaxAttempts, FailBudget} \subseteq Nat
ASSUME NullsAssumption    == NoOtp \notin Sends /\ Wrong \notin Sends /\ NoTtl \notin Nat

VARIABLES
  otp,         (* the code otp:phone holds                                   *)
  otpTtl,      (* ticks until Redis drops it                                 *)
  validFor,    (* per code, ticks until the expiresAt of its JSON            *)
  limitTtl, lastTtl,   (* ticks until the cooldown keys are dropped          *)
  attempts,    (* the counter, 0 when its key is absent                      *)
  attemptsTtl,
  pc,          (* where each request is                                      *)
  guess,       (* the code a verification submits                            *)
  count,       (* what its INCR returned                                     *)
  fails,       (* what is left of the budget                                 *)
  age,         (* history: ticks since a send began, at most Cooldown        *)
  hasty,       (* history: sends begun within Cooldown of one that was done   *)
  newest,      (* history: the last code stored                              *)
  overtaken,   (* history: codes stored while a cleanup was still to come    *)
  life,        (* history: the counter's life, one more when its key goes    *)
  lifeOf,      (* history: the life of the counter that numbered a guess     *)
  lives,       (* history: per code, the lives that reach into its stay       *)
  faced,       (* history: the code a verification compared its guess with    *)
  used,        (* history: the codes a verification has accepted             *)
  late         (* history: verifications begun with a code one had finished with *)

keyVars  == <<otp, otpTtl, validFor, limitTtl, lastTtl>>
tryVars  == <<attempts, attemptsTtl>>
lifeVars == <<life, lifeOf, lives>>
histVars == <<age, hasty, newest, overtaken, lifeVars, faced, used, late>>
vars == <<keyVars, tryVars, pc, guess, count, fails, histVars>>

SendPcs   == {"new", "cooldown", "store", "limit", "last", "sms", "done", "limited", "failed"}
VerifyPcs == {"new", "expire", "get", "lateDel", "delOtp", "delAttempts", "done", "limited", "rejected", "failed"}

TypeOK ==
  /\ otp \in Sends \cup {NoOtp}
  /\ otp = NoOtp <=> otpTtl = 0
  /\ validFor \in [Sends -> -1 .. Expiry]
  /\ otpTtl \in Nat /\ limitTtl \in Nat /\ lastTtl \in Nat
  /\ attempts \in Nat
  /\ attemptsTtl \in (Nat \ {0}) \cup {NoTtl}
  /\ pc \in [Requests -> SendPcs \cup VerifyPcs]
  /\ \A s \in Sends : pc[s] \in SendPcs
  /\ \A v \in Verifies : pc[v] \in VerifyPcs
  /\ guess \in [Verifies -> Sends \cup {Wrong}]
  /\ count \in [Verifies -> Nat]
  /\ fails \in Nat
  /\ age \in [Sends -> 0 .. Cooldown] /\ newest \in Sends \cup {NoOtp}
  /\ life \in Nat /\ lifeOf \in [Verifies -> 0 .. life] /\ lives \in [Sends -> SUBSET (0 .. life)]
  /\ faced \in [Verifies -> Sends \cup {NoOtp}] /\ late \subseteq Verifies
  /\ hasty \cup overtaken \cup used \subseteq Sends

Init ==
  /\ otp = NoOtp /\ otpTtl = 0 /\ validFor = [s \in Sends |-> -1]
  /\ limitTtl = 0 /\ lastTtl = 0
  /\ attempts = 0 /\ attemptsTtl = NoTtl
  /\ pc = [r \in Requests |-> "new"]
  /\ guess = [v \in Verifies |-> Wrong]
  /\ count = [v \in Verifies |-> 0]
  /\ fails = FailBudget
  /\ age = [s \in Sends |-> Cooldown]
  /\ newest = NoOtp
  /\ life = 0 /\ lifeOf = [v \in Verifies |-> 0] /\ lives = [c \in Sends |-> {}]
  /\ faced = [v \in Verifies |-> NoOtp]
  /\ hasty = {} /\ overtaken = {} /\ used = {} /\ late = {}

Step(r, from, to) == pc[r] = from /\ pc' = [pc EXCEPT ![r] = to]

Texted == {s \in Sends : pc[s] = "done"}

Present(ttl) == ttl > 0

(* A guess has its number and is still to be compared. *)
Numbered == {v \in Verifies : pc[v] \in {"expire", "get"}}

(* History only: s begins now. *)
Begin(s) ==
  /\ age' = [age EXCEPT ![s] = 0]
  /\ hasty' = hasty \cup {q \in {s} : \E t \in Texted : age[t] < Cooldown}

-----------------------------------------------------------------------------
(* sendOtp.                                                                 *)

(* Mutant of CheckSendLimit: the first cooldown key is not looked at. *)
SkipSendLimit(s) ==
  /\ Step(s, "new", "store")
  /\ Begin(s)
  /\ UNCHANGED <<keyVars, tryVars, guess, count, fails,
                 newest, overtaken, lifeVars, faced, used, late>>

(* checkRateLimits reads the two cooldown keys one after the other. *)
CheckSendLimit(s) ==
  /\ Step(s, "new", IF Present(limitTtl) THEN "limited" ELSE "cooldown")
  /\ Begin(s)
  /\ UNCHANGED <<keyVars, tryVars, guess, count, fails,
                 newest, overtaken, lifeVars, faced, used, late>>

(* storeOtp takes the time for expiresAt before its SETEX runs. *)
CheckCooldown(s) ==
  /\ Step(s, "cooldown", IF Present(lastTtl) THEN "limited" ELSE "store")
  /\ validFor' = [validFor EXCEPT ![s] = IF Present(lastTtl) THEN @ ELSE Expiry]
  /\ UNCHANGED <<otp, otpTtl, limitTtl, lastTtl, tryVars, guess, count, fails, histVars>>

StoreOtp(s) ==
  /\ Step(s, "store", "limit")
  /\ otp' = s
  /\ otpTtl' = Expiry
  /\ newest' = s
  /\ overtaken' = overtaken \cup
       {q \in {s} : \E v \in Verifies : pc[v] \in {"lateDel", "delOtp", "delAttempts"}}
  /\ lives' = [lives EXCEPT ![s] = @ \cup {life} \cup {lifeOf[v] : v \in Numbered}]
  /\ UNCHANGED <<validFor, limitTtl, lastTtl, tryVars, guess, count, fails,
                 age, hasty, life, lifeOf, faced, used, late>>

SetSendLimit(s) ==
  /\ Step(s, "limit", "last")
  /\ limitTtl' = Cooldown
  /\ UNCHANGED <<otp, otpTtl, validFor, lastTtl, tryVars, guess, count, fails, histVars>>

SetLastRequest(s) ==
  /\ Step(s, "last", "sms")
  /\ lastTtl' = Cooldown
  /\ UNCHANGED <<otp, otpTtl, validFor, limitTtl, tryVars, guess, count, fails, histVars>>

SendSms(s) ==
  /\ Step(s, "sms", "done")
  /\ UNCHANGED <<keyVars, tryVars, guess, count, fails, histVars>>

-----------------------------------------------------------------------------
(* verifyOtp.                                                               *)

Accepted(v) == pc[v] \in {"delOtp", "delAttempts", "done"}

(* checkVerifyAttempts: INCR creates the counter without an expiry. *)
IncrAttempts(v, g) ==
  /\ Step(v, "new", "expire")
  /\ guess' = [guess EXCEPT ![v] = g]
  /\ attempts' = attempts + 1
  /\ count' = [count EXCEPT ![v] = attempts + 1]
  /\ lifeOf' = [lifeOf EXCEPT ![v] = life]
  /\ late' = late \cup {q \in {v} : \E w \in Verifies : pc[w] = "done" /\ guess[w] = g}
  /\ UNCHANGED <<keyVars, attemptsTtl, fails, age, hasty, newest, overtaken,
                 life, lives, faced, used>>

(* Mutant of ExpireAttempts: only the first attempt gives the counter an end. *)
ExpireFirst(v) ==
  /\ Step(v, "expire", IF count[v] > MaxAttempts THEN "limited" ELSE "get")
  /\ attemptsTtl' = IF count[v] = 1 THEN Window ELSE attemptsTtl
  /\ UNCHANGED <<keyVars, attempts, guess, count, fails, histVars>>

(* EXPIRE, which does nothing when the key is gone; then the limit. *)
ExpireAttempts(v) ==
  /\ Step(v, "expire", IF count[v] > MaxAttempts THEN "limited" ELSE "get")
  /\ attemptsTtl' = IF attempts > 0 THEN Window ELSE NoTtl
  /\ UNCHANGED <<keyVars, attempts, guess, count, fails, histVars>>

(* Mutant of Verdict: a wrong guess costs the code. *)
VerdictBurning(v) ==
  IF otp = NoOtp THEN "rejected" ELSE IF guess[v] # otp THEN "lateDel" ELSE "delOtp"

(* Mutant of Verdict: the code last stored is kept in memory and read there. *)
VerdictFromMemory(v) == IF guess[v] = newest THEN "delOtp" ELSE "rejected"

(* getStoredOtp, validateOtpExpiration and validateOtpCode: where they lead. *)
Verdict(v) ==
  IF otp = NoOtp THEN "rejected"
  ELSE IF validFor[otp] < 0 THEN "lateDel"
  ELSE IF guess[v] # otp THEN "rejected"
  ELSE "delOtp"

CheckOtp(v) ==
  /\ Step(v, "get", Verdict(v))
  /\ faced' = [faced EXCEPT ![v] = IF Verdict(v) = "lateDel" THEN NoOtp ELSE otp]
  /\ used' = used \cup {c \in {otp} : Verdict(v) = "delOtp"}
  /\ UNCHANGED <<keyVars, tryVars, guess, count, fails,
                 age, hasty, newest, overtaken, lifeVars, late>>

(* Mutant of DropOtp: the value is cleared, the key lives on. *)
DropOtpOnly == otp' = NoOtp /\ UNCHANGED otpTtl

DropOtp == otp' = NoOtp /\ otpTtl' = 0

(* The DEL of an expired code is not awaited: the answer is out before it. *)
DeleteLate(v) ==
  /\ Step(v, "lateDel", "rejected")
  /\ DropOtp
  /\ UNCHANGED <<validFor, limitTtl, lastTtl, tryVars, guess, count, fails, histVars>>

(* History only: the counter's key goes.  The life to come reaches into the  *)
(* stay of the codes given; if there was no key, it is the one due already.  *)
NextLife(codes) ==
  /\ life' = IF attempts > 0 THEN life + 1 ELSE life
  /\ lives' = [c \in Sends |-> IF c \in codes THEN lives[c] \cup {life'} ELSE lives[c]]

(* Mutant of DeleteOtp: the used code is left to expire. *)
KeepOtp(v) ==
  /\ Step(v, "delOtp", "delAttempts")
  /\ UNCHANGED <<keyVars, tryVars, guess, count, fails, histVars>>

(* Mutant of DeleteOtp: the counter goes first, the code second. *)
DeleteAttemptsFirst(v) ==
  /\ \/ /\ pc[v] = "delOtp" /\ attempts > 0
        /\ pc' = pc
        /\ attempts' = 0 /\ attemptsTtl' = NoTtl /\ NextLife({otp} \ {guess[v]})
        /\ UNCHANGED <<otp, otpTtl>>
     \/ /\ Step(v, "delOtp", "delAttempts")
        /\ DropOtp
        /\ UNCHANGED <<tryVars, life, lives>>
  /\ UNCHANGED <<validFor, limitTtl, lastTtl, guess, count, fails,
                 age, hasty, newest, overtaken, lifeOf, faced, used, late>>

(* cleanupOtpData: the code, then the counter. *)
DeleteOtp(v) ==
  /\ Step(v, "delOtp", "delAttempts")
  /\ DropOtp
  /\ UNCHANGED <<validFor, limitTtl, lastTtl, tryVars, guess, count, fails, histVars>>

DeleteAttempts(v) ==
  /\ Step(v, "delAttempts", "done")
  /\ attempts' = 0
  /\ attemptsTtl' = NoTtl
  /\ NextLife({otp} \ {guess[v]})
  /\ UNCHANGED <<keyVars, guess, count, fails,
                 age, hasty, newest, overtaken, lifeOf, faced, used, late>>

-----------------------------------------------------------------------------
(* A call rejects or the process ends: the request goes no further. *)
Fail(r) ==
  /\ fails > 0
  /\ fails' = fails - 1
  /\ pc[r] \notin {"new", "done", "limited", "rejected", "failed"}
  /\ pc' = [pc EXCEPT ![r] = "failed"]
  /\ UNCHANGED <<keyVars, tryVars, guess, count, histVars>>

Less(ttl) == IF ttl = 0 THEN 0 ELSE ttl - 1

(* A tick passes; Redis drops the keys whose time has come. *)
Tick ==
  /\ otpTtl' = Less(otpTtl)
  /\ otp' = IF otpTtl' = 0 THEN NoOtp ELSE otp
  /\ validFor' = [c \in Sends |-> IF validFor[c] < 0 THEN -1 ELSE validFor[c] - 1]
  /\ limitTtl' = Less(limitTtl)
  /\ lastTtl' = Less(lastTtl)
  /\ IF attemptsTtl = 1
     THEN attempts' = 0 /\ attemptsTtl' = NoTtl /\ NextLife({otp})
     ELSE /\ attemptsTtl' = IF attemptsTtl = NoTtl THEN NoTtl ELSE attemptsTtl - 1
          /\ UNCHANGED <<attempts, life, lives>>
  /\ age' = [s \in Sends |-> IF age[s] = Cooldown THEN Cooldown ELSE age[s] + 1]
  /\ UNCHANGED <<pc, guess, count, fails,
                 hasty, newest, overtaken, lifeOf, faced, used, late>>

Send(s) ==
  \/ CheckSendLimit(s) \/ CheckCooldown(s) \/ StoreOtp(s)
  \/ SetSendLimit(s) \/ SetLastRequest(s) \/ SendSms(s)

Verify(v) ==
  \/ \E g \in Texted \cup {Wrong} : IncrAttempts(v, g)
  \/ ExpireAttempts(v) \/ CheckOtp(v) \/ DeleteLate(v) \/ DeleteOtp(v) \/ DeleteAttempts(v)

Next ==
  \/ \E s \in Sends : Send(s)
  \/ \E v \in Verifies : Verify(v)
  \/ \E r \in Requests : Fail(r)
  \/ Tick

Spec == Init /\ [][Next]_vars

-----------------------------------------------------------------------------
(* Properties.                                                              *)

(* Of two sends that do not overlap, the second stores a code only if it     *)
(* began at least Cooldown after the first began, provided the first has     *)
(* texted: checkRateLimits.  docs/API.md:224 and README.md:157 put the limit *)
(* without a condition, but sends that overlap can all pass, a send whose    *)
(* SMS failed may have set no key, and the time from one text to the next    *)
(* can be shorter: these are outside the property.                           *)
SpacedSends ==
  \A s \in hasty : pc[s] \in {"cooldown", "limited", "failed"}

(* Once a verification has succeeded, its code opens nothing to a request    *)
(* that begins afterwards.                                                   *)
CodeSpentOnce == \A v \in Verifies : Accepted(v) => v \notin late

(* A code the user was texted is turned down only for a reason: it is past   *)
(* its expiry, it was used, a newer one was stored, or a cleanup for an      *)
(* older code was under way when it was stored.  Turned down is 400 here: a  *)
(* 429 for too many attempts (checkVerifyAttempts) leaves the code alone and *)
(* ends as limited.                                                          *)
RejectedForCause ==
  \A v \in Verifies : pc[v] = "rejected" /\ guess[v] # Wrong =>
    LET c == guess[v]
    IN  \/ validFor[c] <= 0
        \/ c \in used
        \/ newest # c
        \/ c \in overtaken

(* A code is compared with at most MaxAttempts guesses for each life of the  *)
(* counter that reaches into its stay in the key: the one at its storing,    *)
(* those of guesses numbered before and still on their way, and every next   *)
(* one begun because the counter's key expired or a cleanup for another code *)
(* deleted it.  Its own success adds none: the code goes before the counter. *)
GuessBudget ==
  \A c \in Sends :
    Cardinality({v \in Verifies : faced[v] = c}) <= MaxAttempts * Cardinality(lives[c])

(* A phone is not locked for good by a counter that never expires: while no  *)
(* request is between its INCR and its EXPIRE, the counter has an end, unless *)
(* the last attempt died exactly there.                                      *)
CounterEnds ==
  attempts > 0 /\ attemptsTtl = NoTtl =>
    \E v \in Verifies : pc[v] \in {"expire", "failed"} /\ count[v] = attempts

(* Codes that were stored, or whose request ended before: none is stored    *)
(* from now on.                                                             *)
Issued == {s \in Sends : pc[s] \notin {"new", "cooldown", "store", "limited"}}

(* The four Redis calls and the requests between them implement what a key   *)
(* of one-time codes promises: the DEL of an expired code that runs after    *)
(* the answer and a cleanup that hits a newer code may drop a code, but none *)
(* of them brings one back or accepts one that is not stored.                *)
Key == INSTANCE OneTimeCode WITH
  Codes <- Sends, NoCode <- NoOtp, code <- otp, accepted <- used,
  issued <- Issued

ImplementsOneTimeCode == Key!Spec

-----------------------------------------------------------------------------
(* The strengthening under which the safety properties are inductive.       *)

(* The key holds the code stored last, or nothing. *)
NewestInKey ==
  /\ otp # NoOtp => otp = newest
  /\ newest # NoOtp => newest \in Issued

(* A verification that got through used its code, which is gone once the    *)
(* cleanup has passed; a late one comes after one that is done.             *)
SpentIsGone ==
  /\ used \subseteq Issued
  /\ \A v \in Verifies :
       /\ guess[v] # Wrong => guess[v] \in Issued
       /\ Accepted(v) => guess[v] \in used
       /\ pc[v] \in {"delAttempts", "done"} => otp # guess[v]
       /\ v \in late => /\ pc[v] # "new"
                       /\ \E w \in Verifies : pc[w] = "done" /\ guess[w] = guess[v]

(* A DEL to come finds a code that is used or expired, or one that was      *)
(* stored in the meantime.                                                  *)
DelFindsOld ==
  \A v \in Verifies : pc[v] \in {"delOtp", "lateDel"} =>
    newest \in Sends /\ (newest \in used \cup overtaken \/ validFor[newest] < 0)

(* The last code is in the key while nothing excuses its absence. *)
GoodCodeStays ==
  \A c \in Sends \ (used \cup overtaken) :
    newest = c /\ validFor[c] > 0 => otp = c /\ otpTtl >= validFor[c]

(* Who set the first cooldown key has it cover the time since it began. *)
CooldownCovers ==
  /\ \A s \in Sends : pc[s] \in {"last", "sms", "done"} => limitTtl + age[s] >= Cooldown
  /\ \A s \in hasty : pc[s] = "limited"

IndInv ==
  /\ TypeOK /\ NewestInKey /\ SpentIsGone /\ DelFindsOld /\ GoodCodeStays
  /\ CooldownCovers /\ CodeSpentOnce /\ RejectedForCause /\ CounterEnds

(* The numbers one life of the counter gives out are all different, and the  *)
(* guesses that can reach a code have theirs from a life that reaches it.    *)
GuessesNumbered ==
  /\ otp # NoOtp => /\ life \in lives[otp]
                    /\ \A v \in Numbered : lifeOf[v] \in lives[otp]
  /\ \A v \in Verifies : faced[v] # NoOtp =>
       lifeOf[v] \in lives[faced[v]] /\ pc[v] \notin {"new", "expire", "get", "limited"}
  /\ \A v \in Verifies : pc[v] = "new" <=> count[v] = 0
  /\ \A v \in Verifies : faced[v] # NoOtp \/ pc[v] = "get" => count[v] <= MaxAttempts
  /\ \A v \in Verifies : lifeOf[v] = life => count[v] <= attempts
  /\ \A v, w \in Verifies :
       count[v] > 0 /\ count[w] = count[v] /\ lifeOf[w] = lifeOf[v] => w = v
=============================================================================
