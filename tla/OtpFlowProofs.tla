----------------------------- MODULE OtpFlowProofs -----------------------------
(***************************************************************************)
(* Machine-checked proofs about OtpFlow, for every set of requests, every  *)
(* expiry, cooldown, window and limit.                                     *)
(***************************************************************************)
EXTENDS OtpFlow, FiniteSetTheorems, TLAPS

-----------------------------------------------------------------------------
(* Types.                                                                   *)

LEMMA Times ==
  /\ Expiry \in Nat \ {0} /\ Cooldown \in Nat \ {0} /\ Window \in Nat \ {0}
  /\ MaxAttempts \in Nat /\ FailBudget \in Nat
  BY TimesAssumption, LimitsAssumption

LEMMA InitTypeOK == Init => TypeOK
  BY Times, NullsAssumption, RequestsAssumption
  DEF Init, TypeOK, Requests, SendPcs, VerifyPcs

(* What the history of the counter's lives keeps. *)
LEMMA LifeFacts ==
  ASSUME TypeOK, NEW codes, NextLife(codes), lifeOf' = lifeOf
  PROVE  /\ life' \in Nat /\ lifeOf' \in [Verifies -> 0 .. life']
         /\ lives' \in [Sends -> SUBSET (0 .. life')]
         /\ life' = IF attempts > 0 THEN life + 1 ELSE life
         /\ \A c \in Sends : lives[c] \subseteq lives'[c] /\ (c \in codes => life' \in lives'[c])
<1>1. life \in Nat /\ life' \in Nat /\ life <= life' /\ life' = IF attempts > 0 THEN life + 1 ELSE life
  BY DEF TypeOK, NextLife
<1>2. 0 .. life \subseteq 0 .. life' /\ life' \in 0 .. life'
  BY <1>1
<1>3. lifeOf' \in [Verifies -> 0 .. life']
  BY <1>2 DEF TypeOK
<1>4. /\ lives' \in [Sends -> SUBSET (0 .. life')]
      /\ \A c \in Sends : lives[c] \subseteq lives'[c] /\ (c \in codes => life' \in lives'[c])
  BY <1>2 DEF TypeOK, NextLife
<1> QED BY <1>1, <1>3, <1>4

(* A step of one request keeps the program counters in range. *)
LEMMA SendPcStep ==
  ASSUME TypeOK, NEW s \in Sends, NEW to \in SendPcs, pc' = [pc EXCEPT ![s] = to]
  PROVE  /\ pc' \in [Requests -> SendPcs \cup VerifyPcs]
         /\ \A q \in Sends : pc'[q] \in SendPcs
         /\ \A v \in Verifies : pc'[v] \in VerifyPcs /\ pc'[v] = pc[v]
         /\ pc'[s] = to /\ \A r \in Requests \ {s} : pc'[r] = pc[r]
  BY RequestsAssumption DEF TypeOK, Requests

LEMMA VerifyPcStep ==
  ASSUME TypeOK, NEW v \in Verifies, NEW to \in VerifyPcs, pc' = [pc EXCEPT ![v] = to]
  PROVE  /\ pc' \in [Requests -> SendPcs \cup VerifyPcs]
         /\ \A s \in Sends : pc'[s] \in SendPcs /\ pc'[s] = pc[s]
         /\ \A w \in Verifies : pc'[w] \in VerifyPcs
         /\ pc'[v] = to /\ \A r \in Requests \ {v} : pc'[r] = pc[r]
  BY RequestsAssumption DEF TypeOK, Requests

LEMMA SendTypeOK ==
  ASSUME TypeOK, NEW s \in Sends, Send(s)
  PROVE  TypeOK'
<1> USE Times, NullsAssumption
<1>1. CASE CheckSendLimit(s)
  <2>1. PICK to \in SendPcs : pc' = [pc EXCEPT ![s] = to]
    BY <1>1 DEF CheckSendLimit, Step, SendPcs
  <2>2. age' \in [Sends -> 0 .. Cooldown] /\ hasty' \subseteq Sends
    BY <1>1 DEF CheckSendLimit, Begin, TypeOK
  <2> QED BY <1>1, <2>1, <2>2, SendPcStep DEF CheckSendLimit, TypeOK, keyVars, tryVars, lifeVars
<1>2. CASE CheckCooldown(s)
  <2>1. PICK to \in SendPcs : pc' = [pc EXCEPT ![s] = to]
    BY <1>2 DEF CheckCooldown, Step, SendPcs
  <2>2. validFor' \in [Sends -> -1 .. Expiry]
    BY <1>2 DEF CheckCooldown, TypeOK
  <2> QED BY <1>2, <2>1, <2>2, SendPcStep DEF CheckCooldown, TypeOK, tryVars, histVars, lifeVars
<1>3. CASE StoreOtp(s)
  <2>1. "limit" \in SendPcs /\ pc' = [pc EXCEPT ![s] = "limit"]
    BY <1>3 DEF StoreOtp, Step, SendPcs
  <2>2. lives' \in [Sends -> SUBSET (0 .. life)]
    <3>1. {life} \cup {lifeOf[v] : v \in Numbered} \in SUBSET (0 .. life)
      BY DEF TypeOK, Numbered
    <3> QED BY <1>3, <3>1 DEF StoreOtp, TypeOK
  <2> QED BY <1>3, <2>1, <2>2, SendPcStep DEF StoreOtp, TypeOK, tryVars
<1>4. CASE SetSendLimit(s)
  <2>1. "last" \in SendPcs /\ pc' = [pc EXCEPT ![s] = "last"]
    BY <1>4 DEF SetSendLimit, Step, SendPcs
  <2> QED BY <1>4, <2>1, SendPcStep DEF SetSendLimit, TypeOK, tryVars, histVars, lifeVars
<1>5. CASE SetLastRequest(s)
  <2>1. "sms" \in SendPcs /\ pc' = [pc EXCEPT ![s] = "sms"]
    BY <1>5 DEF SetLastRequest, Step, SendPcs
  <2> QED BY <1>5, <2>1, SendPcStep DEF SetLastRequest, TypeOK, tryVars, histVars, lifeVars
<1>6. CASE SendSms(s)
  <2>1. "done" \in SendPcs /\ pc' = [pc EXCEPT ![s] = "done"]
    BY <1>6 DEF SendSms, Step, SendPcs
  <2> QED BY <1>6, <2>1, SendPcStep DEF SendSms, TypeOK, keyVars, tryVars, histVars, lifeVars
<1> QED BY <1>1, <1>2, <1>3, <1>4, <1>5, <1>6 DEF Send

(* Where the three checks of a code lead. *)
LEMMA VerdictFacts ==
  ASSUME TypeOK, NEW v \in Verifies
  PROVE  /\ Verdict(v) \in {"rejected", "lateDel", "delOtp"}
         /\ Verdict(v) = "delOtp" => otp \in Sends /\ guess[v] = otp
         /\ Verdict(v) = "lateDel" => otp \in Sends /\ validFor[otp] < 0
         /\ Verdict(v) = "rejected" /\ otp # NoOtp /\ guess[v] = otp => validFor[otp] < 0
  BY DEF Verdict, TypeOK

LEMMA VerifyTypeOK ==
  ASSUME TypeOK, NEW v \in Verifies, Verify(v)
  PROVE  TypeOK'
<1> USE Times, NullsAssumption
<1>1. CASE \E g \in Texted \cup {Wrong} : IncrAttempts(v, g)
  <2>1. PICK g \in Texted \cup {Wrong} : IncrAttempts(v, g)
    BY <1>1
  <2>2. "expire" \in VerifyPcs /\ pc' = [pc EXCEPT ![v] = "expire"]
    BY <2>1 DEF IncrAttempts, Step, VerifyPcs
  <2>3. /\ guess' \in [Verifies -> Sends \cup {Wrong}]
        /\ count' \in [Verifies -> Nat] /\ attempts' \in Nat
        /\ lifeOf' \in [Verifies -> 0 .. life] /\ late' \subseteq Verifies
    BY <2>1 DEF IncrAttempts, TypeOK, Texted
  <2> QED BY <2>1, <2>2, <2>3, VerifyPcStep DEF IncrAttempts, TypeOK, keyVars
<1>2. CASE ExpireAttempts(v)
  <2>1. PICK to \in VerifyPcs : pc' = [pc EXCEPT ![v] = to]
    BY <1>2 DEF ExpireAttempts, Step, VerifyPcs
  <2> QED BY <1>2, <2>1, VerifyPcStep DEF ExpireAttempts, TypeOK, keyVars, histVars, lifeVars
<1>3. CASE CheckOtp(v)
  <2>1. Verdict(v) \in VerifyPcs /\ pc' = [pc EXCEPT ![v] = Verdict(v)]
    BY <1>3, VerdictFacts DEF CheckOtp, Step, VerifyPcs
  <2>2. faced' \in [Verifies -> Sends \cup {NoOtp}] /\ used' \subseteq Sends
    BY <1>3, VerdictFacts DEF CheckOtp, TypeOK
  <2> QED BY <1>3, <2>1, <2>2, VerifyPcStep DEF CheckOtp, TypeOK, keyVars, tryVars, lifeVars
<1>4. CASE DeleteLate(v)
  <2>1. "rejected" \in VerifyPcs /\ pc' = [pc EXCEPT ![v] = "rejected"]
    BY <1>4 DEF DeleteLate, Step, VerifyPcs
  <2> QED BY <1>4, <2>1, VerifyPcStep DEF DeleteLate, DropOtp, TypeOK, tryVars, histVars, lifeVars
<1>5. CASE DeleteOtp(v)
  <2>1. "delAttempts" \in VerifyPcs /\ pc' = [pc EXCEPT ![v] = "delAttempts"]
    BY <1>5 DEF DeleteOtp, Step, VerifyPcs
  <2> QED BY <1>5, <2>1, VerifyPcStep DEF DeleteOtp, DropOtp, TypeOK, tryVars, histVars, lifeVars
<1>6. CASE DeleteAttempts(v)
  <2>1. "done" \in VerifyPcs /\ pc' = [pc EXCEPT ![v] = "done"]
    BY <1>6 DEF DeleteAttempts, Step, VerifyPcs
  <2>2. NextLife({otp} \ {guess[v]}) /\ lifeOf' = lifeOf
    BY <1>6 DEF DeleteAttempts
  <2> QED BY <1>6, <2>1, <2>2, LifeFacts, VerifyPcStep DEF DeleteAttempts, TypeOK, keyVars
<1> QED BY <1>1, <1>2, <1>3, <1>4, <1>5, <1>6 DEF Verify

LEMMA FailTypeOK ==
  ASSUME TypeOK, NEW r \in Requests, Fail(r)
  PROVE  TypeOK'
<1>1. pc' = [pc EXCEPT ![r] = "failed"] /\ "failed" \in SendPcs /\ "failed" \in VerifyPcs
  BY DEF Fail, SendPcs, VerifyPcs
<1>2. /\ pc' \in [Requests -> SendPcs \cup VerifyPcs]
      /\ \A s \in Sends : pc'[s] \in SendPcs
      /\ \A v \in Verifies : pc'[v] \in VerifyPcs
  BY <1>1, SendPcStep, VerifyPcStep DEF Requests
<1>3. fails' \in Nat
  BY DEF Fail, TypeOK
<1> QED BY <1>2, <1>3 DEF Fail, TypeOK, keyVars, tryVars, histVars, lifeVars

(* What a tick does to the keys. *)
LEMMA TickFacts ==
  ASSUME TypeOK, Tick
  PROVE  /\ otpTtl' \in Nat /\ limitTtl' \in Nat /\ lastTtl' \in Nat
         /\ otpTtl > 0 => otpTtl' = otpTtl - 1
         /\ limitTtl > 0 => limitTtl' = limitTtl - 1
         /\ otp' = (IF otpTtl' = 0 THEN NoOtp ELSE otp)
         /\ validFor' \in [Sends -> -1 .. Expiry]
         /\ \A c \in Sends : /\ validFor[c] < 0 => validFor'[c] < 0
                             /\ validFor[c] <= 0 => validFor'[c] <= 0
                             /\ validFor[c] > 0 => validFor'[c] = validFor[c] - 1
         /\ age' \in [Sends -> 0 .. Cooldown]
         /\ \A s \in Sends : age'[s] = Cooldown \/ age'[s] = age[s] + 1
<1>1. /\ otpTtl' \in Nat /\ limitTtl' \in Nat /\ lastTtl' \in Nat
      /\ otpTtl > 0 => otpTtl' = otpTtl - 1
      /\ limitTtl > 0 => limitTtl' = limitTtl - 1
      /\ otp' = (IF otpTtl' = 0 THEN NoOtp ELSE otp)
  BY DEF Tick, TypeOK, Less
<1>2. validFor' = [c \in Sends |-> IF validFor[c] < 0 THEN -1 ELSE validFor[c] - 1]
      /\ validFor \in [Sends -> -1 .. Expiry]
  BY DEF Tick, TypeOK
<1>3. /\ validFor' \in [Sends -> -1 .. Expiry]
      /\ \A c \in Sends : /\ validFor[c] < 0 => validFor'[c] < 0
                          /\ validFor[c] <= 0 => validFor'[c] <= 0
                          /\ validFor[c] > 0 => validFor'[c] = validFor[c] - 1
  BY <1>2, Times
<1>4. age' = [s \in Sends |-> IF age[s] = Cooldown THEN Cooldown ELSE age[s] + 1]
      /\ age \in [Sends -> 0 .. Cooldown]
  BY DEF Tick, TypeOK
<1>5. /\ age' \in [Sends -> 0 .. Cooldown]
      /\ \A s \in Sends : age'[s] = Cooldown \/ age'[s] = age[s] + 1
  BY <1>4, Times
<1> QED BY <1>1, <1>3, <1>5

LEMMA TickTypeOK == ASSUME TypeOK, Tick PROVE TypeOK'
<1>1. otp' \in Sends \cup {NoOtp} /\ (otp' = NoOtp <=> otpTtl' = 0)
  BY TickFacts, NullsAssumption DEF TypeOK, Tick, Less
<1>2. attempts' \in Nat /\ attemptsTtl' \in (Nat \ {0}) \cup {NoTtl}
  BY NullsAssumption DEF TypeOK, Tick
<1>3. /\ life' \in Nat /\ lifeOf' \in [Verifies -> 0 .. life']
      /\ lives' \in [Sends -> SUBSET (0 .. life')]
  <2>1. lifeOf' = lifeOf /\ (NextLife({otp}) \/ UNCHANGED <<life, lives>>)
    BY DEF Tick
  <2> QED BY <2>1, LifeFacts DEF TypeOK
<1> QED BY <1>1, <1>2, <1>3, TickFacts DEF Tick, TypeOK

LEMMA StepTypeOK == TypeOK /\ [Next]_vars => TypeOK'
<1> SUFFICES ASSUME TypeOK, [Next]_vars PROVE TypeOK'
  OBVIOUS
<1>1. CASE UNCHANGED vars
  BY <1>1 DEF vars, keyVars, tryVars, histVars, lifeVars, TypeOK
<1> QED BY <1>1, SendTypeOK, VerifyTypeOK, FailTypeOK, TickTypeOK DEF Next

(* Every variable of the model keeps its type. *)
THEOREM TypeCorrect == Spec => []TypeOK
<1>1. Init => TypeOK
  BY InitTypeOK
<1>2. TypeOK /\ [Next]_vars => TypeOK'
  BY StepTypeOK
<1> QED BY <1>1, <1>2, PTL DEF Spec

-----------------------------------------------------------------------------
(* The keys implement OneTimeCode.                                          *)

LEMMA SendRefines ==
  ASSUME TypeOK, NEW s \in Sends, Send(s)
  PROVE  (\E c \in Sends : Key!Store(c)) \/ UNCHANGED Key!codeVars
<1>1. CASE StoreOtp(s)
  <2>1. s \in Sends \ Issued /\ Issued' = Issued \cup {s}
    BY <1>1, SendPcStep DEF StoreOtp, Step, TypeOK, Issued, SendPcs, Requests
  <2>2. otp' = s /\ used' = used
    BY <1>1 DEF StoreOtp
  <2> QED BY <2>1, <2>2 DEF Key!Store
<1>2. CASE ~StoreOtp(s)
  <2>1. Issued' = Issued
    BY <1>2, RequestsAssumption
    DEF Send, CheckSendLimit, CheckCooldown, SetSendLimit, SetLastRequest, SendSms,
        Step, TypeOK, Issued, Requests
  <2>2. otp' = otp /\ used' = used
    BY <1>2 DEF Send, CheckSendLimit, CheckCooldown, SetSendLimit, SetLastRequest, SendSms,
                keyVars, histVars
  <2> QED BY <2>1, <2>2 DEF Key!codeVars
<1> QED BY <1>1, <1>2

LEMMA VerifyKeepsIssued ==
  ASSUME TypeOK, NEW v \in Verifies, Verify(v)
  PROVE  Issued' = Issued
<1>1. \A s \in Sends : pc'[s] = pc[s]
  BY RequestsAssumption
  DEF Verify, IncrAttempts, ExpireAttempts, CheckOtp, DeleteLate, DeleteOtp, DeleteAttempts,
      Step, TypeOK, Requests
<1> QED BY <1>1 DEF Issued

LEMMA VerifyRefines ==
  ASSUME TypeOK, NEW v \in Verifies, Verify(v)
  PROVE  Key!Accept \/ Key!Drop \/ UNCHANGED Key!codeVars
<1>1. Issued' = Issued
  BY VerifyKeepsIssued
<1>2. CASE CheckOtp(v) /\ Verdict(v) = "delOtp"
  <2>1. otp # NoOtp /\ otp' = otp /\ used' = used \cup {otp}
    BY <1>2, VerdictFacts, NullsAssumption DEF CheckOtp, keyVars
  <2> QED BY <1>1, <2>1 DEF Key!Accept
<1>3. CASE CheckOtp(v) /\ Verdict(v) # "delOtp"
  <2>1. otp' = otp /\ used' = used
    BY <1>3 DEF CheckOtp, keyVars
  <2> QED BY <1>1, <2>1 DEF Key!codeVars
<1>4. CASE DeleteLate(v) \/ DeleteOtp(v)
  <2>1. otp' = NoOtp /\ used' = used
    BY <1>4 DEF DeleteLate, DeleteOtp, DropOtp, histVars
  <2> QED BY <1>1, <2>1 DEF Key!Drop
<1>5. CASE (\E g \in Texted \cup {Wrong} : IncrAttempts(v, g)) \/ ExpireAttempts(v) \/ DeleteAttempts(v)
  <2>1. otp' = otp /\ used' = used
    BY <1>5 DEF IncrAttempts, ExpireAttempts, DeleteAttempts, keyVars, histVars
  <2> QED BY <1>1, <2>1 DEF Key!codeVars
<1> QED BY <1>2, <1>3, <1>4, <1>5 DEF Verify

(* A send that ends before it stores its code never will. *)
LEMMA FailRefines ==
  ASSUME TypeOK, NEW r \in Requests, Fail(r)
  PROVE  (\E c \in Sends : Key!Abandon(c)) \/ UNCHANGED Key!codeVars
<1>1. otp' = otp /\ used' = used
  BY DEF Fail, keyVars, histVars
<1>2. CASE r \in Sends \ Issued
  <2>1. Issued' = Issued \cup {r}
    BY <1>2 DEF Fail, TypeOK, Issued
  <2> QED BY <1>1, <1>2, <2>1 DEF Key!Abandon
<1>3. CASE r \notin Sends \ Issued
  <2>1. Issued' = Issued
    BY <1>3 DEF Fail, TypeOK, Issued
  <2> QED BY <1>1, <2>1 DEF Key!codeVars
<1> QED BY <1>2, <1>3

LEMMA TickRefines ==
  ASSUME TypeOK, Tick
  PROVE  Key!Drop \/ UNCHANGED Key!codeVars
<1>1. Issued' = Issued /\ used' = used /\ (otp' = NoOtp \/ otp' = otp)
  BY DEF Tick, Issued
<1> QED BY <1>1 DEF Key!Drop, Key!codeVars

(* sendOtp and verifyOtp implement one-time codes: whatever they do between  *)
(* their Redis calls, only the code in the key lets anybody in, and none     *)
(* that was replaced, deleted or has expired is ever back.                   *)
THEOREM RefinesOneTimeCode == Spec => ImplementsOneTimeCode
<1>1. Init => Key!Init
  BY RequestsAssumption DEF Init, Key!Init, Issued, Requests
<1>2. TypeOK /\ [Next]_vars => [Key!Next]_(Key!codeVars)
  <2> SUFFICES ASSUME TypeOK, [Next]_vars PROVE [Key!Next]_(Key!codeVars)
    OBVIOUS
  <2>1. CASE UNCHANGED vars
    BY <2>1 DEF vars, keyVars, histVars, Issued, Key!codeVars
  <2>2. CASE Next
    BY <2>2, SendRefines, VerifyRefines, FailRefines, TickRefines DEF Next, Key!Next
  <2> QED BY <2>1, <2>2
<1> QED BY <1>1, <1>2, TypeCorrect, PTL DEF Spec, ImplementsOneTimeCode, Key!Spec

-----------------------------------------------------------------------------
(* The inductive invariant.                                                 *)

LEMMA InitIndInv == Init => IndInv
<1> SUFFICES ASSUME Init PROVE IndInv
  OBVIOUS
<1>1. TypeOK
  BY InitTypeOK
<1>2. \A v \in Verifies : pc[v] = "new" /\ guess[v] = Wrong
  BY DEF Init, Requests
<1>3. \A s \in Sends : pc[s] = "new"
  BY DEF Init, Requests
<1> QED BY <1>1, <1>2, <1>3, NullsAssumption
     DEF Init, IndInv, NewestInKey, SpentIsGone, DelFindsOld, GoodCodeStays, CooldownCovers,
         CodeSpentOnce, RejectedForCause, CounterEnds, Accepted

(* A step keeps the codes that are out, and a stored code is a new one.      *)
LEMMA IssuedKept ==
  ASSUME TypeOK, [Next]_vars
  PROVE  /\ Issued \subseteq Issued'
         /\ \A s \in Sends : StoreOtp(s) => s \notin Issued /\ s \in Issued'
<1>1. \A s \in Sends : StoreOtp(s) => s \notin Issued /\ s \in Issued'
  BY DEF StoreOtp, Step, Issued, TypeOK, Requests
<1>2. CASE UNCHANGED vars
  BY <1>1, <1>2 DEF vars, Issued
<1>3. ASSUME NEW s \in Sends, Send(s) PROVE Issued \subseteq Issued'
  BY <1>3, RequestsAssumption
  DEF Send, CheckSendLimit, CheckCooldown, StoreOtp, SetSendLimit, SetLastRequest, SendSms,
      Step, TypeOK, Issued, Requests
<1>4. ASSUME NEW v \in Verifies, Verify(v) PROVE Issued \subseteq Issued'
  BY <1>4, VerifyKeepsIssued
<1>5. ASSUME NEW r \in Requests, Fail(r) PROVE Issued \subseteq Issued'
  BY <1>5 DEF Fail, TypeOK, Issued
<1>6. CASE Tick
  BY <1>1, <1>6 DEF Tick, Issued
<1> QED BY <1>1, <1>2, <1>3, <1>4, <1>5, <1>6 DEF Next

-----------------------------------------------------------------------------
(* Sends.                                                                   *)

LEMMA SendKeepsCode ==
  ASSUME IndInv, NEW s \in Sends, Send(s)
  PROVE  NewestInKey' /\ SpentIsGone' /\ DelFindsOld' /\ GoodCodeStays'
<1>1. /\ TypeOK /\ TypeOK' /\ Issued \subseteq Issued'
      /\ \A c \in Sends : StoreOtp(c) => c \notin Issued /\ c \in Issued'
  BY SendTypeOK, IssuedKept DEF IndInv, Next
<1>2. \A v \in Verifies : pc'[v] = pc[v]
  BY <1>1, RequestsAssumption
  DEF Send, CheckSendLimit, CheckCooldown, StoreOtp, SetSendLimit, SetLastRequest, SendSms,
      Step, TypeOK, Requests
<1>3. guess' = guess /\ used' = used /\ late' = late
  BY DEF Send, CheckSendLimit, CheckCooldown, StoreOtp, SetSendLimit, SetLastRequest, SendSms,
         histVars
<1>4. CASE StoreOtp(s)
  <2>1. otp' = s /\ otpTtl' = Expiry /\ newest' = s /\ validFor' = validFor
    BY <1>4 DEF StoreOtp
  <2>2. \A v \in Verifies : pc[v] \in {"lateDel", "delOtp"} => s \in overtaken'
    BY <1>4 DEF StoreOtp
  <2>3. NewestInKey'
    BY <1>1, <1>4, <2>1 DEF NewestInKey
  <2>4. SpentIsGone'
    BY <1>1, <1>2, <1>3, <1>4, <2>1 DEF IndInv, SpentIsGone, Accepted
  <2>5. DelFindsOld'
    BY <1>2, <2>1, <2>2 DEF DelFindsOld
  <2>6. GoodCodeStays'
    BY <1>1, <2>1, Times DEF GoodCodeStays, TypeOK
  <2> QED BY <2>3, <2>4, <2>5, <2>6
<1>5. CASE ~StoreOtp(s)
  <2>1. otp' = otp /\ otpTtl' = otpTtl /\ newest' = newest /\ overtaken' = overtaken
    BY <1>5 DEF Send, CheckSendLimit, CheckCooldown, SetSendLimit, SetLastRequest, SendSms,
                keyVars, histVars
  <2>2. \A c \in Issued : validFor'[c] = validFor[c]
    BY <1>1, <1>5 DEF Send, CheckSendLimit, CheckCooldown, SetSendLimit, SetLastRequest, SendSms,
                Step, Issued, TypeOK, keyVars
  <2>3. NewestInKey' /\ SpentIsGone'
    BY <1>1, <1>2, <1>3, <2>1 DEF IndInv, NewestInKey, SpentIsGone, Accepted
  <2>4. DelFindsOld' /\ GoodCodeStays'
    BY <1>1, <1>2, <1>3, <2>1, <2>2, NullsAssumption
    DEF IndInv, NewestInKey, DelFindsOld, GoodCodeStays
  <2> QED BY <2>3, <2>4
<1> QED BY <1>4, <1>5

LEMMA SendKeepsCooldown ==
  ASSUME IndInv, NEW s \in Sends, Send(s)
  PROVE  CooldownCovers'
<1>1. TypeOK /\ CooldownCovers
  BY DEF IndInv
<1>2. CASE CheckSendLimit(s)
  <2>1. /\ limitTtl' = limitTtl /\ pc[s] = "new"
        /\ pc' = [pc EXCEPT ![s] = IF limitTtl > 0 THEN "limited" ELSE "cooldown"]
        /\ age' = [age EXCEPT ![s] = 0]
    BY <1>2 DEF CheckSendLimit, Step, Begin, Present, keyVars
  <2>2. \A q \in Sends : pc'[q] = IF q = s THEN (IF limitTtl > 0 THEN "limited" ELSE "cooldown") ELSE pc[q]
    BY <1>1, <2>1 DEF TypeOK, Requests
  <2>3. \A q \in Sends : pc'[q] \in {"last", "sms", "done"} => limitTtl' + age'[q] >= Cooldown
    BY <1>1, <2>1, <2>2 DEF CooldownCovers, TypeOK
  <2>4. \A t \in Texted : age[t] < Cooldown => limitTtl > 0
    BY <1>1, Times DEF CooldownCovers, Texted, TypeOK
  <2>5. s \in hasty' => limitTtl > 0 \/ s \in hasty
    BY <1>2, <2>4 DEF CheckSendLimit, Begin
  <2>6. hasty' \subseteq hasty \cup {s} /\ hasty' \subseteq Sends
    BY <1>1, <1>2 DEF CheckSendLimit, Begin, TypeOK
  <2> QED BY <1>1, <2>1, <2>2, <2>3, <2>5, <2>6 DEF CooldownCovers
<1>3. CASE ~CheckSendLimit(s)
  <2>1. age' = age /\ hasty' = hasty /\ pc[s] \notin {"new", "limited"}
    BY <1>3 DEF Send, CheckCooldown, StoreOtp, SetSendLimit, SetLastRequest, SendSms, Step, histVars
  <2>2. \/ SetSendLimit(s) /\ limitTtl' = Cooldown
        \/ limitTtl' = limitTtl /\ (pc'[s] \in {"last", "sms", "done"} => pc[s] \in {"last", "sms", "done"})
    BY <1>1, <1>3 DEF Send, CheckCooldown, StoreOtp, SetSendLimit, SetLastRequest, SendSms, Step,
                      keyVars, TypeOK, Requests
  <2>3. \A q \in Sends \ {s} : pc'[q] = pc[q]
    BY <1>1, <1>3 DEF Send, CheckCooldown, StoreOtp, SetSendLimit, SetLastRequest, SendSms, Step,
                      TypeOK, Requests
  <2>4. \A q \in hasty : q # s /\ q \in Sends
    BY <1>1, <2>1 DEF CooldownCovers, TypeOK
  <2> QED BY <1>1, <2>1, <2>2, <2>3, <2>4, Times DEF CooldownCovers, TypeOK
<1> QED BY <1>2, <1>3

(* A send answers no verification and touches no attempt. *)
LEMMA SendKeepsAnswers ==
  ASSUME IndInv, NEW s \in Sends, Send(s)
  PROVE  CodeSpentOnce' /\ RejectedForCause' /\ CounterEnds'
<1>1. /\ TypeOK /\ Issued \subseteq Issued'
      /\ \A c \in Sends : StoreOtp(c) => c \notin Issued
  BY SendTypeOK, IssuedKept DEF IndInv, Next
<1>2. \A v \in Verifies : pc'[v] = pc[v]
  BY <1>1, RequestsAssumption
  DEF Send, CheckSendLimit, CheckCooldown, StoreOtp, SetSendLimit, SetLastRequest, SendSms,
      Step, TypeOK, Requests
<1>3. /\ guess' = guess /\ used' = used /\ late' = late /\ count' = count
      /\ attempts' = attempts /\ attemptsTtl' = attemptsTtl
      /\ overtaken \subseteq overtaken'
  BY DEF Send, CheckSendLimit, CheckCooldown, StoreOtp, SetSendLimit, SetLastRequest, SendSms,
         histVars, tryVars
<1>4. \A c \in Issued : validFor'[c] = validFor[c] /\ (newest' = c => newest = c)
  BY <1>1 DEF Send, CheckSendLimit, CheckCooldown, StoreOtp, SetSendLimit, SetLastRequest, SendSms,
              Step, Issued, TypeOK, keyVars, histVars
<1>5. CodeSpentOnce' /\ CounterEnds'
  BY <1>2, <1>3 DEF IndInv, CodeSpentOnce, CounterEnds, Accepted
<1>6. RejectedForCause'
  BY <1>2, <1>3, <1>4 DEF IndInv, SpentIsGone, RejectedForCause
<1> QED BY <1>5, <1>6

LEMMA SendIndInv ==
  ASSUME IndInv, NEW s \in Sends, Send(s)
  PROVE  IndInv'
  BY SendTypeOK, SendKeepsCode, SendKeepsCooldown, SendKeepsAnswers DEF IndInv

-----------------------------------------------------------------------------
(* Verifications.                                                           *)

(* What no step of a verification changes. *)
LEMMA VerifyFrame ==
  ASSUME TypeOK, NEW v \in Verifies, Verify(v)
  PROVE  /\ Issued' = Issued /\ newest' = newest /\ overtaken' = overtaken
         /\ validFor' = validFor /\ limitTtl' = limitTtl /\ age' = age /\ hasty' = hasty
         /\ \A s \in Sends : pc'[s] = pc[s]
         /\ \A w \in Verifies \ {v} : pc'[w] = pc[w]
         /\ used \subseteq used'
<1>1. /\ newest' = newest /\ overtaken' = overtaken /\ validFor' = validFor
      /\ limitTtl' = limitTtl /\ age' = age /\ hasty' = hasty /\ used \subseteq used'
  BY DEF Verify, IncrAttempts, ExpireAttempts, CheckOtp, DeleteLate, DeleteOtp, DeleteAttempts,
         keyVars, histVars
<1>2. \A r \in Requests \ {v} : pc'[r] = pc[r]
  BY DEF Verify, IncrAttempts, ExpireAttempts, CheckOtp, DeleteLate, DeleteOtp, DeleteAttempts,
         Step, TypeOK, Requests
<1> QED BY <1>1, <1>2, VerifyKeepsIssued, RequestsAssumption DEF Requests

LEMMA IncrIndInv ==
  ASSUME IndInv, TypeOK', NEW v \in Verifies, NEW g \in Texted \cup {Wrong}, IncrAttempts(v, g)
  PROVE  IndInv'
<1>1. TypeOK /\ Verify(v)
  BY DEF IndInv, Verify
<1>2. /\ pc[v] = "new" /\ pc'[v] = "expire" /\ \A w \in Verifies \ {v} : pc'[w] = pc[w]
      /\ guess' = [guess EXCEPT ![v] = g] /\ count' = [count EXCEPT ![v] = attempts + 1]
      /\ attempts' = attempts + 1 /\ attemptsTtl' = attemptsTtl
      /\ otp' = otp /\ otpTtl' = otpTtl /\ used' = used
      /\ late' = late \cup {q \in {v} : \E w \in Verifies : pc[w] = "done" /\ guess[w] = g}
  BY <1>1, VerifyFrame DEF IncrAttempts, Step, TypeOK, keyVars, Requests
<1>3. g # Wrong => g \in Issued
  BY DEF Texted, Issued
<1>4. /\ guess'[v] = g /\ \A w \in Verifies \ {v} : guess'[w] = guess[w]
      /\ count'[v] = attempts'
  BY <1>1, <1>2 DEF TypeOK
<1>5. NewestInKey' /\ DelFindsOld' /\ GoodCodeStays' /\ CooldownCovers'
  <2>1. NewestInKey' /\ GoodCodeStays'
    BY <1>1, <1>2, VerifyFrame DEF IndInv, NewestInKey, GoodCodeStays
  <2>2. DelFindsOld'
    BY <1>1, <1>2, VerifyFrame DEF IndInv, DelFindsOld
  <2>3. CooldownCovers'
    BY <1>1, VerifyFrame DEF IndInv, CooldownCovers, TypeOK
  <2> QED BY <2>1, <2>2, <2>3
<1>6. SpentIsGone'
  <2>1. \A w \in late : w # v
    BY <1>2 DEF IndInv, SpentIsGone
  <2>2. \A w \in late' : pc'[w] # "new" /\ \E x \in Verifies : pc'[x] = "done" /\ guess'[x] = guess'[w]
    <3> SUFFICES ASSUME NEW w \in late'
                 PROVE  pc'[w] # "new" /\ \E x \in Verifies : pc'[x] = "done" /\ guess'[x] = guess'[w]
      OBVIOUS
    <3>1. CASE w = v
      <4>1. v \notin late
        BY <2>1
      <4>2. PICK x \in Verifies : pc[x] = "done" /\ guess[x] = g
        BY <1>2, <3>1, <4>1
      <4> QED BY <1>2, <1>4, <3>1, <4>2
    <3>2. CASE w # v
      <4>1. w \in late /\ w \in Verifies
        BY <1>1, <1>2, <3>2 DEF TypeOK
      <4>2. PICK x \in Verifies : pc[x] = "done" /\ guess[x] = guess[w]
        BY <4>1 DEF IndInv, SpentIsGone
      <4>3. x # v /\ pc[w] # "new"
        BY <1>2, <4>1, <4>2 DEF IndInv, SpentIsGone
      <4> QED BY <1>2, <1>4, <3>2, <4>1, <4>2, <4>3
    <3> QED BY <3>1, <3>2
  <2> QED BY <1>1, <1>2, <1>3, <1>4, <2>2, VerifyFrame DEF IndInv, SpentIsGone, Accepted
<1>7. CodeSpentOnce' /\ RejectedForCause' /\ CounterEnds'
  BY <1>1, <1>2, <1>4, VerifyFrame DEF IndInv, CodeSpentOnce, RejectedForCause, CounterEnds, Accepted, TypeOK
<1> QED BY <1>5, <1>6, <1>7 DEF IndInv

LEMMA ExpireIndInv ==
  ASSUME IndInv, TypeOK', NEW v \in Verifies, ExpireAttempts(v)
  PROVE  IndInv'
<1>1. TypeOK /\ Verify(v)
  BY DEF IndInv, Verify
<1>2. /\ pc[v] = "expire" /\ pc'[v] \in {"limited", "get"}
      /\ \A w \in Verifies \ {v} : pc'[w] = pc[w]
      /\ attempts' = attempts /\ attemptsTtl' = (IF attempts > 0 THEN Window ELSE NoTtl)
      /\ guess' = guess /\ count' = count /\ late' = late
      /\ otp' = otp /\ otpTtl' = otpTtl /\ used' = used
  BY <1>1, VerifyFrame DEF ExpireAttempts, Step, TypeOK, keyVars, histVars, Requests
<1>3. NewestInKey' /\ GoodCodeStays'
  BY <1>1, <1>2, VerifyFrame DEF IndInv, NewestInKey, GoodCodeStays
<1>4. DelFindsOld'
  BY <1>1, <1>2, VerifyFrame DEF IndInv, DelFindsOld
<1>5. CooldownCovers'
  BY <1>1, VerifyFrame DEF IndInv, CooldownCovers, TypeOK
<1>6. SpentIsGone'
  <2> SUFFICES ASSUME NEW w \in Verifies
               PROVE  /\ guess[w] # Wrong => guess[w] \in Issued
                      /\ Accepted(w)' => guess[w] \in used
                      /\ pc'[w] \in {"delAttempts", "done"} => otp # guess[w]
                      /\ w \in late => /\ pc'[w] # "new"
                                      /\ \E x \in Verifies : pc'[x] = "done" /\ guess[x] = guess[w]
    BY <1>1, <1>2, VerifyFrame DEF IndInv, SpentIsGone, Accepted
  <2>1. \A x \in Verifies : pc[x] = "done" => pc'[x] = "done"
    BY <1>2
  <2> QED BY <1>2, <2>1 DEF IndInv, SpentIsGone, Accepted
<1>7. CodeSpentOnce' /\ RejectedForCause'
  BY <1>1, <1>2, VerifyFrame DEF IndInv, CodeSpentOnce, RejectedForCause, Accepted
<1>8. CounterEnds'
  BY <1>2, Times, NullsAssumption DEF CounterEnds
<1> QED BY <1>3, <1>4, <1>5, <1>6, <1>7, <1>8 DEF IndInv

(* The code is read and judged: only the one in the key is accepted, and a   *)
(* texted one is rejected for a reason.                                      *)
LEMMA CheckIndInv ==
  ASSUME IndInv, TypeOK', NEW v \in Verifies, CheckOtp(v)
  PROVE  IndInv'
<1>1. TypeOK /\ Verify(v)
  BY DEF IndInv, Verify
<1>2. /\ pc[v] = "get" /\ pc'[v] = Verdict(v)
      /\ \A w \in Verifies \ {v} : pc'[w] = pc[w]
      /\ attempts' = attempts /\ attemptsTtl' = attemptsTtl
      /\ guess' = guess /\ count' = count /\ late' = late
      /\ otp' = otp /\ otpTtl' = otpTtl
      /\ used' = used \cup {c \in {otp} : Verdict(v) = "delOtp"}
  BY <1>1, VerifyFrame DEF CheckOtp, Step, TypeOK, keyVars, tryVars, Requests
<1>3. /\ Verdict(v) \in {"rejected", "lateDel", "delOtp"}
      /\ Verdict(v) = "delOtp" => otp \in Sends /\ guess[v] = otp
      /\ Verdict(v) = "lateDel" => otp \in Sends /\ validFor[otp] < 0
      /\ Verdict(v) = "rejected" /\ otp # NoOtp /\ guess[v] = otp => validFor[otp] < 0
  BY <1>1, VerdictFacts
<1>4. otp \in Sends => otp = newest /\ otp \in Issued
  BY NullsAssumption DEF IndInv, NewestInKey
<1>5. NewestInKey' /\ GoodCodeStays' /\ CooldownCovers'
  <2>1. NewestInKey' /\ GoodCodeStays'
    BY <1>1, <1>2, VerifyFrame DEF IndInv, NewestInKey, GoodCodeStays
  <2>2. CooldownCovers'
    BY <1>1, VerifyFrame DEF IndInv, CooldownCovers, TypeOK
  <2> QED BY <2>1, <2>2
<1>6. DelFindsOld'
  <2>1. pc'[v] \in {"delOtp", "lateDel"} =>
          newest \in Sends /\ (newest \in used' \cup overtaken \/ validFor[newest] < 0)
    BY <1>2, <1>3, <1>4
  <2> QED BY <1>1, <1>2, <2>1, VerifyFrame DEF IndInv, DelFindsOld
<1>7. SpentIsGone'
  <2>1. used' \subseteq Issued
    BY <1>2, <1>3, <1>4 DEF IndInv, SpentIsGone
  <2>2. Accepted(v)' => guess[v] \in used'
    BY <1>2, <1>3 DEF Accepted
  <2>3. \A x \in Verifies : pc[x] = "done" <=> pc'[x] = "done"
    BY <1>2, <1>3
  <2>4. ASSUME NEW w \in Verifies
        PROVE  /\ guess[w] # Wrong => guess[w] \in Issued
               /\ Accepted(w)' => guess[w] \in used'
               /\ pc'[w] \in {"delAttempts", "done"} => otp # guess[w]
               /\ w \in late => /\ pc'[w] # "new"
                               /\ \E x \in Verifies : pc'[x] = "done" /\ guess[x] = guess[w]
    BY <1>2, <1>3, <2>2, <2>3 DEF IndInv, SpentIsGone, Accepted
  <2> QED BY <1>1, <1>2, <2>1, <2>4, VerifyFrame DEF SpentIsGone, Accepted
<1>8. CodeSpentOnce'
  <2>1. Verdict(v) = "delOtp" => v \notin late
    BY <1>2, <1>3 DEF IndInv, SpentIsGone
  <2> QED BY <1>2, <1>3, <2>1 DEF IndInv, CodeSpentOnce, Accepted
<1>9. RejectedForCause'
  <2>1. Verdict(v) = "rejected" /\ guess[v] # Wrong =>
          LET c == guess[v] IN validFor[c] <= 0 \/ c \in used \/ newest # c \/ c \in overtaken
    <3> SUFFICES ASSUME Verdict(v) = "rejected", guess[v] # Wrong, guess[v] \notin used,
                        newest = guess[v], guess[v] \notin overtaken, ~(validFor[guess[v]] <= 0)
                 PROVE  FALSE
      OBVIOUS
    <3>1. guess[v] \in Sends /\ validFor[guess[v]] \in Int
      BY <1>1 DEF TypeOK
    <3>2. otp = guess[v]
      BY <3>1 DEF IndInv, GoodCodeStays
    <3> QED BY <1>3, <3>1, <3>2, NullsAssumption
  <2> QED BY <1>1, <1>2, <2>1, VerifyFrame DEF IndInv, RejectedForCause
<1>10. CounterEnds'
  BY <1>2 DEF IndInv, CounterEnds
<1> QED BY <1>5, <1>6, <1>7, <1>8, <1>9, <1>10 DEF IndInv

(* The three DELs.  What they find is old, so no good code is lost. *)
LEMMA DeleteIndInv ==
  ASSUME IndInv, TypeOK', NEW v \in Verifies, DeleteLate(v) \/ DeleteOtp(v) \/ DeleteAttempts(v)
  PROVE  IndInv'
<1>1. TypeOK /\ Verify(v)
  BY DEF IndInv, Verify
<1>2. /\ \/ pc[v] = "lateDel" /\ pc'[v] = "rejected" /\ otp' = NoOtp
         \/ pc[v] = "delOtp" /\ pc'[v] = "delAttempts" /\ otp' = NoOtp
         \/ pc[v] = "delAttempts" /\ pc'[v] = "done" /\ otp' = otp /\ otpTtl' = otpTtl
      /\ \A w \in Verifies \ {v} : pc'[w] = pc[w]
      /\ attempts' = 0 \/ (attempts' = attempts /\ attemptsTtl' = attemptsTtl)
      /\ guess' = guess /\ count' = count /\ late' = late /\ used' = used
  BY <1>1, VerifyFrame DEF DeleteLate, DeleteOtp, DeleteAttempts, DropOtp, Step, TypeOK, keyVars,
                           tryVars, histVars, Requests
<1>3. NewestInKey'
  BY <1>2, <1>1, VerifyFrame DEF IndInv, NewestInKey
<1>4. GoodCodeStays'
  <2>1. CASE pc[v] \in {"lateDel", "delOtp"}
    <3>1. newest \in Sends /\ (newest \in used \cup overtaken \/ validFor[newest] < 0)
      BY <2>1 DEF IndInv, DelFindsOld
    <3>2. \A c \in Sends \ (used \cup overtaken) : ~(newest = c /\ validFor[c] > 0)
      BY <1>1, <3>1 DEF TypeOK
    <3> QED BY <1>1, <1>2, <3>2, VerifyFrame DEF GoodCodeStays
  <2>2. CASE pc[v] = "delAttempts"
    BY <1>1, <1>2, <2>2, VerifyFrame DEF IndInv, GoodCodeStays
  <2> QED BY <1>2, <2>1, <2>2
<1>5. DelFindsOld'
  BY <1>1, <1>2, VerifyFrame DEF IndInv, DelFindsOld
<1>6. CooldownCovers'
  BY <1>1, VerifyFrame DEF IndInv, CooldownCovers, TypeOK
<1>7. SpentIsGone'
  <2>1. \A w \in Verifies : Accepted(w)' => Accepted(w)
    BY <1>2 DEF Accepted
  <2>2. \A x \in Verifies : pc[x] = "done" => pc'[x] = "done"
    BY <1>2
  <2>3. \A w \in Verifies : pc'[w] = "new" => pc[w] = "new"
    BY <1>2
  <2>4. ASSUME NEW w \in Verifies, pc'[w] \in {"delAttempts", "done"}
        PROVE  otp' # guess[w]
    <3>1. guess[w] \in Sends
      BY <1>1, <2>1, <2>4 DEF IndInv, SpentIsGone, Accepted, TypeOK
    <3> QED BY <1>2, <2>4, <3>1, NullsAssumption DEF IndInv, SpentIsGone
  <2> QED BY <1>1, <1>2, <2>1, <2>2, <2>3, <2>4, VerifyFrame DEF IndInv, SpentIsGone
<1>8. CodeSpentOnce'
  BY <1>2 DEF IndInv, CodeSpentOnce, Accepted
<1>9. RejectedForCause'
  <2>1. pc[v] = "lateDel" /\ guess[v] # Wrong =>
          LET c == guess[v] IN validFor[c] <= 0 \/ c \in used \/ newest # c \/ c \in overtaken
    BY <1>1 DEF IndInv, DelFindsOld, TypeOK
  <2> QED BY <1>1, <1>2, <2>1, VerifyFrame DEF IndInv, RejectedForCause
<1>10. CounterEnds'
  BY <1>1, <1>2 DEF IndInv, CounterEnds, TypeOK
<1> QED BY <1>3, <1>4, <1>5, <1>6, <1>7, <1>8, <1>9, <1>10 DEF IndInv

LEMMA VerifyIndInv ==
  ASSUME IndInv, NEW v \in Verifies, Verify(v)
  PROVE  IndInv'
<1>1. TypeOK'
  BY VerifyTypeOK DEF IndInv
<1> QED BY <1>1, IncrIndInv, ExpireIndInv, CheckIndInv, DeleteIndInv DEF Verify

-----------------------------------------------------------------------------
(* Failures and time.                                                       *)

LEMMA FailIndInv ==
  ASSUME IndInv, NEW r \in Requests, Fail(r)
  PROVE  IndInv'
<1>1. TypeOK /\ TypeOK' /\ Issued \subseteq Issued'
  BY FailTypeOK, IssuedKept DEF IndInv, Next
<1>2. /\ pc[r] \notin {"new", "done", "limited", "rejected", "failed"} /\ pc'[r] = "failed"
      /\ \A q \in Requests \ {r} : pc'[q] = pc[q]
  BY <1>1 DEF Fail, TypeOK
<1>3. /\ otp' = otp /\ otpTtl' = otpTtl /\ validFor' = validFor /\ limitTtl' = limitTtl
      /\ attempts' = attempts /\ attemptsTtl' = attemptsTtl /\ guess' = guess /\ count' = count
      /\ age' = age /\ hasty' = hasty /\ newest' = newest /\ overtaken' = overtaken
      /\ used' = used /\ late' = late
  BY DEF Fail, keyVars, tryVars, histVars
<1>4. \A v \in Verifies : /\ Accepted(v)' => Accepted(v)
                          /\ pc[v] = "done" => pc'[v] = "done"
                          /\ pc'[v] \in {"new", "rejected", "lateDel", "delOtp", "delAttempts", "done"} => pc[v] = pc'[v]
                          /\ pc[v] \in {"expire", "failed"} => pc'[v] \in {"expire", "failed"}
  BY <1>2 DEF Accepted, Requests
<1>5. NewestInKey' /\ GoodCodeStays'
  BY <1>1, <1>3 DEF IndInv, NewestInKey, GoodCodeStays
<1>6. DelFindsOld' /\ CodeSpentOnce' /\ RejectedForCause' /\ CounterEnds'
  BY <1>3, <1>4 DEF IndInv, DelFindsOld, CodeSpentOnce, RejectedForCause, CounterEnds
<1>7. CooldownCovers'
  BY <1>1, <1>2, <1>3 DEF IndInv, CooldownCovers, TypeOK, Requests
<1>8. SpentIsGone'
  <2> SUFFICES ASSUME NEW v \in Verifies
               PROVE  /\ guess[v] # Wrong => guess[v] \in Issued'
                      /\ Accepted(v)' => guess[v] \in used
                      /\ pc'[v] \in {"delAttempts", "done"} => otp # guess[v]
                      /\ v \in late => /\ pc'[v] # "new"
                                      /\ \E x \in Verifies : pc'[x] = "done" /\ guess[x] = guess[v]
    BY <1>1, <1>3 DEF IndInv, SpentIsGone
  <2> QED BY <1>1, <1>4 DEF IndInv, SpentIsGone
<1> QED BY <1>1, <1>5, <1>6, <1>7, <1>8 DEF IndInv

LEMMA TickIndInv ==
  ASSUME IndInv, Tick
  PROVE  IndInv'
<1>1. TypeOK /\ TypeOK'
  BY TickTypeOK DEF IndInv
<1>2. /\ pc' = pc /\ Issued' = Issued /\ guess' = guess /\ count' = count
      /\ hasty' = hasty /\ newest' = newest /\ overtaken' = overtaken
      /\ used' = used /\ late' = late
      /\ attempts' = 0 \/ (attempts' = attempts /\ (attemptsTtl' = NoTtl => attemptsTtl = NoTtl))
  BY <1>1, NullsAssumption DEF Tick, Issued, TypeOK
<1>3. otp' = NoOtp \/ otp' = otp
  BY DEF Tick
<1>4. NewestInKey'
  BY <1>2, <1>3 DEF IndInv, NewestInKey
<1>5. SpentIsGone'
  <2>1. \A v \in Verifies : pc[v] \in {"delAttempts", "done"} => guess[v] \in Sends
    BY <1>1 DEF IndInv, SpentIsGone, Accepted, TypeOK
  <2> QED BY <1>2, <1>3, <2>1, NullsAssumption DEF IndInv, SpentIsGone, Accepted
<1>6. DelFindsOld'
  BY <1>1, <1>2, TickFacts DEF IndInv, DelFindsOld
<1>7. GoodCodeStays'
  <2> SUFFICES ASSUME NEW c \in Sends \ (used \cup overtaken), newest = c, validFor'[c] > 0
               PROVE  otp' = c /\ otpTtl' >= validFor'[c]
    BY <1>2 DEF GoodCodeStays
  <2>1. validFor[c] > 0 /\ validFor'[c] = validFor[c] - 1 /\ validFor[c] \in Int
    BY <1>1, TickFacts DEF TypeOK
  <2>2. otp = c /\ otpTtl >= validFor[c]
    BY <2>1 DEF IndInv, GoodCodeStays
  <2>3. otpTtl' = otpTtl - 1 /\ otp' = (IF otpTtl' = 0 THEN NoOtp ELSE otp) /\ otpTtl \in Nat
    BY <1>1, <2>1, <2>2, TickFacts DEF TypeOK
  <2> QED BY <2>1, <2>2, <2>3
<1>8. CooldownCovers'
  <2>1. \A s \in Sends : pc[s] \in {"last", "sms", "done"} => limitTtl' + age'[s] >= Cooldown
    BY <1>1, TickFacts, Times DEF IndInv, CooldownCovers, TypeOK
  <2> QED BY <1>2, <2>1 DEF IndInv, CooldownCovers
<1>9. CodeSpentOnce'
  BY <1>2 DEF IndInv, CodeSpentOnce, Accepted
<1>10. RejectedForCause'
  <2>1. \A v \in Verifies : guess[v] # Wrong => guess[v] \in Sends
    BY <1>1 DEF TypeOK
  <2> QED BY <1>1, <1>2, <2>1, TickFacts DEF IndInv, RejectedForCause
<1>11. CounterEnds'
  BY <1>1, <1>2 DEF IndInv, CounterEnds, TypeOK
<1> QED BY <1>1, <1>4, <1>5, <1>6, <1>7, <1>8, <1>9, <1>10, <1>11 DEF IndInv

LEMMA StepIndInv == IndInv /\ [Next]_vars => IndInv'
<1> SUFFICES ASSUME IndInv, [Next]_vars PROVE IndInv'
  OBVIOUS
<1>1. CASE UNCHANGED vars
  BY <1>1 DEF vars, keyVars, tryVars, histVars, lifeVars, IndInv, TypeOK, NewestInKey, SpentIsGone, DelFindsOld,
              GoodCodeStays, CooldownCovers, CodeSpentOnce, RejectedForCause, CounterEnds,
              Issued, Accepted
<1> QED BY <1>1, SendIndInv, VerifyIndInv, FailIndInv, TickIndInv DEF Next

(* The strengthening in OtpFlow holds in every reachable state. *)
THEOREM Invariance == Spec => []IndInv
<1>1. Init => IndInv
  BY InitIndInv
<1>2. IndInv /\ [Next]_vars => IndInv'
  BY StepIndInv
<1> QED BY <1>1, <1>2, PTL DEF Spec

-----------------------------------------------------------------------------
(* What follows.                                                            *)

(* A send that begins after another has texted, but within a cooldown of the *)
(* other's own beginning, gets no further than checkRateLimits.              *)
THEOREM SendsAreSpaced == Spec => []SpacedSends
<1>1. IndInv => SpacedSends
  BY DEF IndInv, CooldownCovers, SpacedSends
<1> QED BY <1>1, Invariance, PTL

(* A code that let somebody in opens nothing to a request that begins later: *)
(* cleanupOtpData.                                                           *)
THEOREM CodesSpentOnce == Spec => []CodeSpentOnce
<1>1. IndInv => CodeSpentOnce
  BY DEF IndInv
<1> QED BY <1>1, Invariance, PTL

(* A texted code is rejected only when it is old, used or replaced, or when  *)
(* a cleanup for an older one removed it.                                    *)
THEOREM RejectionsHaveCause == Spec => []RejectedForCause
<1>1. IndInv => RejectedForCause
  BY DEF IndInv
<1> QED BY <1>1, Invariance, PTL

(* The counter of attempts lacks an expiry only while the last attempt is    *)
(* between its INCR and its EXPIRE, or has died there.                       *)
THEOREM CountersEnd == Spec => []CounterEnds
<1>1. IndInv => CounterEnds
  BY DEF IndInv
<1> QED BY <1>1, Invariance, PTL

-----------------------------------------------------------------------------
(* The number of guesses.                                                   *)

LEMMA InitNumbered == Init => GuessesNumbered
  BY DEF Init, GuessesNumbered, Numbered, Requests

(* A step that numbers no guess and takes back no number keeps them apart.   *)
TakesNoNumberBack ==
  /\ count' = count /\ lifeOf' = lifeOf
  /\ \A c \in Sends : lives[c] \subseteq lives'[c]
  /\ \/ life' = life /\ attempts' = attempts
     \/ life' = life + 1
  /\ otp' # NoOtp => \/ otp' = otp /\ life' = life
                     \/ otp' = otp /\ life' \in lives'[otp]
                     \/ life' \in lives'[otp'] /\ \A v \in Numbered : lifeOf[v] \in lives'[otp']
  /\ \A v \in Verifies :
       /\ pc'[v] = "new" <=> pc[v] = "new"
       /\ pc'[v] \in {"expire", "get"} => pc[v] \in {"expire", "get"}
       /\ pc'[v] = "get" => count[v] <= MaxAttempts
       /\ pc'[v] = "limited" => pc[v] \in {"expire", "limited"}
       /\ \/ faced'[v] \in {faced[v], NoOtp}
          \/ pc[v] = "get" /\ faced'[v] = otp /\ pc'[v] \notin {"new", "expire", "get", "limited"}

LEMMA NumbersKept ==
  ASSUME TypeOK, GuessesNumbered, otp' \in Sends \cup {NoOtp}, TakesNoNumberBack
  PROVE  GuessesNumbered'
<1> USE DEF TakesNoNumberBack
<1>1. /\ life \in Nat /\ \A v \in Verifies : lifeOf[v] \in Nat /\ lifeOf[v] <= life
      /\ \A v \in Verifies : faced[v] \in Sends \cup {NoOtp}
      /\ otp \in Sends \cup {NoOtp}
  BY DEF TypeOK
<1>2. Numbered' \subseteq Numbered
  BY DEF Numbered
<1>3. otp' # NoOtp => /\ life' \in lives'[otp']
                      /\ \A v \in Numbered' : lifeOf'[v] \in lives'[otp']
  BY <1>1, <1>2 DEF GuessesNumbered
<1>4. \A v \in Verifies : faced'[v] # NoOtp =>
        lifeOf'[v] \in lives'[faced'[v]] /\ pc'[v] \notin {"new", "expire", "get", "limited"}
  <2> SUFFICES ASSUME NEW v \in Verifies, faced'[v] # NoOtp
               PROVE  lifeOf'[v] \in lives'[faced'[v]] /\ pc'[v] \notin {"new", "expire", "get", "limited"}
    OBVIOUS
  <2>1. CASE faced'[v] = faced[v]
    BY <1>1, <2>1 DEF GuessesNumbered
  <2>2. CASE pc[v] = "get" /\ faced'[v] = otp /\ pc'[v] \notin {"new", "expire", "get", "limited"}
    <3>1. v \in Numbered /\ otp \in Sends /\ otp # NoOtp
      BY <1>1, <2>2 DEF Numbered
    <3> QED BY <2>2, <3>1 DEF GuessesNumbered
  <2> QED BY <2>1, <2>2
<1>5. \A v \in Verifies : pc'[v] = "new" <=> count'[v] = 0
  BY DEF GuessesNumbered
<1>6. \A v \in Verifies : faced'[v] # NoOtp \/ pc'[v] = "get" => count'[v] <= MaxAttempts
  BY DEF GuessesNumbered
<1>7. \A v \in Verifies : lifeOf'[v] = life' => count'[v] <= attempts'
  BY <1>1 DEF GuessesNumbered
<1>8. \A v, w \in Verifies :
        count'[v] > 0 /\ count'[w] = count'[v] /\ lifeOf'[w] = lifeOf'[v] => w = v
  BY DEF GuessesNumbered
<1> QED BY <1>3, <1>4, <1>5, <1>6, <1>7, <1>8 DEF GuessesNumbered

LEMMA SendNumbered ==
  ASSUME IndInv, GuessesNumbered, NEW s \in Sends, Send(s)
  PROVE  GuessesNumbered'
<1>1. TypeOK' /\ TypeOK
  BY SendIndInv DEF IndInv
<1>2. \A v \in Verifies : pc'[v] = pc[v]
  BY <1>1, RequestsAssumption
  DEF Send, CheckSendLimit, CheckCooldown, StoreOtp, SetSendLimit, SetLastRequest, SendSms,
      Step, TypeOK, Requests
<1>3. count' = count /\ attempts' = attempts /\ faced' = faced /\ lifeOf' = lifeOf /\ life' = life
  BY DEF Send, CheckSendLimit, CheckCooldown, StoreOtp, SetSendLimit, SetLastRequest, SendSms,
         histVars, lifeVars, tryVars
<1>4. \A v \in Verifies : pc[v] = "get" => count[v] <= MaxAttempts
  BY DEF GuessesNumbered
<1>5. otp' \in Sends \cup {NoOtp}
  BY <1>1 DEF TypeOK
<1>6. CASE StoreOtp(s)
  <2>1. /\ otp' = s /\ lives'[s] = lives[s] \cup {life} \cup {lifeOf[v] : v \in Numbered}
        /\ \A c \in Sends \ {s} : lives'[c] = lives[c]
    BY <1>1, <1>6 DEF StoreOtp, TypeOK
  <2>2. /\ \A c \in Sends : lives[c] \subseteq lives'[c]
        /\ life' \in lives'[otp'] /\ \A v \in Numbered : lifeOf[v] \in lives'[otp']
    BY <1>3, <2>1
  <2>3. TakesNoNumberBack
    BY <1>1, <1>2, <1>3, <1>4, <1>5, <2>2 DEF TakesNoNumberBack
  <2> QED BY <1>1, <1>5, <2>3, NumbersKept
<1>7. CASE ~StoreOtp(s)
  <2>1. otp' = otp /\ lives' = lives
    BY <1>7 DEF Send, CheckSendLimit, CheckCooldown, SetSendLimit, SetLastRequest, SendSms, keyVars,
                histVars, lifeVars
  <2>2. TakesNoNumberBack
    BY <1>1, <1>2, <1>3, <1>4, <1>5, <2>1 DEF TakesNoNumberBack
  <2> QED BY <1>1, <1>5, <2>2, NumbersKept
<1> QED BY <1>6, <1>7

LEMMA IncrNumbered ==
  ASSUME IndInv, GuessesNumbered, NEW v \in Verifies, NEW g \in Texted \cup {Wrong}, IncrAttempts(v, g)
  PROVE  GuessesNumbered'
<1>1. TypeOK /\ Verify(v)
  BY DEF IndInv, Verify
<1>2. /\ pc[v] = "new" /\ pc'[v] = "expire" /\ \A w \in Verifies \ {v} : pc'[w] = pc[w]
      /\ count'[v] = attempts + 1 /\ \A w \in Verifies \ {v} : count'[w] = count[w]
      /\ lifeOf'[v] = life /\ \A w \in Verifies \ {v} : lifeOf'[w] = lifeOf[w]
      /\ attempts' = attempts + 1 /\ attempts \in Nat
      /\ otp' = otp /\ life' = life /\ lives' = lives /\ faced' = faced
  BY <1>1, VerifyFrame DEF IncrAttempts, Step, TypeOK, keyVars, Requests
<1>3. \A w \in Verifies : count[w] \in Nat
  BY <1>1 DEF TypeOK
<1>4. otp' # NoOtp => /\ life' \in lives'[otp']
                      /\ \A w \in Numbered' : lifeOf'[w] \in lives'[otp']
  BY <1>2 DEF GuessesNumbered, Numbered
<1>5. \A w \in Verifies : faced'[w] # NoOtp =>
        lifeOf'[w] \in lives'[faced'[w]] /\ pc'[w] \notin {"new", "expire", "get", "limited"}
  BY <1>2 DEF GuessesNumbered
<1>6. \A w \in Verifies : pc'[w] = "new" <=> count'[w] = 0
  BY <1>2 DEF GuessesNumbered
<1>7. \A w \in Verifies : faced'[w] # NoOtp \/ pc'[w] = "get" => count'[w] <= MaxAttempts
  BY <1>2 DEF GuessesNumbered
<1>8. \A w \in Verifies : lifeOf'[w] = life' => count'[w] <= attempts'
  BY <1>2, <1>3 DEF GuessesNumbered
<1>9. \A x, w \in Verifies :
        count'[x] > 0 /\ count'[w] = count'[x] /\ lifeOf'[w] = lifeOf'[x] => w = x
  <2>1. \A w \in Verifies \ {v} : lifeOf[w] = life => count[w] < attempts + 1
    BY <1>2, <1>3 DEF GuessesNumbered
  <2> QED BY <1>2, <1>3, <2>1 DEF GuessesNumbered
<1> QED BY <1>4, <1>5, <1>6, <1>7, <1>8, <1>9 DEF GuessesNumbered

LEMMA VerifyNumbered ==
  ASSUME IndInv, GuessesNumbered, NEW v \in Verifies, Verify(v)
  PROVE  GuessesNumbered'
<1>1. TypeOK /\ TypeOK' /\ otp' \in Sends \cup {NoOtp}
  BY VerifyIndInv DEF IndInv, TypeOK
<1>2. \A w \in Verifies \ {v} : pc'[w] = pc[w]
  BY <1>1, VerifyFrame
<1>3. \A w \in Verifies : pc[w] = "get" => count[w] <= MaxAttempts
  BY DEF GuessesNumbered
<1>4. CASE ExpireAttempts(v)
  <2>1. /\ pc[v] = "expire" /\ pc'[v] \in {"get", "limited"} /\ (pc'[v] = "get" => count[v] <= MaxAttempts)
        /\ count' = count /\ attempts' = attempts /\ faced' = faced /\ otp' = otp
        /\ lifeOf' = lifeOf /\ life' = life /\ lives' = lives
    BY <1>1, <1>4, Times DEF ExpireAttempts, Step, TypeOK, Requests, keyVars, histVars, lifeVars
  <2>2. TakesNoNumberBack
    BY <1>1, <1>2, <1>3, <2>1 DEF TakesNoNumberBack
  <2> QED BY <1>1, <2>2, NumbersKept
<1>5. CASE CheckOtp(v)
  <2>1. /\ pc[v] = "get" /\ pc'[v] \in {"rejected", "lateDel", "delOtp"}
        /\ count' = count /\ attempts' = attempts /\ otp' = otp
        /\ lifeOf' = lifeOf /\ life' = life /\ lives' = lives
        /\ faced'[v] \in {otp, NoOtp} /\ \A w \in Verifies \ {v} : faced'[w] = faced[w]
    BY <1>1, <1>5, VerdictFacts DEF CheckOtp, Step, TypeOK, Requests, keyVars, tryVars, lifeVars
  <2>2. TakesNoNumberBack
    BY <1>1, <1>2, <1>3, <2>1 DEF TakesNoNumberBack
  <2> QED BY <1>1, <2>2, NumbersKept
<1>6. CASE DeleteLate(v) \/ DeleteOtp(v)
  <2>1. /\ pc[v] \in {"lateDel", "delOtp"} /\ pc'[v] \in {"rejected", "delAttempts"}
        /\ count' = count /\ attempts' = attempts /\ otp' = NoOtp /\ faced' = faced
        /\ lifeOf' = lifeOf /\ life' = life /\ lives' = lives
    BY <1>1, <1>6 DEF DeleteLate, DeleteOtp, DropOtp, Step, TypeOK, Requests, tryVars, histVars, lifeVars
  <2>2. TakesNoNumberBack
    BY <1>1, <1>2, <1>3, <2>1 DEF TakesNoNumberBack
  <2> QED BY <1>1, <2>2, NumbersKept
<1>7. CASE DeleteAttempts(v)
  <2>1. /\ pc[v] = "delAttempts" /\ pc'[v] = "done" /\ attempts' = 0 /\ attempts \in Nat
        /\ count' = count /\ otp' = otp /\ faced' = faced /\ lifeOf' = lifeOf
        /\ NextLife({otp} \ {guess[v]})
    BY <1>1, <1>7 DEF DeleteAttempts, Step, TypeOK, Requests, keyVars
  <2>2. otp # guess[v]
    BY <2>1 DEF IndInv, SpentIsGone
  <2>3. /\ life' = (IF attempts > 0 THEN life + 1 ELSE life)
        /\ \A c \in Sends : lives[c] \subseteq lives'[c] /\ (c = otp => life' \in lives'[c])
    BY <1>1, <2>1, <2>2, LifeFacts
  <2>4. (life' = life /\ attempts' = attempts) \/ life' = life + 1
    BY <2>1, <2>3
  <2>5. TakesNoNumberBack
    BY <1>1, <1>2, <1>3, <2>1, <2>3, <2>4 DEF TakesNoNumberBack
  <2> QED BY <1>1, <2>5, NumbersKept
<1> QED BY <1>4, <1>5, <1>6, <1>7, IncrNumbered DEF Verify

LEMMA FailNumbered ==
  ASSUME IndInv, GuessesNumbered, NEW r \in Requests, Fail(r)
  PROVE  GuessesNumbered'
<1>1. TypeOK
  BY DEF IndInv
<1>2. /\ pc[r] # "new" /\ pc'[r] = "failed" /\ \A q \in Requests \ {r} : pc'[q] = pc[q]
      /\ count' = count /\ attempts' = attempts /\ otp' = otp /\ faced' = faced
      /\ lifeOf' = lifeOf /\ life' = life /\ lives' = lives
  BY <1>1 DEF Fail, TypeOK, keyVars, tryVars, histVars, lifeVars
<1>3. \A v \in Verifies : v \in Requests /\ (pc[v] = "get" => count[v] <= MaxAttempts)
  BY DEF Requests, GuessesNumbered
<1>4. otp' \in Sends \cup {NoOtp}
  BY <1>1, <1>2 DEF TypeOK
<1>5. TakesNoNumberBack
  BY <1>1, <1>2, <1>3, <1>4 DEF TakesNoNumberBack
<1> QED BY <1>1, <1>4, <1>5, NumbersKept

LEMMA TickNumbered ==
  ASSUME IndInv, GuessesNumbered, Tick
  PROVE  GuessesNumbered'
<1>1. TypeOK /\ TypeOK'
  BY TickIndInv DEF IndInv
<1>2. /\ pc' = pc /\ count' = count /\ faced' = faced /\ lifeOf' = lifeOf
      /\ otp' = NoOtp \/ otp' = otp
      /\ \/ attempts' = 0 /\ NextLife({otp})
         \/ attempts' = attempts /\ life' = life /\ lives' = lives
  BY <1>1 DEF Tick, TypeOK
<1>3. /\ \A c \in Sends : lives[c] \subseteq lives'[c]
      /\ (life' = life /\ attempts' = attempts) \/ life' = life + 1
      /\ life' = life \/ (otp \in Sends => life' \in lives'[otp])
  <2>1. CASE attempts' = 0 /\ NextLife({otp})
    <3>1. /\ life' = (IF attempts > 0 THEN life + 1 ELSE life) /\ attempts \in Nat
          /\ \A c \in Sends : lives[c] \subseteq lives'[c] /\ (c \in {otp} => life' \in lives'[c])
      BY <1>1, <1>2, <2>1, LifeFacts DEF TypeOK
    <3> QED BY <2>1, <3>1
  <2>2. CASE attempts' = attempts /\ life' = life /\ lives' = lives
    BY <2>2
  <2> QED BY <1>2, <2>1, <2>2
<1>4. otp' \in Sends \cup {NoOtp} /\ otp \in Sends \cup {NoOtp}
  BY <1>1 DEF TypeOK
<1>5. \A v \in Verifies : pc[v] = "get" => count[v] <= MaxAttempts
  BY DEF GuessesNumbered
<1>6. TakesNoNumberBack
  BY <1>1, <1>2, <1>3, <1>4, <1>5 DEF TakesNoNumberBack
<1> QED BY <1>1, <1>4, <1>6, NumbersKept

(* A life of the counter and a number up to MaxAttempts tell the guesses at  *)
(* a code apart.                                                            *)
LEMMA NumberedIsBounded == TypeOK /\ GuessesNumbered => GuessBudget
<1> SUFFICES ASSUME TypeOK, GuessesNumbered, NEW c \in Sends
             PROVE  Cardinality({v \in Verifies : faced[v] = c}) <= MaxAttempts * Cardinality(lives[c])
  BY DEF GuessBudget
<1> DEFINE S == {v \in Verifies : faced[v] = c}
           I == 1 .. MaxAttempts
           f == [v \in S |-> <<lifeOf[v], count[v]>>]
<1>1. \A v \in S : lifeOf[v] \in lives[c] /\ count[v] \in I /\ count[v] > 0
  <2> SUFFICES ASSUME NEW v \in S PROVE lifeOf[v] \in lives[c] /\ count[v] \in I /\ count[v] > 0
    OBVIOUS
  <2>1. v \in Verifies /\ faced[v] = c /\ faced[v] # NoOtp
    BY NullsAssumption
  <2>2. count[v] \in Nat /\ count[v] # 0 /\ count[v] <= MaxAttempts /\ lifeOf[v] \in lives[c]
    BY <2>1 DEF TypeOK, GuessesNumbered
  <2> QED BY <2>2, Times
<1>2. \A v, w \in S : lifeOf[v] = lifeOf[w] /\ count[v] = count[w] => v = w
  BY <1>1 DEF GuessesNumbered
<1>3. IsFiniteSet(I) /\ Cardinality(I) = MaxAttempts
  BY Times, FS_Interval
<1>4. IsFiniteSet(lives[c]) /\ Cardinality(lives[c]) \in Nat
  <2>1. lives[c] \subseteq 0 .. life /\ life \in Nat
    BY DEF TypeOK
  <2>2. IsFiniteSet(0 .. life)
    BY <2>1, FS_Interval
  <2> QED BY <2>1, <2>2, FS_Subset, FS_CardinalityType
<1> HIDE DEF S, I
<1>5. f \in Injection(S, lives[c] \X I)
  BY <1>1, <1>2 DEF Injection, IsInjective
<1>6. IsFiniteSet(lives[c] \X I) /\ Cardinality(lives[c] \X I) = Cardinality(lives[c]) * Cardinality(I)
  BY <1>3, <1>4, FS_Product
<1>7. Cardinality(S) <= Cardinality(lives[c] \X I)
  BY <1>5, <1>6, FS_Injection
<1>8. Cardinality(lives[c]) * MaxAttempts = MaxAttempts * Cardinality(lives[c])
  BY <1>4, Times
<1> QED BY <1>3, <1>6, <1>7, <1>8 DEF S

(* However many sends and verifications overlap, a code is compared with at  *)
(* most MaxAttempts guesses for each life of the counter that reaches into   *)
(* its stay in the key, and the success that deletes the counter gives its   *)
(* own code no further life: checkVerifyAttempts, cleanupOtpData.            *)
THEOREM GuessesBounded == Spec => []GuessBudget
<1>1. Init => GuessesNumbered
  BY InitNumbered
<1>2. IndInv /\ GuessesNumbered /\ [Next]_vars => GuessesNumbered'
  <2> SUFFICES ASSUME IndInv, GuessesNumbered, [Next]_vars PROVE GuessesNumbered'
    OBVIOUS
  <2>1. CASE UNCHANGED vars
    BY <2>1 DEF vars, keyVars, tryVars, histVars, lifeVars, GuessesNumbered, Numbered
  <2> QED BY <2>1, SendNumbered, VerifyNumbered, FailNumbered, TickNumbered DEF Next
<1>3. IndInv /\ GuessesNumbered => GuessBudget
  BY NumberedIsBounded DEF IndInv
<1> QED BY <1>1, <1>2, <1>3, Invariance, PTL DEF Spec
=============================================================================
