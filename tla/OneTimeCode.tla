------------------------------ MODULE OneTimeCode ------------------------------
(***************************************************************************)
(* What the one-time codes of one Redis key promise, whatever OtpService   *)
(* does between its calls: only the code stored last opens anything, only  *)
(* while it is stored, and a code that was replaced, deleted or dropped is *)
(* never stored again.                                                     *)
(***************************************************************************)
CONSTANTS
  Codes,   (* the codes that may be generated                                *)
  NoCode   (* the key is absent; no code is equal to it                      *)

VARIABLES
  code,     (* the code stored                                               *)
  issued,   (* codes that were stored, or never will be                      *)
  accepted  (* codes that let somebody in                                    *)

codeVars == <<code, issued, accepted>>

Init == code = NoCode /\ issued = {} /\ accepted = {}

Store(c) ==
  /\ c \in Codes \ issued
  /\ code' = c
  /\ issued' = issued \cup {c}
  /\ UNCHANGED accepted

(* The request that generated c stops before it stores it. *)
Abandon(c) ==
  /\ c \in Codes \ issued
  /\ issued' = issued \cup {c}
  /\ UNCHANGED <<code, accepted>>

Accept ==
  /\ code # NoCode
  /\ accepted' = accepted \cup {code}
  /\ UNCHANGED <<code, issued>>

(* Deleted after its use, or its time has come. *)
Drop ==
  /\ code' = NoCode
  /\ UNCHANGED <<issued, accepted>>

Next == (\E c \in Codes : Store(c) \/ Abandon(c)) \/ Accept \/ Drop

Spec == Init /\ [][Next]_codeVars
=============================================================================
