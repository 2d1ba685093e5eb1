---------------------------- MODULE MCSessionAuth -----------------------------
(* Requests, users and limits for checking SessionAuth with TLC. *)
EXTENDS SessionAuth, TLC

CONSTANTS in1, in2, ref1, ref2, use1, use2

TwoSessions == {in1, in2, ref1, use1, use2}
OneSession  == {in1, ref1, ref2, use1, use2}

KindsOf ==
  [r \in {in1, in2, ref1, ref2, use1, use2} |->
     CASE r \in {in1, in2} -> "login" [] r \in {ref1, ref2} -> "refresh" [] OTHER -> "guarded"]

KindsTwoSessions == [r \in TwoSessions |-> KindsOf[r]]
KindsOneSession  == [r \in OneSession |-> KindsOf[r]]

OneUser == [s \in {in1, in2} |-> "user"]

Symmetry == Permutations({use1, use2}) \cup Permutations({ref1, ref2})
=============================================================================
