------------------------------ MODULE MCOtpFlow -------------------------------
(* Requests and symmetry for checking OtpFlow with TLC. *)
EXTENDS OtpFlow, TLC

CONSTANTS s1, s2, v1, v2

TwoSends    == {s1, s2}
TwoVerifies == {v1, v2}

Symmetry == Permutations(TwoSends) \cup Permutations(TwoVerifies)
=============================================================================
