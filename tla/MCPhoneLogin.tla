------------------------------ MODULE MCPhoneLogin ------------------------------
(* Phones, addresses and symmetry for checking PhoneLogin with TLC: four    *)
(* spellings of one subscriber and one of another, and one spelling of each *)
(* in Persian digits.                                                       *)
EXTENDS PhoneLogin, TLC

CONSTANTS c1, c2, l1, l2, l3, home, away

TwoTexts    == {c1, c2}
ThreeLogins == {l1, l2, l3}

Phones == { <<"+", "9", "8", "9", "1">>, <<"9", "8", " ", "9", "1">>, <<"0", "9", "1">>,
            <<"0", "0", "9", "8", "9", "1">>, <<"0", "9", "2">>,
            <<"fa0", "fa9", "fa1">>, <<"fa0", "fa9", "fa2">> }

Persian    == {"fa0", "fa1", "fa2", "fa9"}
PersianFor == [ch \in Persian |-> CASE ch = "fa0" -> "0" [] ch = "fa1" -> "1"
                                     [] ch = "fa2" -> "2" [] OTHER -> "9"]

ASSUME KeptSelects ==
  \A p \in Phones : Kept(p) = SelectSeq(p, LAMBDA ch : ch \in Digits \cup {"+"})

Addresses == [l \in ThreeLogins |-> IF l = l1 THEN home ELSE away]

Symmetry == Permutations(TwoTexts) \cup Permutations({l2, l3})
=============================================================================
