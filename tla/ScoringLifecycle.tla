--------------------------- MODULE ScoringLifecycle ---------------------------
(***************************************************************************)
(* What the scoring pipeline promises about each prediction, with no       *)
(* queue, handler or retry in sight.  A prediction that was queued stays   *)
(* queued until it is scored or dead-lettered, a scored one stays scored,  *)
(* and none stays queued for ever.  A dead-lettered prediction may still   *)
(* be queued again (by the next trigger, or because another copy of its    *)
(* job is alive) or scored (by a handler that outlived its connection, or  *)
(* by a row whose INSERT nobody waited for any more).                      *)
(***************************************************************************)
CONSTANT Predictions

VARIABLE status

Statuses == {"absent", "stored", "queued", "dead", "scored"}

Successors ==
  [absent |-> {"stored"},
   stored |-> {"queued"},
   queued |-> {"scored", "dead"},
   dead   |-> {"queued", "scored"},
   scored |-> {}]

TypeOK == status \in [Predictions -> Statuses]

Init == status = [p \in Predictions |-> "absent"]

(* One failure can touch several predictions, so they move together. *)
Next ==
  /\ status' \in [Predictions -> Statuses]
  /\ \A p \in Predictions : status'[p] \in Successors[status[p]] \cup {status[p]}

NeverStuck == \A p \in Predictions : []<>(status[p] # "queued")

SafeSpec == Init /\ [][Next]_status

Spec == SafeSpec /\ NeverStuck
=============================================================================
