------------------------------- MODULE EditFate -------------------------------
(***************************************************************************)
(* What the editor promises the user about each edit or undo asked for,    *)
(* whatever the connection to the edit daemon does: it stays pending until *)
(* the daemon's text, shown in the view, has it, or until it is handed     *)
(* back (in a conflict, in a detached copy, or as an outcome that says it  *)
(* did not complete).  EditMirror implements it.                           *)
(***************************************************************************)
CONSTANT Op

VARIABLES
  fate,       \* fate[p] \in {"new", "pending", "shown", "handed"}
  committed   \* the operations the daemon has committed

vars == <<fate, committed>>

Init ==
  /\ fate = [p \in Op |-> "new"]
  /\ committed = {}

Ask(p) ==
  /\ fate[p] = "new"
  /\ fate' = [fate EXCEPT ![p] = "pending"]
  /\ UNCHANGED committed

Commit(p) ==
  /\ fate[p] # "new"
  /\ committed' = committed \cup {p}
  /\ UNCHANGED fate

\* Pending operations are shown or handed back, several at once if need be; one
\* that was handed back may turn out to have been committed.
Settle(shown, handed) ==
  /\ shown \subseteq committed
  /\ \A p \in shown : fate[p] \in {"pending", "handed"}
  /\ \A p \in handed : fate[p] = "pending"
  /\ fate' = [p \in Op |-> IF p \in shown THEN "shown"
                           ELSE IF p \in handed THEN "handed" ELSE fate[p]]
  /\ UNCHANGED committed

Next ==
  \/ \E p \in Op : Ask(p) \/ Commit(p)
  \/ \E shown, handed \in SUBSET Op : Settle(shown, handed)

\* Nothing stays pending for ever.
Settles == \A p \in Op : fate[p] = "pending" ~> fate[p] # "pending"

Spec == Init /\ [][Next]_vars /\ Settles
=============================================================================
