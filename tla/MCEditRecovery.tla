---------------------------- MODULE MCEditRecovery ----------------------------
(* Scenarios of EditRecovery for TLC. *)
EXTENDS EditRecovery

Plan(e, s, r, f, p, c, h, l) ==
  [edits |-> e, saves |-> s, reloads |-> r, faults |-> f, slips |-> p, crashes |-> c,
   flushes |-> h, leases |-> l]

\* A writer that fails, with no save to discard what it owes; saves and reloads
\* whose own fsync or Discard may fail; a second crash before the first restore
\* is over.
Protected == {Plan(3, 0, 0, 1, 0, 1, 1, 1), Plan(2, 1, 1, 0, 1, 1, 1, 0),
              Plan(3, 1, 0, 0, 0, 1, 1, 0), Plan(2, 2, 0, 0, 1, 1, 0, 0),
              Plan(2, 0, 0, 0, 0, 2, 1, 0)}

\* A save while a Switch fails.
SavedOver == {Plan(2, 1, 0, 1, 0, 0, 1, 0)}
=============================================================================
