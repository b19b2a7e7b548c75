------------------------------ MODULE MCEditUndo ------------------------------
(* Scenarios of EditUndo for TLC. *)
EXTENDS EditUndo

CONSTANTS a, b

Plan(n, l, i, e, u, r, d) ==
  [text |-> [k \in 1..n |-> k], solo |-> l, items |-> i, edits |-> e, undos |-> u,
   redos |-> r, reloads |-> d]

\* One lane alone; two lanes over three edits, over repeated undo and redo, with
\* edits of two items, and with a reload from disk.
Mixed == {Plan(1, TRUE, 1, 3, 3, 2, 0), Plan(1, FALSE, 1, 3, 2, 1, 0), Plan(2, FALSE, 1, 2, 2, 2, 0),
          Plan(1, FALSE, 2, 2, 2, 1, 0), Plan(2, FALSE, 1, 1, 2, 1, 1)}

\* Two lanes, an edit each, both undone.
BothUndone == {Plan(2, FALSE, 1, 2, 2, 0, 0)}

Interchangeable == Permutations(Lanes)
=============================================================================
