------------------------------ MODULE MCEditFold ------------------------------
(* Scenarios of EditFold for TLC. *)
EXTENDS EditFold

Plan(n, l, r) == [text |-> [i \in 1..n |-> <<"text", 0, 0, i>>], locals |-> l, remotes |-> r]

\* Two items on both sides; two pending transactions under one remote; one
\* transaction under two remotes.
Crossing == {Plan(3, <<2>>, <<1>>), Plan(2, <<2>>, <<2>>), Plan(2, <<2, 1>>, <<1>>),
             Plan(2, <<1, 1>>, <<2>>), Plan(2, <<1>>, <<1, 1>>)}
=============================================================================
