---------------------------- MODULE MCNodeRouting ----------------------------
(* Instances of NodeRouting for TLC: casts of clients. *)
EXTENDS NodeRouting, TLC

CONSTANTS c1, c2, c3, s1, s2

\* Nobody does anything; each cast below says what is different.
Extras == [conns |-> Conn, ids |-> [c \in Conn |-> {}], names |-> [c \in Conn |-> {}],
           casters |-> {}, frail |-> {}, tappers |-> {}, gated |-> {}]

\* Two callers number their requests alike; c3 answers.
RepliesCast == [Extras EXCEPT !.ids[c1] = {1}, !.ids[c2] = {1}, !.names[c3] = {s1},
                              !.frail = {c1, c3}]

\* c2 and c3 hand the names to each other while c1 calls.
NamesCast == [Extras EXCEPT !.ids[c1] = {1}, !.names[c2] = {s1, s2},
                            !.names[c3] = {s1, s2}, !.frail = {c2, c3}]

\* Two tasks broadcast to the taps of both.
TapsCast == [Extras EXCEPT !.conns = {c1, c2}, !.ids[c1] = {1, 2}, !.names[c2] = {s1},
                           !.casters = {c2}, !.frail = {c1}, !.tappers = {c1, c2}]

\* A reload may revoke c1, which calls, casts and holds a name.
ReloadCast == [Extras EXCEPT !.conns = {c1, c2}, !.ids[c1] = {1}, !.casters = {c1},
                             !.names[c1] = {s1}, !.names[c2] = {s1}, !.frail = {c2},
                             !.gated = {c1}]

LocalCasts  == {RepliesCast, NamesCast, TapsCast}
ReloadCasts == {ReloadCast}
TapsCasts   == {TapsCast}
=============================================================================
