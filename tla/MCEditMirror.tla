---------------------------- MODULE MCEditMirror ----------------------------
(* Instances of EditMirror for TLC: what may happen in each scenario. *)
EXTENDS EditMirror

Calm == [kinds |-> <<"edit", "edit">>, retain |-> 9, dedup |-> 9,
         remotes |-> 0, repeats |-> 0, asides |-> 0, bigs |-> 0, losses |-> 0,
         silents |-> 0, others |-> 0, reconnects |-> 0, deadlines |-> 0,
         refusals |-> 0, busies |-> 0, unread |-> 0]

\* An edit, or an undo, of unknown fate while another client edits and an event
\* is lost.
Uncertain     == [Calm EXCEPT !.remotes = 1, !.deadlines = 1, !.losses = 1]
UncertainUndo == [Uncertain EXCEPT !.kinds = <<"edit", "undo">>]

\* The log no longer reaches back to the request.
Trimmed     == [Calm EXCEPT !.kinds = <<"edit">>, !.retain = 1, !.remotes = 2, !.deadlines = 1]
TrimmedUndo == [Calm EXCEPT !.kinds = <<"undo", "edit">>, !.retain = 1, !.remotes = 1,
                            !.deadlines = 1, !.refusals = 1]

\* Lost frames: the event, its resync, and what shows that they are missing.
Silent == [Calm EXCEPT !.kinds = <<"edit">>, !.remotes = 1, !.bigs = 1, !.losses = 1,
                       !.silents = 1, !.others = 1]

\* A resend races the original past an evicted reply.
Evicted == [Calm EXCEPT !.kinds = <<"edit">>, !.dedup = 1, !.remotes = 2, !.deadlines = 2]

\* As before, past replies that are older but were asked for again, and past replies
\* to requests that commit nothing.
Refreshes == [Calm EXCEPT !.kinds = <<"edit">>, !.dedup = 2, !.remotes = 2, !.repeats = 1,
                          !.deadlines = 1]
Crowded   == [Calm EXCEPT !.kinds = <<"edit">>, !.dedup = 2, !.remotes = 1, !.asides = 2,
                          !.deadlines = 1]

\* Refusals, retries and a connection that comes back.
Turned == [Calm EXCEPT !.remotes = 1, !.busies = 2, !.refusals = 1, !.reconnects = 1]

\* Both edits pass their deadlines, one is too big for an event.
Late == [Calm EXCEPT !.deadlines = 2, !.losses = 1, !.bigs = 1]

\* The daemon refuses a read: of a reconciliation, a recovery, or a snapshot.
Unread     == [Calm EXCEPT !.remotes = 1, !.deadlines = 1, !.losses = 1, !.unread = 1,
                           !.kinds = <<"edit">>]
UnreadUndo == [Unread EXCEPT !.kinds = <<"undo">>, !.losses = 0]
UnreadBig  == [Calm EXCEPT !.kinds = <<"edit">>, !.remotes = 1, !.bigs = 1, !.unread = 1]

Recoveries == {Uncertain, UncertainUndo, Trimmed, TrimmedUndo, Silent, Evicted, Refreshes,
               Crowded, Turned, Late, Unread, UnreadUndo, UnreadBig}

\* The reconciliation of the first edit is still open when the second is doomed.
Stale == {[Calm EXCEPT !.remotes = 1, !.deadlines = 2]}

\* Two edits in turn of which the trimmed log cannot tell the fate.
Copies == {[Calm EXCEPT !.retain = 1, !.remotes = 4, !.deadlines = 2]}
=============================================================================
