------------------------------ MODULE EditMirror ------------------------------
(***************************************************************************)
(* One editor's mirror of a buffer of the edit daemon over a connection    *)
(* that delays, drops and reorders: the pipeline with one request in       *)
(* flight, deadlines, reconciliation by history, identical resends, lost   *)
(* events, recovery by history and by snapshot                             *)
(* (src/src/crates/cosmix-edit-client/src/mirror.rs, driven by             *)
(* src/src/desktop/apps/ced/src/controller.rs), against the daemon's       *)
(* commit log, its cache of replies (cosmix-editd/src/actor.rs) and its    *)
(* publisher (cosmix-editd/src/events.rs).                                 *)
(*                                                                         *)
(* Texts are left out.  An operation is a number, a text says which        *)
(* commits and which optimistic operations it contains, and an entry of    *)
(* the log carries the set of operations it overlaps: what the daemon      *)
(* refuses when it rebases and what the mirror reverts when it folds.      *)
(* That both sides find the same overlaps and reach the same text is       *)
(* EditFold.                                                               *)
(***************************************************************************)
EXTENDS Naturals, Sequences, FiniteSets, SequencesExt

CONSTANTS
  Op,         \* 1 .. n: the operations the user may ask for, in this order
  RetryMax,   \* busy refusals before a request is given up
  Plans       \* what may happen: records like the one Budgets describes

ASSUME MirrorAssumption == RetryMax \in Nat /\ Op \subseteq Nat \ {0}

VARIABLES
  plan,       \* what may still happen
  log,        \* log[r]: the entry that made rev r
  dedup,      \* replies kept by the daemon, least recently used first
  asides,     \* how many requests that commit nothing it has remembered
  pubq,       \* events queued in the publisher
  owed,       \* the publisher owes a resync
  chan,       \* frames on their way to the mirror
  missed,     \* the last frame sent did not reach the mirror
  m           \* the mirror, with its requests

vars == <<plan, log, dedup, asides, pubq, owed, chan, missed, m>>
server == <<log, dedup, asides, pubq, owed, missed, chan>>

Kinds == {"edit", "undo"}
Budgets == [kinds : Seq(Kinds), retain : Nat, dedup : Nat,
            remotes : Nat, repeats : Nat, asides : Nat, bigs : Nat, losses : Nat,
            silents : Nat, others : Nat, reconnects : Nat, deadlines : Nat,
            refusals : Nat, busies : Nat, unread : Nat]

\* limits.rs: the daemon keeps some replies.
ASSUME PlansAssumption ==
  \A b \in Plans : b \in Budgets /\ b.dedup > 0 /\ DOMAIN b.kinds \subseteq Op

Has(what) == plan[what] > 0
Spend(what) == plan' = [plan EXCEPT ![what] = @ - 1]

IsEdit(p) == p # 0 /\ plan.kinds[p] = "edit"
NoOp == 0

Oldest == IF Len(log) > plan.retain THEN Len(log) - plan.retain ELSE 0

\* The commits and optimistic operations in a text.
Text(r) == [ext |-> {k \in 1..r : log[k].op = NoOp},
            own |-> [p \in Op |-> Cardinality({k \in 1..r : log[k].op = p})]]
WithEntry(t, r) ==
  IF log[r].op = NoOp THEN [t EXCEPT !.ext = @ \cup {r}]
                      ELSE [t EXCEPT !.own[log[r].op] = @ + 1]
Without(t, ops) == [t EXCEPT !.own = [p \in Op |-> IF p \in ops THEN @[p] - 1 ELSE @[p]]]
With(t, ops) == [t EXCEPT !.own = [p \in Op |-> IF p \in ops THEN @[p] + 1 ELSE @[p]]]

-----------------------------------------------------------------------------
(* The mirror's own steps: each operator below is a function from the state *)
(* of the mirror to the next one, as the methods call each other.           *)

NoFlight == [op |-> NoOp, st |-> "none", at |-> 0, present |-> FALSE]
NoReq    == [op |-> NoOp, st |-> "none", at |-> 0]
NoRecon  == [op |-> NoOp, since |-> 0]
Unanswered == [rev |-> 0, oldest |-> 0]

Mirror0 ==
  [phase |-> "live", rev |-> 0, view |-> Text(0), asked |-> 0,
   fl |-> NoFlight, queue |-> <<>>, retries |-> 0, waiting |-> FALSE,
   req |-> NoReq, late |-> [p \in Op |-> 0], base |-> [p \in Op |-> 0],
   recon |-> NoRecon, reads |-> {}, due |-> FALSE, paging |-> FALSE,
   buffered |-> <<>>, resuspect |-> FALSE, echo |-> FALSE,
   copy |-> FALSE, handed |-> {}]

QueuedEdits(s) == {p \in ToSet(s.queue) : IsEdit(p)}
PresentOps(s) == (IF s.fl.present THEN {s.fl.op} ELSE {}) \cup QueuedEdits(s)

\* An unserved request whose answer nobody waits for any more.
Unlisten(s) ==
  [s EXCEPT !.req = NoReq,
            !.late = [p \in Op |-> IF s.req.st = "sent" /\ p = s.req.op THEN @[p] + 1 ELSE @[p]]]

Request(s, p) == [s EXCEPT !.req = [op |-> p, st |-> "sent", at |-> 0]]

\* ack_inflight, clear_slot.
FreeSlot(s) ==
  [Unlisten(s) EXCEPT !.fl = NoFlight, !.retries = 0, !.waiting = FALSE, !.echo = FALSE]

Read(s, kind, since) ==
  [s EXCEPT !.reads = @ \cup {[kind |-> kind, op |-> s.fl.op, since |-> since,
                               st |-> "asked", ans |-> Unanswered]}]

\* What is left of a queue without ops.
Keep(q, ops) ==
  LET KeepOne(kept, p) == IF p \in ops THEN kept ELSE Append(kept, p)
  IN FoldLeft(KeepOne, <<>>, q)

\* revert_suffix.  The operations reverted are handed back as a conflict.
Revert(s, ops) ==
  LET r == [s EXCEPT !.queue = Keep(@, ops),
                     !.view = Without(@, ops),
                     !.handed = @ \cup ops]
      hit == s.fl.present /\ s.fl.op \in ops
  IN IF ~hit THEN r
     ELSE IF s.waiting THEN FreeSlot(r)
     ELSE [r EXCEPT !.fl.present = FALSE,
                    !.fl.st = IF @ = "replied" THEN @ ELSE "doomed"]

StartRecon(s) ==
  LET since == s.base[s.fl.op]
  IN Read([s EXCEPT !.recon = [op |-> s.fl.op, since |-> since]], "recon", since)

\* Mutant: the snapshot replaces the text under edits that stay queued.
TrySnapshotKeepsQueue(s) ==
  LET open == IsEdit(s.fl.op) /\ s.fl.st # "replied"
  IN IF ~s.due \/ s.paging THEN s
     ELSE IF open
          THEN IF s.fl.st = "uncertain" /\ s.recon = NoRecon THEN StartRecon(s) ELSE s
     ELSE Read([s EXCEPT !.due = FALSE, !.paging = TRUE], "page", 0)

\* try_snapshot: not before the fate of the edit in flight is known.
TrySnapshot(s) ==
  LET open == IsEdit(s.fl.op) /\ s.fl.st # "replied"
  IN IF ~s.due \/ s.paging THEN s
     ELSE IF open
          THEN IF s.fl.st = "uncertain" /\ s.recon = NoRecon THEN StartRecon(s) ELSE s
     ELSE Read([Revert(s, QueuedEdits(s)) EXCEPT !.due = FALSE, !.paging = TRUE], "page", 0)

\* snapshot_fallback.  Only the first view of several is kept as a copy.
SnapshotFallback(s, detach) ==
  LET kept == detach /\ ~s.copy
  IN TrySnapshot(
       [s EXCEPT !.copy = @ \/ detach,
                 !.handed = IF kept THEN @ \cup {p \in Op : s.view.own[p] > 0} ELSE @,
                 !.buffered = IF s.phase = "live" THEN <<>> ELSE @,
                 !.phase = "snapshot",
                 !.reads = {x \in @ : x.kind # "recover"},
                 !.due = TRUE])

Suspect(s) ==
  IF s.phase # "live" THEN [s EXCEPT !.resuspect = TRUE]
  ELSE Read([s EXCEPT !.phase = "history", !.buffered = <<>>], "recover", s.rev)

\* check_barrier: an undo is done when its reply is in and its effect is too.
Barrier(s) ==
  IF s.fl.op # NoOp /\ ~IsEdit(s.fl.op) /\ s.fl.st = "replied" /\ s.rev >= s.fl.at
  THEN FreeSlot(s) ELSE s

\* fold_remote: what the entry overlaps is reverted, and all that was typed after.
Hit(s, r) == {p \in PresentOps(s) : \E q \in PresentOps(s) \cap log[r].hits : q <= p}

FoldRemote(s, r) ==
  LET t == IF Hit(s, r) = {} THEN s ELSE Revert(s, Hit(s, r))
      u == [t EXCEPT !.view = WithEntry(@, r), !.rev = r]
      desync == s.fl.present /\ s.fl.st = "replied" /\ s.fl.op \in Hit(s, r)
  IN IF desync THEN SnapshotFallback(u, TRUE) ELSE u

Replied(s, r) == [s EXCEPT !.fl.st = "replied", !.fl.at = r]

\* fold_edit: our own echo acknowledges, everything else is folded.
FoldEdit(s, r) ==
  LET own == IsEdit(s.fl.op) /\ s.fl.op = log[r].op
  IN IF own /\ s.fl.st = "doomed"
     THEN SnapshotFallback([Replied(s, r) EXCEPT !.fl.present = FALSE], TRUE)
     ELSE IF own /\ s.fl.present THEN FreeSlot([s EXCEPT !.rev = r])
     ELSE IF own THEN FreeSlot(FoldRemote(s, r))
     ELSE Barrier(FoldRemote(s, r))

\* on_edit_event
OnEdit(s, r) ==
  IF s.phase # "live" THEN [s EXCEPT !.buffered = Append(@, r)]
  ELSE IF r <= s.rev THEN s
  ELSE IF r # s.rev + 1 THEN [Suspect(s) EXCEPT !.buffered = <<r>>]
  ELSE FoldEdit(s, r)

\* on_resync for an oversized event: our own needs no recovery.
OnOversized(s, r) ==
  IF s.phase = "live" /\ r <= s.rev THEN s
  ELSE IF /\ s.phase = "live" /\ s.rev + 1 = r
          /\ IsEdit(s.fl.op) /\ s.fl.present /\ s.fl.st = "replied" /\ s.fl.at = r
  THEN FreeSlot([s EXCEPT !.rev = r])
  ELSE Suspect(s)

\* Mutant: a loss announced during a recovery is forgotten when it ends.
GoLiveForgets(s) ==
  FoldLeft(OnEdit, Barrier([s EXCEPT !.phase = "live", !.buffered = <<>>, !.resuspect = FALSE]),
           s.buffered)

GoLive(s) ==
  LET t == FoldLeft(OnEdit, Barrier([s EXCEPT !.phase = "live", !.buffered = <<>>]),
                    s.buffered)
  IN IF t.phase = "live" /\ t.resuspect THEN Suspect([t EXCEPT !.resuspect = FALSE]) ELSE t

\* fold_entries: ok is FALSE when an entry is elided or does not chain.
FoldEntry(a, r) ==
  IF ~a.ok \/ a.s.due \/ a.s.paging \/ r <= a.s.rev THEN a
  ELSE IF log[r].elided \/ r # a.s.rev + 1 THEN [a EXCEPT !.ok = FALSE]
  ELSE [a EXCEPT !.s = FoldEdit(a.s, r)]

FoldEntries(s, from, to) ==
  FoldLeft(FoldEntry, [s |-> s, ok |-> TRUE], [k \in 1..(to - from) |-> from + k])

\* The entries a history reply holds are from + 1 .. to.
From(rd) == IF rd.since > rd.ans.oldest THEN rd.since ELSE rd.ans.oldest

\* history_page for a recovery
OnRecover(s, rd) ==
  LET a == FoldEntries(s, From(rd), rd.ans.rev)
  IN IF s.phase # "history" THEN s
     ELSE IF rd.ans.oldest > s.rev /\ rd.ans.rev > s.rev THEN SnapshotFallback(s, FALSE)
     ELSE IF a.s.phase # "history" THEN a.s
     ELSE IF ~a.ok THEN SnapshotFallback(a.s, FALSE)
     ELSE GoLive(a.s)

\* finish_recon once the history read for it is in: found is the rev that has
\* our operation, or 0.
ReconFound(s, rd, found) ==
  LET t == Replied(s, found)
      a == FoldEntries(t, From(rd), rd.ans.rev)
      folded == IF s.phase # "live" THEN t
                ELSE IF a.ok THEN a.s ELSE SnapshotFallback(a.s, FALSE)
  IN IF IsEdit(s.fl.op) /\ s.fl.st = "doomed"
     THEN SnapshotFallback([t EXCEPT !.fl.present = FALSE], TRUE)
     ELSE IF found > s.rev THEN (IF IsEdit(s.fl.op) THEN folded ELSE Barrier(folded))
     ELSE IF IsEdit(s.fl.op) THEN FreeSlot(t) ELSE Barrier(t)

ReconAbsent(s) ==
  IF ~IsEdit(s.fl.op) THEN FreeSlot([s EXCEPT !.handed = @ \cup {s.fl.op}])
  ELSE IF s.fl.st = "doomed" THEN FreeSlot(s)
  ELSE Request([s EXCEPT !.fl.st = "sent"], s.fl.op)

\* Mutant: no copy of the view is kept.
ReconTrimmedPlain(s) ==
  IF ~IsEdit(s.fl.op) THEN Suspect(FreeSlot([s EXCEPT !.handed = @ \cup {s.fl.op}]))
  ELSE IF s.fl.st = "doomed" THEN [s EXCEPT !.fl = NoFlight]
  ELSE SnapshotFallback([s EXCEPT !.fl = NoFlight], FALSE)

ReconTrimmed(s) ==
  IF ~IsEdit(s.fl.op) THEN Suspect(FreeSlot([s EXCEPT !.handed = @ \cup {s.fl.op}]))
  ELSE IF s.fl.st = "doomed" THEN [s EXCEPT !.fl = NoFlight]
  ELSE SnapshotFallback([s EXCEPT !.fl = NoFlight], TRUE)

OnRecon(s, rd) ==
  LET rc == s.recon
      t  == [s EXCEPT !.recon = NoRecon]
      hits == {k \in From(rd) + 1 .. rd.ans.rev : log[k].op = rc.op}
  IN IF rc = NoRecon THEN s
     ELSE IF s.fl.op # rc.op THEN t
     ELSE IF hits # {} THEN ReconFound(t, rd, CHOOSE k \in hits : \A j \in hits : j <= k)
     ELSE IF rd.ans.oldest > rc.since THEN ReconTrimmed(t)
     ELSE ReconAbsent(t)

\* on_page and finish_snapshot: the text of rev r replaces the view.
OnPage(s, r) ==
  LET t == [s EXCEPT !.view = Text(r), !.rev = r, !.paging = FALSE]
      contained == IsEdit(s.fl.op) /\ s.fl.st = "replied" /\ s.fl.at <= r
  IN IF ~s.paging THEN s
     ELSE IF contained THEN GoLive(FreeSlot(t))
     ELSE GoLive([t EXCEPT !.fl.present = FALSE])

\* read_refused for a reconciliation: nobody can tell whether the operation was
\* committed, as when the log is trimmed.  It is never sent again blindly.
OnReconRefused(s) ==
  LET t == [s EXCEPT !.recon = NoRecon]
  IN IF s.recon = NoRecon THEN s
     ELSE IF s.fl.op # s.recon.op THEN t
     ELSE ReconTrimmed(t)

\* reply_ok for an edit or an undo.  Every rc 0 reply of the daemon to one of them
\* carries the rev it made, so that the branch for a reply without one is not here.
ReplyOk(s, r) ==
  LET t == Replied([s EXCEPT !.retries = 0, !.waiting = FALSE], r)
  IN IF ~IsEdit(s.fl.op) THEN Barrier(t)
     ELSE IF s.fl.st = "doomed" THEN SnapshotFallback([t EXCEPT !.fl.present = FALSE], TRUE)
     ELSE IF r <= s.rev THEN FreeSlot(t)
     ELSE t

\* reply_refused: an edit takes everything typed after it with it.
ReplyRefused(s) ==
  IF ~IsEdit(s.fl.op) THEN FreeSlot([s EXCEPT !.handed = @ \cup {s.fl.op}])
  ELSE IF ~s.fl.present THEN FreeSlot(s)
  ELSE FreeSlot(Revert(s, PresentOps(s)))

\* arm_retry
ReplyBusy(s) ==
  IF (IsEdit(s.fl.op) /\ ~s.fl.present) \/ s.retries + 1 > RetryMax THEN ReplyRefused(s)
  ELSE [s EXCEPT !.retries = @ + 1, !.waiting = TRUE]

\* watch_echo: a reply is in and its effect is not.
ReplyWaits(s) ==
  s.fl.st = "replied" /\ (IsEdit(s.fl.op) \/ s.rev < s.fl.at)
WatchEcho(s) == [s EXCEPT !.echo = ReplyWaits(s)]

\* next_outgoing, which the controller drains after every call.
Drain(s) ==
  IF s.phase # "live" \/ s.fl.op # NoOp \/ s.queue = <<>> THEN s
  ELSE LET p == Head(s.queue)
       IN Request([s EXCEPT !.queue = Tail(@),
                            !.fl = [op |-> p, st |-> "sent", at |-> 0,
                                    present |-> IsEdit(p)],
                            !.base[p] = s.rev], p)

-----------------------------------------------------------------------------
(* The daemon.                                                              *)

Committed == {log[k].op : k \in DOMAIN log}
Open == {p \in Op : p <= Len(plan.kinds) /\ IsEdit(p)} \ Committed

\* DedupCache::insert, which serve calls for a key that hit has just missed, so
\* that there is no older reply to drop: the least recently used makes room.  The
\* reply is that of the commit of rev r, or of the n-th request that commits nothing.
Inserted(p, r, n) ==
  Append(IF Len(dedup) >= plan.dedup THEN Tail(dedup) ELSE dedup,
         [op |-> p, rev |-> r, aside |-> n])

\* DedupCache::hit: the reply moves to the most recently used end.
Refreshed(k) == Append(RemoveAt(dedup, k), dedup[k])

\* commit_txn, then Publisher::event: an entry too big for a frame is announced
\* by a resync, and with the queue full nothing is queued and a resync is owed.
\* history has a limit of its own, over other bytes, past which it elides the
\* entry's edits.  asides is in the entry for TwiceOnlyIfEvicted.
Commit(p) ==
  \E hits \in SUBSET (Open \ {p}), big \in BOOLEAN, elided \in BOOLEAN, full \in BOOLEAN :
    /\ big \/ elided => Has("bigs")
    /\ full => Has("losses")
    /\ log' = Append(log, [op |-> p, hits |-> hits, big |-> big, elided |-> elided,
                           asides |-> asides])
    /\ dedup' = Inserted(p, Len(log'), 0)
    /\ pubq' = IF full THEN pubq ELSE Append(pubq, Len(log'))
    /\ owed' = (owed \/ full)
    /\ plan' = [plan EXCEPT !.bigs = IF big \/ elided THEN @ - 1 ELSE @,
                            !.losses = IF full THEN @ - 1 ELSE @,
                            !.remotes = IF p = NoOp THEN @ - 1 ELSE @]
    /\ UNCHANGED <<asides, chan, missed>>

\* Another client edits the buffer.
Remote == Has("remotes") /\ Commit(NoOp) /\ UNCHANGED m

\* A save, a selection, a cursor or an anchor with an op id: it commits nothing and
\* its reply is remembered like that of an edit.
Aside ==
  /\ Has("asides") /\ Spend("asides")
  /\ asides' = asides + 1
  /\ dedup' = Inserted(NoOp, 0, asides')
  /\ UNCHANGED <<log, pubq, owed, chan, missed, m>>

\* Another client sends a request again, and is answered from the cache.
RemoteAgain ==
  /\ Has("repeats") /\ Spend("repeats")
  /\ \E k \in DOMAIN dedup : dedup[k].op = NoOp /\ dedup' = Refreshed(k)
  /\ UNCHANGED <<log, asides, pubq, owed, chan, missed, m>>

\* Mutant: the daemon does not remember what it has replied.
IsCachedNever(p) == p = NoOp

IsCached(p) == \E k \in DOMAIN dedup : dedup[k].op = p

\* resolve_txn's refusals: the log no longer reaches back to base_rev, or an
\* entry since overlaps.  An undo carries no base_rev.
Refused(p) ==
  /\ IsEdit(p)
  /\ m.base[p] < Oldest \/ \E k \in m.base[p] + 1 .. Len(log) : p \in log[k].hits

\* actor.rs serve: the cache is asked before anything is checked.
CachedAt(p) == CHOOSE k \in DOMAIN dedup : dedup[k].op = p

Serve(p) ==
  \/ /\ IsCached(p)
     /\ dedup' = Refreshed(CachedAt(p))
     /\ UNCHANGED <<plan, log, asides, pubq, owed, chan, missed>>
  \/ ~IsCached(p) /\ ~Refused(p) /\ Commit(p)
  \/ ~IsCached(p) /\ Refused(p) /\ UNCHANGED <<plan, server>>

Answer(p) ==
  IF IsCached(p) THEN [op |-> p, st |-> "ok", at |-> dedup[CachedAt(p)].rev]
  ELSE IF Refused(p) THEN [op |-> p, st |-> "refused", at |-> 0]
  ELSE [op |-> p, st |-> "ok", at |-> Len(log) + 1]

ServeRequest(p) ==
  /\ m.req.st = "sent" /\ m.req.op = p
  /\ Serve(p)
  /\ m' = [m EXCEPT !.req = Answer(p)]

\* A request the mirror has given up waiting for.
ServeLate(p) ==
  /\ m.late[p] > 0
  /\ Serve(p)
  /\ m' = [m EXCEPT !.late[p] = @ - 1]

\* Refused for another reason (a limit, nothing to undo), or busy: not applied.
TurnAway(what, st) ==
  /\ m.req.st = "sent" /\ ~IsCached(m.req.op)
  /\ Has(what) /\ Spend(what)
  /\ m' = [m EXCEPT !.req.st = st]
  /\ UNCHANGED server

AnswerRead(rd) ==
  /\ rd.st = "asked"
  /\ m' = [m EXCEPT !.reads = (@ \ {rd}) \cup
             {[rd EXCEPT !.st = "answered", !.ans = [rev |-> Len(log), oldest |-> Oldest]]}]
  /\ UNCHANGED <<plan, server>>

-----------------------------------------------------------------------------
(* The publisher (events.rs run) and the frames it sends.  gap is what the  *)
(* controller reads off the numbers of the frames.                          *)

Frame(kind, r) == [kind |-> kind, rev |-> r, gap |-> missed]

Sends(frame) == chan' = Append(chan, frame) /\ missed' = FALSE

Publish ==
  /\ ~owed /\ pubq # <<>>
  /\ LET r == Head(pubq)
     IN Sends(Frame(IF log[r].big THEN "oversized" ELSE "edit", r))
  /\ pubq' = Tail(pubq)
  /\ UNCHANGED <<plan, log, dedup, asides, owed, m>>

\* Refused, failed, or dropped by the broker for a slow subscriber.
PublishLost ==
  /\ ~owed /\ pubq # <<>>
  /\ Has("losses") /\ Spend("losses")
  /\ pubq' = Tail(pubq)
  /\ owed' = TRUE /\ missed' = TRUE
  /\ UNCHANGED <<log, dedup, asides, chan, m>>

\* An owed resync goes out before anything queued; one that is not accepted
\* stays owed.
PublishResync ==
  /\ owed
  /\ Sends(Frame("resync", 0))
  /\ owed' = FALSE
  /\ UNCHANGED <<plan, log, dedup, asides, pubq, m>>

\* Accepted, and dropped for this subscriber: it counts as delivered.
ResyncDropped ==
  /\ owed
  /\ Has("silents") /\ Spend("silents")
  /\ owed' = FALSE /\ missed' = TRUE
  /\ UNCHANGED <<log, dedup, asides, pubq, chan, m>>

\* A frame about another buffer.
PublishOther ==
  /\ ~owed
  /\ Has("others") /\ Spend("others")
  /\ Sends(Frame("other", 0))
  /\ UNCHANGED <<log, dedup, asides, pubq, owed, m>>

-----------------------------------------------------------------------------
(* What reaches the mirror.                                                 *)

Ask ==
  /\ m.asked < Len(plan.kinds)
  /\ LET p == m.asked + 1
         s == [m EXCEPT !.asked = p, !.queue = Append(@, p)]
     IN /\ IsEdit(p) => m.phase = "live"
        /\ m' = Drain(IF IsEdit(p) THEN [s EXCEPT !.view = With(@, {p})] ELSE s)
  /\ UNCHANGED <<plan, server>>

Deliver ==
  /\ chan # <<>>
  /\ LET f == Head(chan)
         s == IF f.gap THEN Suspect(m) ELSE m
     IN m' = Drain(CASE f.kind = "edit"      -> OnEdit(s, f.rev)
                     [] f.kind = "oversized" -> OnOversized(s, f.rev)
                     [] f.kind = "resync"    -> Suspect(s)
                     [] f.kind = "other"     -> s)
  /\ chan' = Tail(chan)
  /\ UNCHANGED <<plan, log, dedup, asides, pubq, owed, missed>>

\* The connection comes back: what was on its way is gone.
Reconnect ==
  /\ Has("reconnects") /\ Spend("reconnects")
  /\ chan' = <<>> /\ missed' = FALSE
  /\ m' = Drain(Suspect(m))
  /\ UNCHANGED <<log, dedup, asides, pubq, owed>>

Reply ==
  /\ m.req.st \in {"ok", "refused", "busy"}
  /\ LET s == [m EXCEPT !.req = NoReq]
         t == CASE m.req.st = "ok"      -> ReplyOk(s, m.req.at)
                [] m.req.st = "refused" -> ReplyRefused(s)
                [] m.req.st = "busy"    -> ReplyBusy(s)
     IN m' = Drain(WatchEcho(TrySnapshot(t)))
  /\ UNCHANGED <<plan, server>>

\* on_retry
Retry ==
  /\ m.waiting
  /\ m' = Request([m EXCEPT !.waiting = FALSE], m.fl.op)
  /\ UNCHANGED <<plan, server>>

\* on_deadline: the controller forgets the request, a later reply is ignored.
OnDeadline(s) ==
  CASE s.fl.st = "sent" -> StartRecon([s EXCEPT !.fl.st = "uncertain"])
    [] s.fl.st = "doomed" /\ s.recon = NoRecon -> StartRecon(s)
    [] OTHER -> s

Deadline ==
  /\ m.req # NoReq
  /\ Has("deadlines") /\ Spend("deadlines")
  /\ m' = OnDeadline(Unlisten(m))
  /\ UNCHANGED server

ReadReply(rd) ==
  /\ rd.st = "answered"
  /\ LET s == [m EXCEPT !.reads = @ \ {rd}]
         t == CASE rd.kind = "recover" -> OnRecover(s, rd)
                [] rd.kind = "recon"   -> OnRecon(s, rd)
                [] rd.kind = "page"    -> OnPage(s, rd.ans.rev)
     IN m' = Drain(WatchEcho(TrySnapshot(t)))
  /\ UNCHANGED <<plan, server>>

\* read_refused: a recovery by history goes on by snapshot, and an expired snapshot
\* is read again.  A recovery is read only in phase history, and a page only while
\* paging.  A read that passes its deadline is asked again as it was.
ReadRefused(rd) ==
  /\ rd.st = "asked"
  /\ Has("unread") /\ Spend("unread")
  /\ LET s == [m EXCEPT !.reads = @ \ {rd}]
         t == CASE rd.kind = "recover" -> IF s.phase = "history" THEN SnapshotFallback(s, FALSE) ELSE s
                [] rd.kind = "recon"   -> OnReconRefused(s)
                [] rd.kind = "page"    -> IF s.paging THEN Read(s, "page", 0) ELSE s
     IN m' = Drain(TrySnapshot(t))
  /\ UNCHANGED server

EchoTimeout ==
  /\ m.echo /\ ReplyWaits(m)
  /\ m' = Suspect([m EXCEPT !.echo = FALSE])
  /\ UNCHANGED <<plan, server>>

\* The user drops the detached copy.
TakeTheirs ==
  /\ m.copy
  /\ m' = [m EXCEPT !.copy = FALSE]
  /\ UNCHANGED <<plan, server>>

-----------------------------------------------------------------------------

Init ==
  /\ plan \in Plans
  /\ log = <<>> /\ dedup = <<>> /\ asides = 0
  /\ pubq = <<>> /\ owed = FALSE
  /\ chan = <<>> /\ missed = FALSE
  /\ m = Mirror0

Environment ==
  \/ Ask \/ TakeTheirs
  \/ Remote \/ RemoteAgain \/ Aside
  \/ TurnAway("refusals", "refused") \/ TurnAway("busies", "busy")
  \/ PublishLost \/ ResyncDropped \/ PublishOther \/ Reconnect \/ Deadline
  \/ \E rd \in m.reads : ReadRefused(rd)

Daemon ==
  \/ \E p \in Op : ServeRequest(p) \/ ServeLate(p)
  \/ \E rd \in m.reads : AnswerRead(rd)
  \/ Publish \/ PublishResync

Editor == Deliver \/ Reply \/ Retry \/ EchoTimeout \/ \E rd \in m.reads : ReadReply(rd)

Next == Environment \/ Daemon \/ Editor

Spec == Init /\ [][Next]_vars

\* The daemon serves what reaches it and its publisher does not stop; frames and
\* replies arrive, and the timers fire.  The last three are weak fairness too, with
\* the guard of the step, which always changes the state, in place of ENABLED.
FairSpec ==
  /\ Spec
  /\ WF_vars(\E p \in Op : ServeRequest(p)) /\ WF_vars(\E rd \in m.reads : AnswerRead(rd))
  /\ WF_vars(Publish) /\ WF_vars(PublishResync)
  /\ WF_vars(Retry) /\ WF_vars(EchoTimeout)
  /\ []<>(chan = <<>>) \/ []<><<Deliver>>_vars
  /\ []<>(m.req.st \in {"none", "sent"}) \/ []<><<Reply>>_vars
  /\ []<>(\A rd \in m.reads : rd.st # "answered")
       \/ []<><<\E rd \in m.reads : ReadReply(rd)>>_vars

-----------------------------------------------------------------------------
(* Properties.                                                              *)

\* Type invariant; a request is listened to only for the operation in the slot,
\* and a snapshot is paged or due only in a snapshot recovery.
TypeOK ==
  /\ plan \in Budgets
  /\ \A r \in DOMAIN log :
       /\ log[r].op \in Op \cup {NoOp} /\ log[r].hits \subseteq Op
       /\ log[r].big \in BOOLEAN /\ log[r].elided \in BOOLEAN
  /\ Len(dedup) <= plan.dedup
  /\ owed \in BOOLEAN /\ missed \in BOOLEAN
  /\ m.phase \in {"live", "history", "snapshot"}
  /\ m.rev \in 0 .. Len(log)
  /\ m.fl.st \in {"none", "sent", "replied", "uncertain", "doomed"}
  /\ (m.fl.st = "none") <=> (m.fl.op = NoOp)
  /\ m.req # NoReq => m.req.op = m.fl.op
  /\ (m.due \/ m.paging) <=> m.phase = "snapshot"
  /\ m.late \in [Op -> Nat]

\* mirror.rs, "the VIEW = confirmed(rev) + in-flight + queue": outside a snapshot
\* recovery the view is the daemon's text at rev with exactly the operations the
\* mirror still has to get confirmed, each once, whatever was lost, folded from
\* history, reverted or committed late in between.
ViewExact ==
  m.phase # "snapshot" => m.view = With(Text(m.rev), PresentOps(m))

\* Requests as the cache of replies tells them apart: the one that rev k answered,
\* and the n-th that commits nothing.  Those remembered before rev j was made.
Key(k) == IF log[k].op = NoOp THEN <<NoOp, k, 0>> ELSE <<log[k].op, 0, 0>>
AsideKey(n) == <<NoOp, 0, n>>
KeysBefore(j) == {Key(k) : k \in 1 .. j - 1} \cup {AsideKey(n) : n \in 1 .. log[j].asides}

\* actor.rs, "a hit returns it with duplicate: true and applies nothing": an
\* operation that is served again is committed a second time only after replies to
\* other requests, as many as the cache holds, have pushed its own out.  They need
\* not have been committed in between: a reply given again is recent again.
TwiceOnlyIfEvicted ==
  \A i, j \in DOMAIN log :
    i < j /\ log[i].op = log[j].op /\ log[i].op # NoOp
      => Cardinality(KeysBefore(j) \ {Key(i)}) >= plan.dedup

\* The fate of an operation as the user sees it.
Fate(p) ==
  IF p > m.asked THEN "new"
  ELSE IF p \in ToSet(m.queue) \/ (p = m.fl.op /\ p \notin m.handed) THEN "pending"
  ELSE IF \E k \in 1 .. m.rev : log[k].op = p THEN "shown"
  ELSE IF p \in m.handed THEN "handed"
  ELSE "lost"

\* mirror.rs, module documentation, and finish_recon's "Unknown: keep the view as a
\* detached copy and resync": an edit of which the trimmed log cannot tell whether
\* it was committed is in a copy of the view.
NothingLost == \A p \in Op : Fate(p) # "lost"

EF == INSTANCE EditFate WITH fate <- [p \in Op |-> Fate(p)],
                             committed <- Committed \ {NoOp}

\* Refinement of EditFate: every edit and every undo ends shown in the daemon's
\* text or handed back, and none is dropped on the way, by a deadline, a resend,
\* a lost event, a snapshot, or a commit nobody was told about.
FateKept == EF!Spec

\* The mirror comes to rest on the daemon's text: nothing in flight or queued, no
\* recovery open, and up to date unless the last frame sent was lost with its
\* resync, which the next frame will show.
Settled ==
  /\ m.phase = "live" /\ m.fl = NoFlight /\ m.queue = <<>>
  /\ missed \/ m.rev = Len(log)

ComesToRest == <>[]Settled
=============================================================================
