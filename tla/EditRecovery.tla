----------------------------- MODULE EditRecovery -----------------------------
(***************************************************************************)
(* The recovery files of cosmix-editd (recovery.rs and the rec_ hooks of   *)
(* actor.rs): one buffer's actor, the writer thread that owns the files,   *)
(* and what a crash leaves for restore to bring back.                      *)
(*                                                                         *)
(* The actor is serial: a message is handled, and rec_settle and rec_wake  *)
(* run after it, in one step.  A save is two steps, because the file is    *)
(* replaced before the actor goes on.  The writer takes its messages in    *)
(* order; every file operation of a Switch and of a Discard is a step, so  *)
(* a crash may fall between any two.                                       *)
(*                                                                         *)
(* A text is the sequence of the entries applied to it, each entry a       *)
(* number used once.  vol is the directory as the process sees it and dur  *)
(* as the last fsync of the directory left it; a power failure keeps any   *)
(* mixture of the two, and of a log any prefix that holds the synced       *)
(* records.  A snap and a meta are synced before their rename, so they are *)
(* whole when their name is there.  Temporary files are swept unread.      *)
(***************************************************************************)
EXTENDS Integers, Sequences, FiniteSets, SequencesExt, FiniteSetsExt, TLC

CONSTANTS
  Plans,      \* scenarios: how often a client edits, saves, reloads or closes, and
              \* flushes; how often the writer fails in a Switch, an Append or a
              \* sync (faults), a Discard or the fsync of a save fails (slips), a
              \* snapshot is refused its lease, and the daemon crashes
  QueueCap,   \* Appends MAX_RECOVERY_QUEUE_BYTES holds
  CompactAt   \* records past which a log is compacted

ASSUME EditRecoveryAssumption ==
  /\ QueueCap \in Nat /\ CompactAt \in Nat
  /\ Plans \subseteq [edits : Nat, saves : Nat, reloads : Nat, faults : Nat,
                      slips : Nat, crashes : Nat, flushes : Nat, leases : Nat]

VARIABLES
  plan,     \* bound: what is left of the scenario
  act,      \* the actor's buffer
  rec,      \* ActorRec and RecState
  sig,      \* RecSignal and RecLink: what the writer tells the actor
  queue,    \* the FIFO into the writer
  wr,       \* the writer
  failed,   \* the rid is in Shared.failed
  vol, dur, \* the recovery directory, now and after a power failure
  files,    \* contents of the snaps and logs ever written
  doc,      \* the document's file: now, and after a power failure
  flush,    \* one edit.recovery.flush
  made,     \* bound: entries applied so far, which also names them
  seen,     \* history: texts the buffer has had
  kept,     \* history: the longest text the writer has made durable
  safe      \* history: the longest text a flush reported synced

vars == <<plan, act, rec, sig, queue, wr, failed, vol, dur, files, doc, flush,
          made, seen, kept, safe>>

NoMeta == [gen |-> 0, base |-> 0]
NoRec  == [gen |-> 0, out |-> 0, needs |-> FALSE, active |-> FALSE, held |-> FALSE,
           overflow |-> FALSE, repair |-> 0, written |-> -1]
NoSig  == [asked |-> FALSE, done |-> 0, failed |-> 0, bell |-> FALSE, token |-> FALSE]
NoDir  == [meta |-> NoMeta, snaps |-> {}, logs |-> {}]
NewDoc == [text |-> <<>>, ver |-> 0]
NoFlush == [pc |-> "none", left |-> {}, text |-> <<>>]
Idle(g) == [pc |-> "idle", gen |-> g, open |-> FALSE, due |-> FALSE,
            compact |-> FALSE, stray |-> {}, stale |-> FALSE]

Longer(s, t) == IF IsPrefix(s, t) THEN t ELSE s

\* A buffer just loaded from its file: clean, with no recovery files.
Init ==
  /\ plan \in Plans
  /\ act = [pc |-> "up", text |-> <<>>, rev |-> 0, saved |-> 0, restored |-> FALSE,
            base |-> 0, durable |-> TRUE]
  /\ rec = NoRec /\ sig = NoSig /\ queue = <<>> /\ wr = Idle(0) /\ failed = FALSE
  /\ vol = NoDir /\ dur = NoDir
  /\ files = [snap |-> <<>>, log |-> <<>>, synced |-> <<>>]
  /\ doc = [now |-> NewDoc, dur |-> NewDoc, saves |-> 0]
  /\ flush = NoFlush /\ made = 0 /\ seen = {<<>>} /\ kept = <<>> /\ safe = <<>>

Spend(E) ==
  /\ \A e \in E : plan[e] > 0
  /\ plan' = [e \in DOMAIN plan |-> IF e \in E THEN plan[e] - 1 ELSE plan[e]]

Dirty(a) == a.saved # a.rev /\ ~(a.saved = -1 /\ a.rev = 0 /\ ~a.restored)

\* healthy: no failed rid, no overflow awaiting its repair.
Healthy == ~failed /\ ~rec.overflow

-----------------------------------------------------------------------------
(* The actor's hooks: from [r: its ActorRec, q: the FIFO] to the same.     *)
(* a is the buffer after the step, lease whether a snapshot fits the byte  *)
(* budget.                                                                 *)

Used(q) == Cardinality({i \in 1..Len(q) : q[i].t = "append"})

SetOverflow(r) == [r EXCEPT !.overflow = TRUE, !.repair = 0]

\* rec_switch: a snapshot of the buffer opens the next generation, in one step.
RecSwitch(b, a, lease) ==
  LET g == b.r.gen + 1 IN
  IF ~lease
    THEN [b EXCEPT !.r = [SetOverflow(@) EXCEPT !.needs = TRUE, !.held = TRUE]]
    ELSE [r |-> [b.r EXCEPT !.gen = g, !.out = g, !.needs = FALSE, !.held = FALSE,
                            !.repair = IF b.r.overflow THEN g ELSE @,
                            !.written = a.base],
          q |-> Append(b.q, [t |-> "switch", gen |-> g, rev |-> a.rev,
                             text |-> a.text, base |-> a.base])]

RecRequestSwitch(b, a, lease) ==
  LET n == [b EXCEPT !.r.needs = TRUE]
  IN  IF n.r.out = 0 THEN RecSwitch(n, a, lease) ELSE n

\* Mutant: nothing is appended while a Switch is outstanding.
RecRecordWaits(b, a, id, lease) ==
  IF ~b.r.active \/ b.r.out > 0 THEN b
  ELSE IF b.r.needs \/ b.r.held THEN RecSwitch(b, a, lease)
  ELSE IF Used(b.q) < QueueCap
    THEN [b EXCEPT !.q = Append(@, [t |-> "append", gen |-> b.r.gen,
                                    rev |-> a.rev, id |-> id, text |-> a.text])]
  ELSE RecRequestSwitch([b EXCEPT !.r = SetOverflow(@)], a, lease)

\* One applied text entry, id, which is already in a.  The text in an Append is
\* history: the buffer as the entry left it.
RecRecord(b, a, id, lease) ==
  IF ~b.r.active THEN b
  ELSE IF b.r.needs \/ b.r.held
    THEN IF b.r.out = 0 THEN RecSwitch(b, a, lease) ELSE b
  ELSE IF Used(b.q) < QueueCap
    THEN [b EXCEPT !.q = Append(@, [t |-> "append", gen |-> b.r.gen,
                                    rev |-> a.rev, id |-> id, text |-> a.text])]
  ELSE RecRequestSwitch([b EXCEPT !.r = SetOverflow(@)], a, lease)

RecDiscard(b) ==
  [r |-> [b.r EXCEPT !.active = FALSE, !.held = FALSE, !.needs = FALSE,
                     !.written = -1, !.overflow = FALSE],
   q |-> IF b.r.active THEN Append(b.q, [t |-> "discard"]) ELSE b.q]

\* A dirty buffer without files gets its first generation; stale meta re-switches.
RecSettle(b, a, lease) ==
  IF ~b.r.active
    THEN IF Dirty(a) THEN RecRequestSwitch([b EXCEPT !.r.active = TRUE], a, lease) ELSE b
    ELSE IF ~b.r.needs /\ b.r.written # a.base THEN RecRequestSwitch(b, a, lease) ELSE b

\* Mutant: a failed Switch stays outstanding.
RecAnsweredDone(r) ==
  IF r.out > 0 /\ sig.done >= r.out
    THEN IF r.repair > 0 /\ r.repair <= r.out
           THEN [r EXCEPT !.out = 0, !.repair = 0, !.overflow = FALSE]
           ELSE [r EXCEPT !.out = 0]
    ELSE r

\* The outstanding Switch is durable, or it failed.
RecAnswered(r) ==
  IF r.out > 0 /\ sig.done >= r.out
    THEN IF r.repair > 0 /\ r.repair <= r.out
           THEN [r EXCEPT !.out = 0, !.repair = 0, !.overflow = FALSE]
           ELSE [r EXCEPT !.out = 0]
  ELSE IF r.out > 0 /\ sig.failed >= r.out
    THEN [r EXCEPT !.out = 0, !.held = TRUE, !.needs = TRUE]
  ELSE r

RecWake(b, a, lease) ==
  LET r == RecAnswered(b.r)
      n == IF ~r.active
             THEN [r EXCEPT !.needs = FALSE, !.held = FALSE, !.overflow = FALSE]
             ELSE [r EXCEPT !.needs = @ \/ sig.asked]
      s == [b EXCEPT !.r = n]
  IN  IF n.active /\ n.needs /\ ~n.held /\ n.out = 0 THEN RecSwitch(s, a, lease) ELSE s

\* Flush tokens go in once nothing is owed ahead of them.
PlaceToken(b) ==
  IF sig.token /\ b.r.out = 0 /\ (~b.r.needs \/ b.r.held)
    THEN Append(b.q, [t |-> "flush", of |-> "actor"]) ELSE b.q

\* The end of every actor step: settle, wake, and the link's flags are taken.
ActorStep(b, a, lease, bell) ==
  LET w == RecWake(RecSettle(b, a, lease), a, lease) IN
  /\ act' = a /\ rec' = w.r /\ queue' = PlaceToken(w)
  /\ sig' = [sig EXCEPT !.asked = FALSE, !.bell = bell,
                        !.token = @ /\ PlaceToken(w) = w.q]
  /\ seen' = seen \cup {a.text}
  /\ UNCHANGED <<wr, failed, vol, dur, files>>

Rec == [r |-> rec, q |-> queue]

\* A snapshot may not fit the byte budget the buffers share.
Unleased(lease) == IF lease THEN {} ELSE {"leases"}

-----------------------------------------------------------------------------
(* The actor's messages *)

\* text_mutation, undo_redo: one text entry is applied and published.
Edit(lease) ==
  LET a == [act EXCEPT !.text = Append(@, made + 1), !.rev = @ + 1] IN
  /\ act.pc = "up" /\ Spend({"edits"} \cup Unleased(lease))
  /\ made' = made + 1
  /\ ActorStep(RecRecord(Rec, a, made + 1, lease), a, lease, sig.bell)
  /\ UNCHANGED <<doc, flush, kept, safe>>

\* The writer rang.
Wake(lease) ==
  /\ act.pc = "up" /\ sig.bell /\ Spend(Unleased(lease))
  /\ ActorStep(Rec, act, lease, FALSE)
  /\ UNCHANGED <<doc, flush, made, kept, safe>>

\* What was promised of a text the user has discarded is promised no longer.
Forget ==
  /\ kept' = <<>> /\ safe' = <<>>
  /\ flush' = [flush EXCEPT !.text = <<>>]

\* save: files::save replaces the document; durable unless fsync of its
\* directory fails.  The rest of the actor waits for it.  Forced, it may replace
\* a document the buffer is not based on, which is then given up.
SaveWrite(durable, force) ==
  LET new == [text |-> act.text, ver |-> doc.saves + 1] IN
  /\ act.pc = "up" /\ (force \/ act.base = doc.now.ver)
  /\ Spend({"saves"} \cup IF durable THEN {} ELSE {"slips"})
  /\ doc' = [now |-> new, dur |-> IF durable THEN new ELSE doc.dur,
             saves |-> doc.saves + 1]
  /\ act' = [act EXCEPT !.pc = "saving", !.durable = durable]
  /\ IF act.base = doc.now.ver THEN UNCHANGED <<flush, kept, safe>> ELSE Forget
  /\ UNCHANGED <<rec, sig, queue, wr, failed, vol, dur, files, made, seen>>

\* Mutant: the files go although the save is not durable.
SaveDoneDiscards(lease) ==
  LET a == [act EXCEPT !.pc = "up", !.base = doc.now.ver, !.saved = act.rev,
                       !.restored = FALSE]
  IN  /\ act.pc = "saving" /\ Spend(Unleased(lease))
      /\ ActorStep(RecDiscard(Rec), a, lease, sig.bell)
      /\ UNCHANGED <<doc, flush, made, kept, safe>>

\* The rest of save: the new base, mark_saved, and the files go if it is durable.
SaveDone(lease) ==
  LET a == [act EXCEPT !.pc = "up", !.base = doc.now.ver, !.saved = act.rev,
                       !.restored = @ /\ ~act.durable]
  IN  /\ act.pc = "saving" /\ Spend(Unleased(lease))
      /\ ActorStep(IF act.durable THEN RecDiscard(Rec) ELSE Rec, a, lease, sig.bell)
      /\ UNCHANGED <<doc, flush, made, kept, safe>>

\* reload (forced when dirty): the document's text is a new entry, and clean.
Reload(lease) ==
  LET rev == IF doc.now.text = act.text THEN act.rev ELSE act.rev + 1
      a   == [act EXCEPT !.text = doc.now.text, !.rev = rev, !.saved = rev,
                         !.base = doc.now.ver, !.restored = FALSE]
  IN  /\ act.pc = "up" /\ Spend({"reloads"} \cup Unleased(lease))
      /\ ActorStep(RecDiscard(Rec), a, lease, sig.bell)
      /\ Forget
      /\ UNCHANGED <<doc, made>>

\* Close: forced, the files go; otherwise only a clean buffer closes and they
\* stay.  Dropping the ActorRec hands its flush token on.
Close(force) ==
  LET b == IF force THEN RecDiscard(Rec) ELSE Rec
  IN  /\ act.pc = "up" /\ (force \/ ~Dirty(act)) /\ Spend({"reloads"})
      /\ act' = [act EXCEPT !.pc = "closed"]
      /\ rec' = [b.r EXCEPT !.overflow = FALSE]
      /\ queue' = IF sig.token THEN Append(b.q, [t |-> "flush", of |-> "actor"]) ELSE b.q
      /\ sig' = NoSig
      /\ Forget
      /\ UNCHANGED <<wr, failed, vol, dur, files, doc, made, seen>>

\* Recovery::flush: a token through the actor, one straight to the writer.  What
\* it is asked to protect is unsaved text.
FlushAsk ==
  /\ act.pc \in {"up", "saving"} /\ flush.pc = "none" /\ Spend({"flushes"})
  /\ flush' = [pc |-> "wait", left |-> {"actor", "daemon"},
               text |-> IF Dirty(act) THEN act.text ELSE <<>>]
  /\ sig' = [sig EXCEPT !.token = TRUE, !.bell = TRUE]
  /\ queue' = Append(queue, [t |-> "flush", of |-> "daemon"])
  /\ UNCHANGED <<act, rec, wr, failed, vol, dur, files, doc, made, seen, kept, safe>>

\* Mutant: the answer does not look at health.
FlushReplyBlind ==
  /\ flush.pc = "wait" /\ flush.left = {}
  /\ flush' = [flush EXCEPT !.pc = "synced"]
  /\ safe' = Longer(safe, flush.text)
  /\ UNCHANGED <<plan, act, rec, sig, queue, wr, failed, vol, dur, files, doc, made,
                 seen, kept>>

FlushReply ==
  /\ flush.pc = "wait" /\ flush.left = {}
  /\ flush' = [flush EXCEPT !.pc = IF Healthy THEN "synced" ELSE "unsynced"]
  /\ safe' = IF Healthy THEN Longer(safe, flush.text) ELSE safe
  /\ UNCHANGED <<plan, act, rec, sig, queue, wr, failed, vol, dur, files, doc, made,
                 seen, kept>>

-----------------------------------------------------------------------------
(* The writer *)

Msg(t) == queue # <<>> /\ Head(queue).t = t

\* The actor's link, if it is registered: not during restore, not after close.
Ring(field, value) ==
  sig' = IF act.pc \in {"up", "saving"}
           THEN [sig EXCEPT ![field] = value, !.bell = TRUE] ELSE sig

RequestSwitch == Ring("asked", TRUE)

\* No reload or close is waiting behind the message at hand.
Wanted == \A i \in 1..Len(queue) : queue[i].t # "discard"

\* A file of generation g with contents c, over any older one of that name.
Store(f, g, c) == [x \in DOMAIN f \cup {g} |-> IF x = g THEN c ELSE f[x]]

\* 1. the snapshot
SwitchSnap ==
  LET m == Head(queue) IN
  /\ wr.pc = "idle" /\ Msg("switch")
  /\ files' = [files EXCEPT !.snap = Store(@, m.gen, [rev |-> m.rev, text |-> m.text])]
  /\ vol' = [vol EXCEPT !.snaps = @ \cup {m.gen}]
  /\ wr' = [wr EXCEPT !.pc = "snap"]
  /\ UNCHANGED <<plan, act, rec, sig, queue, failed, dur, doc, flush, made, seen, kept, safe>>

\* 2. an empty log
SwitchLog ==
  LET g == Head(queue).gen IN
  /\ wr.pc = "snap"
  /\ files' = [files EXCEPT !.log = Store(@, g, <<>>), !.synced = Store(@, g, 0)]
  /\ vol' = [vol EXCEPT !.logs = @ \cup {g}]
  /\ wr' = [wr EXCEPT !.pc = "log"]
  /\ UNCHANGED <<plan, act, rec, sig, queue, failed, dur, doc, flush, made, seen, kept, safe>>

\* Mutant: the meta follows without an fsync of the names it relies on.
SwitchDirSkipped ==
  /\ wr.pc = "log" /\ wr' = [wr EXCEPT !.pc = "dir"]
  /\ UNCHANGED <<plan, act, rec, sig, queue, failed, vol, dur, files, doc, flush, made,
                 seen, kept, safe>>

\* 3. fsync of the directory
SwitchDir ==
  /\ wr.pc = "log" /\ dur' = vol /\ wr' = [wr EXCEPT !.pc = "dir"]
  /\ UNCHANGED <<plan, act, rec, sig, queue, failed, vol, files, doc, flush, made, seen,
                 kept, safe>>

\* Mutant: the writer keeps the generation it had.
SwitchMetaKeepsGen ==
  LET m == Head(queue) IN
  /\ wr.pc = "dir"
  /\ vol' = [vol EXCEPT !.meta = [gen |-> m.gen, base |-> m.base]]
  /\ wr' = [wr EXCEPT !.pc = "meta", !.open = TRUE, !.compact = FALSE,
                      !.stray = @ \cup ({wr.gen} \ {0, m.gen})]
  /\ UNCHANGED <<plan, act, rec, sig, queue, failed, dur, files, doc, flush, made, seen,
                 kept, safe>>

\* 4. the commit point: the meta names the new generation
SwitchMeta ==
  LET m == Head(queue) IN
  /\ wr.pc = "dir"
  /\ vol' = [vol EXCEPT !.meta = [gen |-> m.gen, base |-> m.base]]
  /\ wr' = [wr EXCEPT !.pc = "meta", !.gen = m.gen, !.open = TRUE, !.compact = FALSE,
                      !.stray = @ \cup ({wr.gen} \ {0, m.gen})]
  /\ UNCHANGED <<plan, act, rec, sig, queue, failed, dur, files, doc, flush, made, seen,
                 kept, safe>>

\* 5. durable: acknowledge
SwitchDone ==
  LET m == Head(queue) IN
  /\ wr.pc = "meta" /\ dur' = vol /\ failed' = FALSE
  /\ Ring("done", Max({sig.done, m.gen}))
  /\ wr' = [wr EXCEPT !.pc = "done"]
  /\ kept' = IF Wanted THEN Longer(kept, m.text) ELSE kept
  /\ UNCHANGED <<plan, act, rec, queue, vol, files, doc, flush, made, seen, safe>>

\* 6. retire the older generations still on disk; a failure only leaves orphans
SwitchRetire(unlinked, synced) ==
  LET old == wr.stray \ {Head(queue).gen}
      new == IF unlinked THEN [vol EXCEPT !.snaps = @ \ old, !.logs = @ \ old] ELSE vol
  IN  /\ wr.pc = "done" /\ Spend(IF unlinked /\ synced THEN {} ELSE {"faults"})
      /\ vol' = new /\ dur' = IF synced /\ old # {} THEN new ELSE dur
      /\ wr' = [wr EXCEPT !.pc = "idle", !.stray = IF unlinked THEN {} ELSE old]
      /\ queue' = Tail(queue)
      /\ UNCHANGED <<act, rec, sig, failed, files, doc, flush, made, seen, kept, safe>>

\* An I/O error before step 5 is over.
SwitchFail ==
  LET g == Head(queue).gen IN
  /\ wr.pc \in {"snap", "log", "dir", "meta"} \/ (wr.pc = "idle" /\ Msg("switch"))
  /\ Spend({"faults"})
  /\ wr' = [wr EXCEPT !.pc = "idle", !.stray = @ \cup ({g} \ {wr.gen})]
  /\ failed' = TRUE /\ Ring("failed", Max({sig.failed, g}))
  /\ queue' = Tail(queue)
  /\ UNCHANGED <<act, rec, vol, dur, files, doc, flush, made, seen, kept, safe>>

\* append: nothing is written for another generation, or after a failure.
AppendDropped ==
  /\ wr.pc = "idle" /\ Msg("append") /\ (failed \/ Head(queue).gen # wr.gen)
  /\ wr' = [wr EXCEPT !.stale = @ \/ ~failed]
  /\ queue' = Tail(queue)
  /\ UNCHANGED <<plan, act, rec, sig, failed, vol, dur, files, doc, flush, made, seen,
                 kept, safe>>

AppendRecord ==
  LET m == Head(queue)
      compact == ~wr.compact /\ Len(files.log[m.gen]) >= CompactAt
  IN  /\ wr.pc = "idle" /\ Msg("append") /\ ~failed /\ m.gen = wr.gen /\ wr.open
      /\ files' = [files EXCEPT !.log[m.gen] = Append(@, [rev |-> m.rev, id |-> m.id])]
      /\ wr' = [wr EXCEPT !.due = TRUE, !.compact = @ \/ compact]
      /\ IF compact THEN RequestSwitch ELSE UNCHANGED sig
      /\ queue' = Tail(queue)
      /\ UNCHANGED <<plan, act, rec, failed, vol, dur, doc, flush, made, seen, kept, safe>>

\* The write fails, or restore left no log open.
AppendFail ==
  /\ wr.pc = "idle" /\ Msg("append") /\ ~failed /\ Head(queue).gen = wr.gen
  /\ Spend(IF wr.open THEN {"faults"} ELSE {})
  /\ failed' = TRUE /\ RequestSwitch
  /\ queue' = Tail(queue)
  /\ UNCHANGED <<act, rec, wr, vol, dur, files, doc, flush, made, seen, kept, safe>>

\* discard: meta first (the commit point), made durable, then the rest.
DiscardMeta ==
  /\ wr.pc = "idle" /\ Msg("discard")
  /\ vol' = [vol EXCEPT !.meta = NoMeta] /\ dur' = [vol EXCEPT !.meta = NoMeta]
  /\ wr' = [wr EXCEPT !.pc = "discard", !.gen = 0, !.stray = {}]
  /\ UNCHANGED <<plan, act, rec, sig, queue, failed, files, doc, flush, made, seen, kept, safe>>

DiscardRest ==
  /\ wr.pc = "discard" /\ vol' = NoDir /\ dur' = NoDir
  /\ wr' = [wr EXCEPT !.pc = "idle"] /\ failed' = FALSE /\ queue' = Tail(queue)
  /\ UNCHANGED <<plan, act, rec, sig, files, doc, flush, made, seen, kept, safe>>

\* A failure deletes nothing further.
DiscardFail(unlinked) ==
  /\ wr.pc = "discard" \/ (wr.pc = "idle" /\ Msg("discard"))
  /\ Spend({"slips"})
  /\ vol' = IF unlinked THEN [vol EXCEPT !.meta = NoMeta] ELSE vol
  /\ wr' = [wr EXCEPT !.pc = "idle", !.gen = 0, !.stray = {}]
  /\ failed' = FALSE /\ queue' = Tail(queue)
  /\ UNCHANGED <<act, rec, sig, dur, files, doc, flush, made, seen, kept, safe>>

Logged(g) == files.snap[g].text \o [i \in 1..Len(files.log[g]) |-> files.log[g][i].id]

\* fdatasync of the log with unsynced records; a failure asks for a repair.
Unsynced == wr.gen > 0 /\ wr.open /\ files.synced[wr.gen] < Len(files.log[wr.gen])

Sync(ok) ==
  IF ok
    THEN /\ files' = IF Unsynced
                       THEN [files EXCEPT !.synced[wr.gen] = Len(files.log[wr.gen])]
                       ELSE files
         /\ kept' = IF Unsynced /\ Wanted THEN Longer(kept, Logged(wr.gen)) ELSE kept
         /\ UNCHANGED <<plan, failed, sig>>
    ELSE /\ Unsynced /\ Spend({"faults"}) /\ failed' = TRUE /\ RequestSwitch
         /\ UNCHANGED <<files, kept>>

\* The debounce armed by the first unsynced record.
SyncDue(ok) ==
  /\ wr.pc = "idle" /\ wr.due /\ Sync(ok)
  /\ wr' = [wr EXCEPT !.due = FALSE]
  /\ UNCHANGED <<act, rec, queue, vol, dur, doc, flush, made, seen, safe>>

FlushToken(ok) ==
  /\ wr.pc = "idle" /\ Msg("flush") /\ Sync(ok)
  /\ wr' = [wr EXCEPT !.due = FALSE]
  /\ flush' = [flush EXCEPT !.left = @ \ {Head(queue).of}]
  /\ queue' = Tail(queue)
  /\ UNCHANGED <<act, rec, vol, dur, doc, made, seen, safe>>

-----------------------------------------------------------------------------
(* A crash, and restore *)

\* A name that a crash may leave, and one it may take away.
Here(g, now, durable, power) == g \in now \/ (power /\ g \in durable)
Gone(g, now, durable, power) == g \notin now \/ (power /\ g \notin durable)

\* load_rid: the records of a log replay while their revs follow on.
Replay(g, n) ==
  LET ok == {k \in 0..n : \A i \in 1..k :
               files.log[g][i].rev = files.snap[g].rev + i}
  IN  files.snap[g].text \o [i \in 1..Max(ok) |-> files.log[g][i].id]

Lengths(g, power) ==
  (IF ~Here(g, vol.logs, dur.logs, power) THEN {}
   ELSE IF power THEN files.synced[g]..Len(files.log[g]) ELSE {Len(files.log[g])})
  \cup (IF Gone(g, vol.logs, dur.logs, power) THEN {0} ELSE {})

\* What restore finds for one meta: nothing, a rid it must quarantine, or a text.
Loads(m, power) ==
  IF m.gen = 0 THEN {[kind |-> "none", meta |-> m, text |-> <<>>, len |-> 0]}
  ELSE (IF ~Here(m.gen, vol.snaps, dur.snaps, power) THEN {}
        ELSE {[kind |-> "text", meta |-> m, text |-> Replay(m.gen, n), len |-> n] :
                n \in Lengths(m.gen, power)})
       \cup (IF ~Gone(m.gen, vol.snaps, dur.snaps, power) THEN {}
             ELSE {[kind |-> "malformed", meta |-> m, text |-> <<>>, len |-> 0]})

\* Every image a crash now could leave, with the document beside it.
Images(power) ==
  LET metas == IF power THEN {vol.meta, dur.meta} ELSE {vol.meta}
      docs  == IF power THEN {doc.now, doc.dur} ELSE {doc.now}
  IN  {[load |-> l, doc |-> d] : l \in UNION {Loads(m, power) : m \in metas}, d \in docs}

\* The directory restore works on: other generations and orphans are swept.
Swept(dir, g) == [dir EXCEPT !.snaps = @ \cap {g}, !.logs = @ \cap {g}]

\* Mutant: restore writes into the generation it has just read.
RestoreSwitchInPlace(l, base) ==
  [t |-> "switch", gen |-> l.meta.gen, rev |-> 0, text |-> l.text, base |-> base]

\* A restored dirty buffer starts a fresh generation at rev 0.
RestoreSwitch(l, base) ==
  [t |-> "switch", gen |-> l.meta.gen + 1, rev |-> 0, text |-> l.text, base |-> base]

\* The daemon or the machine stops and the daemon starts again: restore loads
\* the rid, compares it with the document, and hands the writer a Discard
\* (equal) or a Switch at rev 0.  Assumption: the names and the document restore
\* reads reach the disk before its own unlinks do, which no fsync orders.
Crash(power) ==
  \E i \in Images(power) :
    LET l == i.load
        g == l.meta.gen
        clean == l.text = i.doc.text
        base  == IF clean THEN i.doc.ver ELSE l.meta.base
        image == [meta |-> l.meta, snaps |-> {g} \ {0}, logs |-> {g} \ {0}]
    IN  /\ act.pc # "gone" /\ Spend({"crashes"})
        /\ vol' = IF power THEN image ELSE Swept(vol, g)
        /\ dur' = IF power THEN image ELSE vol
        /\ files' = IF power /\ l.kind = "text"
                      THEN [files EXCEPT !.log[g] = SubSeq(@, 1, l.len), !.synced[g] = l.len]
                      ELSE files
        /\ doc' = [doc EXCEPT !.now = i.doc, !.dur = i.doc]
        /\ act' = [pc |-> IF l.kind = "text" THEN "restoring" ELSE "gone",
                   text |-> l.text, rev |-> 0, saved |-> IF clean THEN 0 ELSE -1,
                   restored |-> ~clean, base |-> base, durable |-> TRUE]
        /\ queue' = IF l.kind # "text" THEN <<>>
                    ELSE IF clean THEN <<[t |-> "discard"]>>
                    ELSE <<RestoreSwitch(l, base)>>
        /\ rec' = [NoRec EXCEPT !.gen = g]
        /\ wr' = [Idle(g) EXCEPT !.stale = wr.stale]
        /\ sig' = NoSig /\ failed' = FALSE /\ flush' = NoFlush
        /\ UNCHANGED <<made, seen, kept, safe>>

\* The restored buffer's actor starts; a failed restore Switch is retried at once.
Restored(lease) ==
  LET g == IF act.restored THEN rec.gen + 1 ELSE rec.gen
      r == [NoRec EXCEPT !.gen = g, !.active = act.restored,
                         !.needs = act.restored /\ (wr.gen # g \/ failed),
                         !.written = IF act.restored THEN act.base ELSE -1]
  IN  /\ act.pc = "restoring" /\ queue = <<>> /\ wr.pc = "idle"
      /\ Spend(Unleased(lease))
      /\ ActorStep([r |-> r, q |-> queue], [act EXCEPT !.pc = "up"], lease, FALSE)
      /\ UNCHANGED <<doc, flush, made, kept, safe>>

-----------------------------------------------------------------------------
Actor ==
  \E lease \in BOOLEAN :
    Edit(lease) \/ Wake(lease) \/ SaveDone(lease) \/ Reload(lease) \/ Restored(lease)

Writer ==
  \/ SwitchSnap \/ SwitchLog \/ SwitchDir \/ SwitchMeta \/ SwitchDone
  \/ \E u, y \in BOOLEAN : SwitchRetire(u, y)
  \/ AppendDropped \/ AppendRecord \/ AppendFail
  \/ DiscardMeta \/ DiscardRest
  \/ \E ok \in BOOLEAN : SyncDue(ok) \/ FlushToken(ok)

Next ==
  \/ Actor \/ Writer \/ SwitchFail \/ FlushAsk \/ FlushReply
  \/ \E d, f \in BOOLEAN : SaveWrite(d, f)
  \/ \E f \in BOOLEAN : Close(f) \/ DiscardFail(f) \/ Crash(f)

Spec == Init /\ [][Next]_vars

\* The writer thread and the actor's task keep running; a failing disk does not
\* stop them.  Nothing obliges anyone to edit, save or ask.
FairSpec ==
  /\ Spec
  /\ WF_vars(Writer) /\ WF_vars(\E l \in BOOLEAN : Wake(l) \/ SaveDone(l) \/ Restored(l))
  /\ WF_vars(FlushReply)

-----------------------------------------------------------------------------
Text == Seq(Nat)

Message ==
  [t : {"switch"}, gen : Nat, rev : Nat, text : Text, base : Nat]
  \cup [t : {"append"}, gen : Nat, rev : Nat, id : Nat, text : Text]
  \cup [t : {"discard"}] \cup [t : {"flush"}, of : {"actor", "daemon"}]

Directory == [meta : [gen : Nat, base : Nat], snaps : SUBSET Nat, logs : SUBSET Nat]
Document  == [text : Text, ver : Nat]

\* Every variable has its type, every log its count of synced records, and an
\* outstanding Switch is the newest (recovery.rs RecState, RecSignal, ActorRec,
\* RidFiles).
TypeOK ==
  /\ plan \in [edits : Nat, saves : Nat, reloads : Nat, faults : Nat,
               slips : Nat, crashes : Nat, flushes : Nat, leases : Nat]
  /\ act \in [pc : {"up", "saving", "closed", "restoring", "gone"}, text : Text,
              rev : Nat, saved : Nat \cup {-1}, restored : BOOLEAN, base : Nat,
              durable : BOOLEAN]
  /\ rec \in [gen : Nat, out : Nat, needs : BOOLEAN, active : BOOLEAN, held : BOOLEAN,
              overflow : BOOLEAN, repair : Nat, written : Nat \cup {-1}]
  /\ rec.out \in {0, rec.gen}
  /\ sig \in [asked : BOOLEAN, done : Nat, failed : Nat, bell : BOOLEAN, token : BOOLEAN]
  /\ queue \in Seq(Message)
  /\ wr \in [pc : {"idle", "snap", "log", "dir", "meta", "done", "discard"}, gen : Nat,
             open : BOOLEAN, due : BOOLEAN, compact : BOOLEAN, stray : SUBSET Nat,
             stale : BOOLEAN]
  /\ failed \in BOOLEAN
  /\ vol \in Directory /\ dur \in Directory
  /\ files \in [snap   : [DOMAIN files.snap -> [rev : Nat, text : Text]],
                log    : [DOMAIN files.log -> Seq([rev : Nat, id : Nat])],
                synced : [DOMAIN files.log -> Nat]]
  /\ doc \in [now : Document, dur : Document, saves : Nat]
  /\ flush \in [pc : {"none", "wait", "synced", "unsynced"},
                left : SUBSET {"actor", "daemon"}, text : Text]
  /\ made \in Nat /\ seen \subseteq Text /\ safe \in Text /\ kept \in Text

\* The meta never names a generation whose snap a crash could take away: no
\* crash makes restore quarantine the rid (load_rid, try_switch steps 3 to 6).
NeverMalformed == \A i \in Images(TRUE) : i.load.kind # "malformed"

\* Restore brings back a text the buffer really had: no record of two
\* generations or of none is replayed, whatever a crash tore off (the
\* generation hand-off of rec_switch and rec_record).
RestoresAPast ==
  \A i \in Images(TRUE) : i.load.kind = "text" => i.load.text \in seen

Survives(t) ==
  \A i \in Images(TRUE) : IsPrefix(t, i.load.text) \/ IsPrefix(t, i.doc.text)

\* What the writer has made durable (switch_done, a completed sync) no later
\* Switch, failed Switch, save or restore takes away again.
DurableSurvives == Survives(kept)

\* A flush that answers synced covers every entry applied before it was asked:
\* they survive a power failure from then on ("synced is false when ... a rid
\* is still unprotected", Recovery::flush).
FlushHonest == Survives(safe)

\* When nothing is queued or signalled and health is good, a crash of the
\* daemon loses nothing of a dirty buffer (rec_record, rec_settle, rec_wake).
QuietProtected ==
  (act.pc = "up" /\ queue = <<>> /\ wr.pc = "idle" /\ ~sig.bell /\ Healthy /\ Dirty(act))
    => \A i \in Images(FALSE) : i.load.text = act.text

\* An Append never reaches the writer for a generation it does not hold, unless
\* a failure is being repaired (the debug assertion of Writer::append).
NoStaleAppend == ~wr.stale

\* Every flush is answered (the token waits in the actor for its Switch).
FlushAnswered == (flush.pc = "wait") ~> (flush.pc # "wait")
=============================================================================
