------------------------------- MODULE EditFold -------------------------------
(***************************************************************************)
(* Optimistic editing of one buffer by one mirror while others edit it, on *)
(* a connection that loses nothing: what the mirror shows                  *)
(* (src/src/crates/cosmix-edit-client/src/mirror.rs local_edit,            *)
(* next_outgoing, fold_edit, fold_remote, revert_suffix, reply_refused)    *)
(* against what the server commits                                         *)
(* (src/src/crates/cosmix-edit-core/src/buffer.rs resolve_txn, commit_txn).*)
(*                                                                         *)
(* The mirror applies its transactions to its view at once and sends them  *)
(* one at a time.  The server rebases the one in flight through what it    *)
(* has committed since; the mirror folds what the others committed through *)
(* what it still has pending.  The two never exchange the result: they     *)
(* agree because both transform by the rules of EditOT, each from its own  *)
(* side.                                                                   *)
(*                                                                         *)
(* Every inserted character is a new one, so a text says which insertions  *)
(* it holds and in which order.                                            *)
(***************************************************************************)
EXTENDS EditOT

CONSTANTS
  Widths,    \* how many characters an item may insert
  Plans      \* records: the text, and for each local and each remote transaction
             \* to come, in locals and remotes, how many items it may have

\* Who wrote a character, in which of its transactions, in which item, and where.
Char == {"text", "remote", "local"} \X Nat \X Nat \X Nat

ASSUME PlansAssumption ==
  /\ Widths \subseteq Nat
  /\ Plans \subseteq [text : Seq(Char), locals : Seq(Nat), remotes : Seq(Nat)]

VARIABLES
  plan,      \* transactions left
  texts,     \* texts[r + 1] is the server's text at rev r
  log,       \* log[r] is the entry that made rev r
  view,      \* the mirror's text
  rev,       \* the mirror's rev
  ops,       \* its pending transactions, in the view's order; in flight: the first
  flight,    \* the in-flight slot
  stash,     \* characters of reverted transactions, kept in the conflicts
  typed      \* characters typed at the mirror so far

vars == <<plan, texts, log, view, rev, ops, flight, stash, typed>>

NoFlight == [st |-> "none", items |-> <<>>, at |-> 0, present |-> FALSE]

Chars(items) == UNION {{items[k].ins[i] : i \in DOMAIN items[k].ins} : k \in DOMAIN items}
CharsOf(os) == UNION {Chars(os[k]) : k \in DOMAIN os}

-----------------------------------------------------------------------------
(* Transactions: at most n items on a text, none of them without effect, in *)
(* the ascending order in which the editor lists them (model.rs multi).     *)

Spans(t) ==
  {r \in [s : 0..Len(t), e : 0..Len(t), width : Widths] :
     r.s <= r.e /\ ~(r.s = r.e /\ r.width = 0)}

Typed(spans, who, m) ==
  [k \in DOMAIN spans |->
     [s |-> spans[k].s, e |-> spans[k].e, ins |-> [i \in 1..spans[k].width |-> <<who, m, k, i>>]]]

Txns(t, n, who, m) ==
  {Typed(spans, who, m) : spans \in UNION {[1..j -> Spans(t)] : j \in 1..n}}

Ascending(items) == \A i, j \in DOMAIN items : i < j => items[i].s <= items[j].s

WellFormed(items) == Ascending(items) /\ ~HasOverlap(items)

-----------------------------------------------------------------------------
(* The server.                                                              *)

ServerText == texts[Len(texts)]
Steps(from, to) == FlattenSeq([k \in 1..(to - from) |-> log[from + k].steps])

(* buffer.rs resolve_txn with base_rev: every item through every step since. *)
RebaseSelfFirst(items, steps) ==
  [k \in DOMAIN items |-> Moved(items[k], TransformSteps(items[k], steps, SelfFirst))]

Rebase(items, steps) ==
  [k \in DOMAIN items |-> Moved(items[k], TransformSteps(items[k], steps, ThroughFirst))]

Refused(items) == \E k \in DOMAIN items : RangeOf(items[k]) = Overlap

(* buffer.rs commit_txn. *)
Commit(own, items) ==
  LET steps == TxnSequence(items)
  IN /\ log' = Append(log, [own |-> own, steps |-> steps])
     /\ texts' = Append(texts, ApplyAll(ServerText, steps))

\* Another client edits the current text.
Remote ==
  /\ plan.remotes # <<>>
  /\ \E items \in Txns(ServerText, Head(plan.remotes), "remote", Len(plan.remotes)) :
       WellFormed(items) /\ Commit(FALSE, items)
  /\ plan' = [plan EXCEPT !.remotes = Tail(@)]
  /\ UNCHANGED <<view, rev, ops, flight, stash, typed>>

\* The request in flight is served: rebased and committed, or CONFLICT overlap.
Serve ==
  /\ flight.st = "sent"
  /\ LET items == Rebase(flight.items, Steps(flight.at, Len(log)))
     IN \/ /\ ~Refused(items)
           /\ Commit(TRUE, items)
           /\ flight' = [flight EXCEPT !.st = "committed"]
        \/ /\ Refused(items)
           /\ flight' = [flight EXCEPT !.st = "refused"]
           /\ UNCHANGED <<texts, log>>
  /\ UNCHANGED <<plan, view, rev, ops, stash, typed>>

-----------------------------------------------------------------------------
(* The mirror: local_edit and next_outgoing.                                *)

WithDeleted(t, items) ==
  [k \in DOMAIN items |->
     [s |-> items[k].s, e |-> items[k].e, ins |-> items[k].ins,
      deleted |-> Slice(t, items[k].s, items[k].e)]]

Local ==
  /\ plan.locals # <<>>
  /\ \E items \in Txns(view, Head(plan.locals), "local", Len(plan.locals)) :
       /\ WellFormed(items)
       /\ ops' = Append(ops, WithDeleted(view, items))
       /\ view' = ApplyAll(view, TxnSequence(items))
       /\ typed' = typed \cup Chars(items)
  /\ plan' = [plan EXCEPT !.locals = Tail(@)]
  /\ UNCHANGED <<texts, log, rev, flight, stash>>

Send ==
  /\ flight.st = "none"
  /\ ops # <<>>
  /\ flight' = [st |-> "sent", items |-> Head(ops), at |-> rev, present |-> TRUE]
  /\ UNCHANGED <<plan, texts, log, view, rev, ops, stash, typed>>

(* Pending::inverse: the steps in reverse, each putting back what its item   *)
(* removed.                                                                 *)
InverseSteps(items) ==
  LET Undo(x) == [s |-> x.s, e |-> x.s + Len(x.ins), ins |-> x.deleted]
      order == Reverse(Canonical(items))
  IN [k \in DOMAIN items |-> Undo(items[order[k]])]

(* fold_remote, one remote step through the pending transactions in order:   *)
(* a's step moves through each of them as a set, and each moves through it.  *)
Crossed(a, moved, x) ==
  IF Refused(moved) \/ RangeOf(x) = Overlap THEN [a EXCEPT !.failed = TRUE]
  ELSE [x |-> x, ops |-> Append(a.ops, moved), failed |-> FALSE]

ThroughOp(a, items) ==
  IF a.failed THEN a
  ELSE Crossed(a, [k \in DOMAIN items |->
                     Moved(items[k], ThroughSet(items[k], <<a.x>>, ThroughFirst))],
               Moved(a.x, ThroughSet(a.x, items, SelfFirst)))

(* The steps of an entry in order; out is what the view applies.            *)
Outcome(b, a) ==
  IF a.failed THEN [b EXCEPT !.failed = TRUE]
  ELSE [ops |-> a.ops, out |-> Append(b.out, a.x), failed |-> FALSE]

FoldSteps(os, steps) ==
  LET OneStep(b, x) ==
        IF b.failed THEN b
        ELSE Outcome(b, FoldLeft(ThroughOp, [x |-> x, ops |-> <<>>, failed |-> FALSE], b.ops))
  IN FoldLeft(OneStep, [ops |-> os, out |-> <<>>, failed |-> FALSE], steps)

(* The loop of fold_remote reverts from the first transaction that fails and *)
(* retries, so the longest prefix that folds is kept.                        *)
Kept(n, steps) ==
  /\ ~FoldSteps(SubSeq(ops, 1, n), steps).failed
  /\ \A m \in (n + 1)..Len(ops) : FoldSteps(SubSeq(ops, 1, m), steps).failed

(* revert_suffix: the view without the transactions after the first n.      *)
Reverted(n) ==
  LET suffix == SubSeq(ops, n + 1, Len(ops))
  IN ApplyAll(view, FlattenSeq([k \in DOMAIN suffix |-> InverseSteps(suffix[Len(suffix) + 1 - k])]))

\* Only the queued transactions' texts are kept, not those of the one in flight.
StashSuffixQueued(n) ==
  stash' = stash \cup CharsOf(SubSeq(ops, (IF n = 0 /\ flight.present THEN 1 ELSE n) + 1, Len(ops)))

StashSuffix(n) == stash' = stash \cup CharsOf(SubSeq(ops, n + 1, Len(ops)))

Doom(n) == flight' = [flight EXCEPT !.present = @ /\ n > 0]

\* An entry of another client.
FoldRemote ==
  /\ rev < Len(log)
  /\ ~log[rev + 1].own
  /\ \E n \in 0..Len(ops) :
       /\ Kept(n, log[rev + 1].steps)
       /\ LET f == FoldSteps(SubSeq(ops, 1, n), log[rev + 1].steps)
          IN view' = ApplyAll(Reverted(n), f.out) /\ ops' = f.ops
       /\ Doom(n)
       /\ StashSuffix(n)
  /\ rev' = rev + 1
  /\ UNCHANGED <<plan, texts, log, typed>>

\* The echo of the transaction in flight: acknowledged.
Echo ==
  /\ rev < Len(log)
  /\ log[rev + 1].own
  /\ flight.present
  /\ rev' = rev + 1
  /\ ops' = Tail(ops)
  /\ flight' = NoFlight
  /\ UNCHANGED <<plan, texts, log, view, stash, typed>>

(* reply_refused: reverted already, or everything pending is reverted now.   *)
ReplyRefused ==
  /\ flight.st = "refused"
  /\ \/ ~flight.present /\ UNCHANGED <<view, ops, stash>>
     \/ /\ flight.present
        /\ view' = Reverted(0)
        /\ ops' = <<>>
        /\ StashSuffix(0)
  /\ flight' = NoFlight
  /\ UNCHANGED <<plan, texts, log, rev, typed>>

-----------------------------------------------------------------------------
Init ==
  /\ plan \in Plans
  /\ texts = <<plan.text>>
  /\ log = <<>>
  /\ view = texts[1]
  /\ rev = 0
  /\ ops = <<>>
  /\ flight = NoFlight
  /\ stash = {}
  /\ typed = {}

Next == Remote \/ Serve \/ Local \/ Send \/ FoldRemote \/ Echo \/ ReplyRefused

Spec == Init /\ [][Next]_vars

-----------------------------------------------------------------------------
(* Properties.                                                              *)

InFlight == IF flight.present THEN 1 ELSE 0

\* The state has its shape: a slot that is taken and present is the first
\* pending transaction, and the mirror is at a rev of the log.
TypeOK ==
  /\ rev \in 0..Len(log) /\ Len(texts) = Len(log) + 1
  /\ flight.st \in {"none", "sent", "committed", "refused"}
  /\ flight.at <= rev
  /\ Len(ops) >= InFlight
  /\ flight.present => flight.st # "none"

\* What the mirror shows is the server's text at its rev with its pending
\* transactions applied, whatever was folded, reverted or acknowledged
\* (mirror.rs fold_remote): once nothing is pending, view and server agree.
ViewIsServerPlusPending ==
  view = ApplyAll(texts[rev + 1], FlattenSeq([k \in DOMAIN ops |-> TxnSequence(ops[k])]))

\* The fold and the server's rebase decide alike: the pending transaction in
\* flight lies where the server's rebase through the same entries puts it, and
\* one the fold reverted is one the server refuses (mirror.rs AckState::Doomed,
\* "its refusal is expected"), so no commit of it is ever met.
FoldAgreesWithRebase ==
  flight.st # "none" =>
    LET items == Rebase(flight.items, Steps(flight.at, rev))
    IN /\ flight.present <=> ~Refused(items)
       /\ flight.present => items = ops[1]
       /\ ~flight.present => flight.st # "committed"

\* Items of one transaction stay disjoint through every transform (mirror.rs
\* Pending::seq, "transforms keep them disjoint").
PendingDisjoint == \A k \in DOMAIN ops : ~HasOverlap(ops[k])

\* Every character typed at the mirror is pending, in a commit of the server
\* or in the stash of a conflict: a revert never drops text silently.
NothingTypedIsLost ==
  typed = stash \cup CharsOf(ops)
            \cup UNION {Chars(log[r].steps) : r \in {q \in 1..rev : log[q].own}}
=============================================================================
