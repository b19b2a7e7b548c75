-------------------------------- MODULE EditOT --------------------------------
(***************************************************************************)
(* The operational transformation of the editor core                       *)
(* (src/src/crates/cosmix-edit-core/src/ot.rs), shared by the server's     *)
(* buffer and the client's mirror: how a range moves through a change,     *)
(* which items of a transaction overlap, the one order in which a          *)
(* transaction is applied, and where its insertions end up.                *)
(*                                                                         *)
(* A text is a sequence of characters; an offset is the number of          *)
(* characters before it.  A range is [s, e), with s = e for a pure insert. *)
(* A change [s, e, ins] replaces a range by ins.  It is an item of a       *)
(* transaction when s and e are offsets of the transaction's base text     *)
(* (ot.rs RangeSet), and a step when they are offsets of the text the      *)
(* steps before it leave (ot.rs Edit, with delete = e - s).                *)
(***************************************************************************)
EXTENDS Integers, Sequences, SequencesExt

ThroughFirst == "ThroughFirst"
SelfFirst == "SelfFirst"

\* Err(Overlap), which is no range.
Overlap == [s |-> -1, e |-> -1]

RangeOf(c) == [s |-> c.s, e |-> c.e]
IsEmpty(r) == r.s = r.e
Moved(c, r) == [c EXCEPT !.s = r.s, !.e = r.e]

Slice(t, s, e) == SubSeq(t, s + 1, e)
ApplyStep(t, x) == Slice(t, 0, x.s) \o x.ins \o Slice(t, x.e, Len(t))
ApplyAll(t, steps) == FoldLeft(ApplyStep, t, steps)

-----------------------------------------------------------------------------
(* transform_raw.  x lies left of r and shifts it, lies right of it and     *)
(* leaves it, or touches text of it.                                        *)

\* One past the start still counts as left of the range.
LiesLeftLoose(r, x, prio) ==
  \/ x.e < r.s
  \/ x.e - 1 <= r.s /\ ~IsEmpty(x)
  \/ IsEmpty(x) /\ x.s = r.s /\ (~IsEmpty(r) \/ prio = ThroughFirst)

LiesLeft(r, x, prio) ==
  \/ x.e < r.s
  \/ x.e = r.s /\ ~IsEmpty(x)
  \/ IsEmpty(x) /\ x.s = r.s /\ (~IsEmpty(r) \/ prio = ThroughFirst)

LiesRight(r, x, prio) ==
  \/ x.s > r.e
  \/ x.s = r.e /\ ~IsEmpty(x)
  \/ IsEmpty(x) /\ x.s = r.e /\ (~IsEmpty(r) \/ prio = SelfFirst)

Shifted(r, x) ==
  LET d == Len(x.ins) - (x.e - x.s) IN [s |-> r.s + d, e |-> r.e + d]

TransformRaw(r, x, prio) ==
  CASE LiesLeft(r, x, prio) -> Shifted(r, x)
    [] LiesRight(r, x, prio) -> RangeOf(r)
    [] OTHER -> Overlap

(* transform_set, for one of its ranges: through steps, one after the other. *)
TransformSteps(r, steps, prio) ==
  LET Through(a, x) == IF a = Overlap THEN Overlap ELSE TransformRaw(a, x, prio)
  IN FoldLeft(Through, RangeOf(r), steps)

(* transform_through_set: through the items of a transaction, each judged   *)
(* against the range's own position; the shifts are summed.                 *)
SumOfShifts(r, at) ==
  LET Sum(f) == FoldLeft(LAMBDA a, b : a + b, 0, f)
      s == r.s + Sum([k \in DOMAIN at |-> at[k].s - r.s])
      e == r.e + Sum([k \in DOMAIN at |-> at[k].e - r.e])
  IN IF Overlap \in {at[k] : k \in DOMAIN at} \/ s < 0 \/ e < s
     THEN Overlap
     ELSE [s |-> s, e |-> e]

ThroughSetInSteps(r, items, prio) == TransformSteps(r, items, prio)

ThroughSet(r, items, prio) ==
  SumOfShifts(r, [k \in DOMAIN items |-> TransformRaw(r, items[k], prio)])

-----------------------------------------------------------------------------
(* first_overlap: in order of start, inserts first, an item starts before   *)
(* the end of a non-empty one.                                              *)
HasOverlap(items) ==
  \E i, j \in DOMAIN items :
    /\ i # j
    /\ ~IsEmpty(items[i])
    /\ items[j].s < items[i].e
    /\ \/ items[i].s < items[j].s
       \/ items[i].s = items[j].s /\ ~IsEmpty(items[j])

(* canonical_cmp: start descending; at one start the range first, then the  *)
(* inserts in reverse request order.                                        *)
CanonicalBefore(items, a, b) ==
  \/ items[a].s > items[b].s
  \/ /\ items[a].s = items[b].s
     /\ \/ ~IsEmpty(items[a]) /\ IsEmpty(items[b])
        \/ (IsEmpty(items[a]) <=> IsEmpty(items[b])) /\ a > b

(* txn_sequence: the items' indices in the order they are applied.  Applied *)
(* in it, an item's offsets are also the offsets of its step.               *)
Canonical(items) ==
  CHOOSE order \in [DOMAIN items -> DOMAIN items] :
    \A i, j \in DOMAIN items : i < j => CanonicalBefore(items, order[i], order[j])

InOrder(items, order) ==
  [k \in DOMAIN order |->
     [s |-> items[order[k]].s, e |-> items[order[k]].e, ins |-> items[order[k]].ins]]

TxnSequence(items) == InOrder(items, Canonical(items))

(* post_ranges: each step's inserted span after the whole sequence.         *)
PostRanges(steps) ==
  [k \in DOMAIN steps |->
    TransformSteps([s |-> steps[k].s, e |-> steps[k].s + Len(steps[k].ins)],
                   SubSeq(steps, k + 1, Len(steps)), ThroughFirst)]
=============================================================================
