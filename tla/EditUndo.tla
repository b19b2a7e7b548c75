------------------------------- MODULE EditUndo -------------------------------
(***************************************************************************)
(* The server's buffer of the editor core: its op log, the undo and redo   *)
(* stacks of each lane, coalescing, retention, and undo as a new           *)
(* transaction that inverts a group in the current coordinates             *)
(* (src/src/crates/cosmix-edit-core/src/buffer.rs and history.rs).         *)
(*                                                                         *)
(* An undo is composed, not replayed: the members' inverses are merged in  *)
(* reading order, moved through every later entry except the undo/redo     *)
(* pairs that cancel out, and refused when anything overlaps or the text   *)
(* it would remove is no longer there.                                     *)
(***************************************************************************)
EXTENDS EditOT, FiniteSets

CONSTANTS
  Lanes,      \* whose edits
  LogMax,     \* LOG_MAX_ENTRIES
  Plans       \* records: the text, whether one lane edits alone, how many items an
              \* edit may have, how many edits, undos, redos and reloads may happen

ASSUME LogMaxAssumption == LogMax \in Nat \ {0}

Disk == "disk"

VARIABLES
  plan,       \* what may still happen
  text,       \* the buffer's text
  log,        \* the retained entries, oldest first
  base,       \* the rev before the first of them (oldest_rev)
  lanes,      \* the undo and redo stacks of each lane
  texts       \* history: texts[r + 1] was the text at rev r

vars == <<plan, text, log, base, lanes, texts>>

rev == base + Len(log)
Entry(r) == log[r - base]
After(r) == SubSeq(log, r - base + 1, Len(log))

Group(a, b) == [first |-> a, last |-> b]
NoGroup == Group(0, 0)
Top(stack) == stack[Len(stack)]
NoLane == [undo |-> <<>>, redo |-> <<>>]

-----------------------------------------------------------------------------
(* buffer.rs compose_members: the inverse of consecutive entries as items on *)
(* the text after the last of them, in reading order.  What an item puts     *)
(* back is its ins; what it expects to remove is its expect.                 *)

MovedAll(items, steps) ==
  [k \in DOMAIN items |-> Moved(items[k], TransformSteps(items[k], steps, ThroughFirst))]

AnyOverlap(items) == \E k \in DOMAIN items : RangeOf(items[k]) = Overlap

InverseItems(m, post) ==
  Reverse([k \in DOMAIN post |-> [s |-> post[k].s, e |-> post[k].e,
                                  ins |-> m.deleted[k], expect |-> m.steps[k].ins]])

\* Whether step i of m lay left of item o when it applied.
Side(o, m, i) ==
  LiesLeft(TransformSteps(o, SubSeq(m.steps, 1, i - 1), ThroughFirst), m.steps[i], ThroughFirst)

\* Two restored texts on one offset, newest member first.
TakeNewNewest(o, moved, n, m, i) ==
  IF moved.s # n.s THEN n.s < moved.s
  ELSE IsEmpty(n)

\* The member's own item n goes before the older item o.
TakeNew(o, moved, n, m, i) ==
  IF moved.s # n.s THEN n.s < moved.s
  ELSE IsEmpty(n) /\ (IsEmpty(moved) => Side(o, m, i))

Refusal == [ok |-> FALSE, items |-> <<>>]

\* The older items, as they were and as the member moved them, and its own.
MergeMember(old, moved, new, m) ==
  LET count == Len(m.steps)
      Clash(i, j) == moved[i].s = new[j].s /\ ~IsEmpty(moved[i]) /\ ~IsEmpty(new[j])
      Merge(a, k) ==
        IF a.i <= Len(old)
           /\ (a.j > Len(new) \/ ~TakeNew(old[a.i], moved[a.i], new[a.j], m, count + 1 - a.j))
        THEN [a EXCEPT !.i = @ + 1, !.out = Append(@, moved[a.i])]
        ELSE [a EXCEPT !.j = @ + 1, !.out = Append(@, new[a.j])]
  IN IF AnyOverlap(moved) \/ \E i \in DOMAIN old, j \in DOMAIN new : Clash(i, j)
     THEN Refusal
     ELSE [ok |-> TRUE,
           items |-> FoldLeft(Merge, [i |-> 1, j |-> 1, out |-> <<>>],
                              [k \in 1..(Len(old) + Len(new)) |-> k]).out]

AddMember(acc, m) ==
  IF ~acc.ok THEN Refusal
  ELSE MergeMember(acc.items, MovedAll(acc.items, m.steps),
                   InverseItems(m, PostRanges(m.steps)), m)

ComposeMembers(members) == FoldLeft(AddMember, [ok |-> TRUE, items |-> <<>>], members)

(* buffer.rs exclude: the entries of rest as if those of group had never     *)
(* been applied.                                                             *)
StepWithout(x, r) ==
  [x EXCEPT !.s = r.s, !.e = IF r = Overlap THEN r.e ELSE r.s + (x.e - x.s)]

Rewritten(a, m, steps, carried) ==
  IF AnyOverlap(steps) \/ AnyOverlap(carried) THEN [a EXCEPT !.ok = FALSE]
  ELSE [ok |-> TRUE, inv |-> carried, out |-> Append(a.out, [m EXCEPT !.steps = steps])]

Rewrite(a, m) ==
  IF ~a.ok THEN a
  ELSE Rewritten(a, m, [k \in DOMAIN m.steps |->
                          StepWithout(m.steps[k],
                                      TransformSteps(m.steps[k], Reverse(a.inv), SelfFirst))],
                 MovedAll(a.inv, m.steps))

Exclude(group, rest) ==
  LET Start(inv) == [ok |-> inv.ok, inv |-> inv.items, out |-> <<>>]
  IN FoldLeft(Rewrite, Start(ComposeMembers(group)), rest)

(* buffer.rs reduced_after: the later entries, without the undo/redo pairs   *)
(* that cancel.                                                              *)
Spliced(red, pos, ex, m) ==
  IF ex.ok THEN SubSeq(red, 1, pos - 1) \o ex.out ELSE Append(red, m)

Reduce(red, m) ==
  LET n == m.of.last - m.of.first + 1
      pos == SelectInSeq(red, LAMBDA q : q.rev = m.of.first)
      whole == /\ m.kind \in {"undo", "redo"}
               /\ pos > 0
               /\ pos + n - 1 <= Len(red)
               /\ \A k \in 0..(n - 1) : red[pos + k].rev = m.of.first + k
  IN IF whole
     THEN Spliced(red, pos,
                  Exclude(SubSeq(red, pos, pos + n - 1), SubSeq(red, pos + n, Len(red))), m)
     ELSE Append(red, m)

ReducedAfterAll(last) == After(last)

ReducedAfter(last) == FoldLeft(Reduce, <<>>, After(last))

(* buffer.rs compose_inverse.                                                *)
StepsOf(entries) == FlattenSeq([k \in DOMAIN entries |-> entries[k].steps])

\* Steps 3 to 5: disjoint, and the text to be removed is still there.
Verified(items) ==
  IF \/ AnyOverlap(items)
     \/ \E i, j \in DOMAIN items : i < j /\ ~IsEmpty(items[i]) /\ items[j].s < items[i].e
     \/ \E k \in DOMAIN items : Slice(text, items[k].s, items[k].e) # items[k].expect
  THEN Refusal
  ELSE [ok |-> TRUE, items |-> items]

ComposeInverse(g) ==
  LET composed == ComposeMembers(SubSeq(log, g.first - base, g.last - base))
  IN IF g.first <= base \/ ~composed.ok THEN Refusal
     ELSE Verified(MovedAll(composed.items, StepsOf(ReducedAfter(g.last))))

-----------------------------------------------------------------------------
(* buffer.rs contiguous: next continues prev as one typing or deleting run.  *)
Contiguous(prev, next) ==
  \/ /\ IsEmpty(prev) /\ IsEmpty(next)
     /\ prev.ins # <<>> /\ next.ins # <<>>
     /\ next.s = prev.s + Len(prev.ins)
  \/ /\ ~IsEmpty(prev) /\ ~IsEmpty(next)
     /\ prev.ins = <<>> /\ next.ins = <<>>
     /\ next.e = prev.s \/ next.s = prev.s

\* buffer.rs commit_txn: whether the edit extends the lane's top group.
Coalesced(lane, steps, asked) ==
  /\ asked
  /\ Len(steps) = 1
  /\ lanes[lane].undo # <<>> /\ Top(lanes[lane].undo).last = rev
  /\ log # <<>>
  /\ LET prev == log[Len(log)]
     IN /\ prev.kind = "edit" /\ prev.lane = lane /\ Len(prev.steps) = 1
        /\ Contiguous(prev.steps[1], steps[1])

Pop(stack) == SubSeq(stack, 1, Len(stack) - 1)

NewStacks(lane, kind, steps, asked) ==
  LET l == lanes[lane]
      r == rev + 1
  IN CASE kind \in {"edit", "reload"} /\ Coalesced(lane, steps, asked /\ kind = "edit") ->
            [undo |-> Append(Pop(l.undo), Group(Top(l.undo).first, r)), redo |-> <<>>]
       [] kind \in {"edit", "reload"} /\ ~Coalesced(lane, steps, asked /\ kind = "edit") ->
            [undo |-> Append(l.undo, Group(r, r)), redo |-> <<>>]
       [] kind = "undo" -> [undo |-> Pop(l.undo), redo |-> Append(l.redo, Group(r, r))]
       [] kind = "redo" -> [undo |-> Append(l.undo, Group(r, r)), redo |-> Pop(l.redo)]

(* history.rs OpLog::push: at most LogMax entries are kept, and the groups   *)
(* that reach further back are dropped.                                      *)
KeepReachableLast(stack, oldest) == SelectSeq(stack, LAMBDA g : g.last > oldest)

KeepReachable(stack, oldest) ==
  LET Keep(kept, g) == IF g.first > oldest THEN Append(kept, g) ELSE kept
  IN FoldLeft(Keep, <<>>, stack)

CommitSteps(lane, kind, of, steps, asked) ==
  LET entry == [rev |-> rev + 1, lane |-> lane, kind |-> kind, of |-> of, steps |-> steps,
                deleted |-> [k \in DOMAIN steps |-> Slice(text, steps[k].s, steps[k].e)]]
      all == Append(log, entry)
      over == IF Len(all) > LogMax THEN Len(all) - LogMax ELSE 0
      stacks == [lanes EXCEPT ![lane] = NewStacks(lane, kind, steps, asked)]
  IN /\ text' = ApplyAll(text, steps)
     /\ texts' = Append(texts, text')
     /\ log' = SubSeq(all, over + 1, Len(all))
     /\ base' = base + over
     /\ lanes' = [l \in DOMAIN lanes |->
                    [undo |-> KeepReachable(stacks[l].undo, base + over),
                     redo |-> KeepReachable(stacks[l].redo, base + over)]]

CommitTxn(lane, kind, of, items, asked) ==
  CommitSteps(lane, kind, of, TxnSequence(items), asked)

-----------------------------------------------------------------------------
(* Operations.  A refused one changes nothing.                               *)

\* Single-character changes; every inserted character is new.
Changes(c) ==
  {x \in [s : 0..Len(text), e : 0..Len(text), ins : {<<>>, <<c>>}] :
     x.s <= x.e /\ x.e <= x.s + 1 /\ ~(x.s = x.e /\ x.ins = <<>>)}

Txns(n) ==
  {<<x>> : x \in Changes(10 * (rev + 1))}
    \cup (IF n < 2 THEN {} ELSE
          {<<x, y>> : x \in Changes(10 * (rev + 1)), y \in Changes(10 * (rev + 1) + 1)})

Apply(lane) ==
  /\ plan.edits > 0
  /\ plan.solo => \A k \in DOMAIN log : log[k].lane = lane
  /\ \E items \in Txns(plan.items), coalesce \in BOOLEAN :
       /\ ~HasOverlap(items)
       /\ CommitTxn(lane, "edit", NoGroup, items, coalesce)
  /\ plan' = [plan EXCEPT !.edits = @ - 1]

Undo(lane) ==
  /\ plan.undos > 0
  /\ lanes[lane].undo # <<>>
  /\ LET g == Top(lanes[lane].undo)
         c == ComposeInverse(g)
     IN c.ok /\ CommitTxn(lane, "undo", g, c.items, FALSE)
  /\ plan' = [plan EXCEPT !.undos = @ - 1]

Redo(lane) ==
  /\ plan.redos > 0
  /\ lanes[lane].redo # <<>>
  /\ LET g == Top(lanes[lane].redo)
         c == ComposeInverse(g)
     IN c.ok /\ CommitTxn(lane, "redo", g, c.items, FALSE)
  /\ plan' = [plan EXCEPT !.redos = @ - 1]

(* reload_minimal: one entry that keeps the common prefix and suffix.        *)
MinimalItem(new) ==
  LET shorter == IF Len(text) < Len(new) THEN Len(text) ELSE Len(new)
      pre == CHOOSE n \in 0..shorter :
               /\ \A k \in 1..n : text[k] = new[k]
               /\ n < shorter => text[n + 1] # new[n + 1]
      suf == CHOOSE n \in 0..(shorter - pre) :
               /\ \A k \in 1..n : text[Len(text) + 1 - k] = new[Len(new) + 1 - k]
               /\ n < shorter - pre => text[Len(text) - n] # new[Len(new) - n]
  IN [s |-> pre, e |-> Len(text) - suf, ins |-> Slice(new, pre, Len(new) - suf)]

ReloadMinimal ==
  /\ plan.reloads > 0
  /\ \E x \in Changes(10 * (rev + 1)) :
       CommitTxn(Disk, "reload", NoGroup, <<MinimalItem(ApplyStep(text, x))>>, FALSE)
  /\ plan' = [plan EXCEPT !.reloads = @ - 1]

-----------------------------------------------------------------------------
Init ==
  /\ plan \in Plans
  /\ text = plan.text
  /\ log = <<>>
  /\ base = 0
  /\ lanes = [l \in Lanes \cup {Disk} |-> NoLane]
  /\ texts = <<text>>

Next ==
  \/ \E l \in Lanes : Apply(l)
  \/ \E l \in Lanes \cup {Disk} : Undo(l) \/ Redo(l)
  \/ ReloadMinimal

Spec == Init /\ [][Next]_vars

-----------------------------------------------------------------------------
(* Properties.                                                               *)

CharsIn(t) == {t[k] : k \in DOMAIN t}
Position(t, c) == CHOOSE k \in DOMAIN t : t[k] = c
SameOrder(t, u) ==
  \A c, d \in CharsIn(t) \cap CharsIn(u) :
    Position(t, c) < Position(t, d) => Position(u, c) < Position(u, d)

InsertedBy(g) == UNION {UNION {CharsIn(Entry(r).steps[k].ins) : k \in DOMAIN Entry(r).steps} : r \in g.first..g.last}
DeletedBy(g) == UNION {UNION {CharsIn(Entry(r).deleted[k]) : k \in DOMAIN Entry(r).deleted} : r \in g.first..g.last}

Inverted(c) == ApplyAll(text, TxnSequence(c.items))

\* From text to t exactly the group is taken back.
TakesBack(g, t) ==
  LET known == DeletedBy(g)
                 \cup {d \in CharsIn(text) : \A r \in g.first..rev : d \in CharsIn(texts[r + 1])}
  IN /\ InsertedBy(g) \subseteq CharsIn(text)
     /\ Len(t) = Cardinality(CharsIn(t))
     /\ CharsIn(t) = (CharsIn(text) \ InsertedBy(g)) \cup DeletedBy(g)
     /\ SameOrder(text, t)
     /\ SameOrder(SelectSeq(texts[g.first], LAMBDA d : d \in known), t)

\* Entries are consecutive, and every group on a stack is a run of retained
\* entries of its own lane (buffer.rs compose_inverse's debug_assert; history.rs
\* "Undo reach is exactly the retained suffix").
TypeOK ==
  /\ Len(log) <= LogMax /\ Len(texts) = rev + 1 /\ text = texts[rev + 1]
  /\ \A k \in DOMAIN log : log[k].rev = base + k
  /\ \A l \in DOMAIN lanes : \A s \in {lanes[l].undo, lanes[l].redo} : \A k \in DOMAIN s :
       /\ s[k].first > base /\ s[k].first <= s[k].last /\ s[k].last <= rev
       /\ \A r \in s[k].first..s[k].last : Entry(r).lane = l

\* An undo or redo that is not refused takes back exactly what its group did: it
\* removes the characters the group inserted and puts back those it deleted; the
\* rest of the text stays as it is, and what comes back stands where it stood,
\* among itself and against everything that stayed, whatever the other lanes did
\* since (history.rs undo, steps 2 to 5; buffer.rs reduced_after, "conservative,
\* never wrong").
UndoIsExact ==
  LET Exact(g, c) == c.ok => TakesBack(g, Inverted(c))
  IN \A l \in DOMAIN lanes : \A s \in {lanes[l].undo, lanes[l].redo} :
       s # <<>> => Exact(Top(s), ComposeInverse(Top(s)))

\* Two characters never change places: undoing what two lanes did leaves the
\* text they started from (src/tests/props.rs:216, "undoing all of A leaves exactly
\* B's edits").
OrderKept == \A r \in DOMAIN texts : SameOrder(texts[r], text)

\* With one lane at work history is linear: no undo or redo is refused, and each
\* restores the text as it was before its group (history.rs: "edit, fix it, undo
\* the fix, undo the edit" must not refuse).
LinearUndo ==
  \A l \in DOMAIN lanes : \A s \in {lanes[l].undo, lanes[l].redo} :
    s # <<>> /\ (\A k \in DOMAIN log : log[k].lane = l) =>
      LET Restores(g, c) == c.ok /\ Inverted(c) = texts[g.first]
      IN Restores(Top(s), ComposeInverse(Top(s)))
=============================================================================
