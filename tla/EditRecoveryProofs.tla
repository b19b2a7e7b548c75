-------------------------- MODULE EditRecoveryProofs --------------------------
(***************************************************************************)
(* Proofs about the recovery files of EditRecovery, for every scenario of  *)
(* edits, saves, failures and crashes and for every queue and compaction   *)
(* bound.                                                                  *)
(*                                                                         *)
(* The inductive invariant says four things.  The snap of a generation     *)
(* that a meta names is in the directory in both views, so no mixture of   *)
(* the two loses it.  The records of a log carry on, rev by rev and text   *)
(* by text, from its snap, so every prefix a crash leaves is a text the    *)
(* buffer had.  Generations rise: a Switch still in the FIFO opens one     *)
(* that nothing on disk has yet.  And an Append carries on where what is   *)
(* before it in the FIFO leaves the writer, unless the writer has failed   *)
(* by then, when it is dropped.  Each step of the writer serves the head   *)
(* of the FIFO, and hands that promise on to the message behind it.        *)
(***************************************************************************)
EXTENDS EditRecovery, SequenceTheorems, FiniteSetTheorems, WellFoundedInduction, TLAPS

-----------------------------------------------------------------------------
(* The invariant *)

Metas == {vol.meta.gen, dur.meta.gen} \ {0}

\* The snap of a generation a meta names is there in either view.
Backed == \A g \in Metas : g \in vol.snaps /\ g \in dur.snaps

\* What the first n records of generation g's log make of its snap.
TextAt(g, n) == files.snap[g].text \o [i \in 1..n |-> files.log[g][i].id]

\* The files of generation g tell of texts the buffer had, in the order of their revs.
Sound(g) ==
  /\ g \in DOMAIN files.snap /\ g \in DOMAIN files.log
  /\ files.synced[g] <= Len(files.log[g])
  /\ \A i \in 1..Len(files.log[g]) : files.log[g][i].rev = files.snap[g].rev + i
  /\ \A n \in 0..Len(files.log[g]) : TextAt(g, n) \in seen

Soundness == \A g \in (Metas \cup {wr.gen}) \ {0} : Sound(g)

InSwitch == wr.pc \in {"snap", "log", "dir", "meta", "done"}

\* How far the Switch or the Discard at the head of the FIFO has come.
Staged ==
  /\ InSwitch => Msg("switch")
  /\ wr.pc = "discard" => Msg("discard")
  /\ InSwitch =>
       LET m == Head(queue) IN
       /\ m.gen \in vol.snaps
       /\ m.gen \in DOMAIN files.snap
       /\ files.snap[m.gen] = [rev |-> m.rev, text |-> m.text]
       /\ wr.pc # "snap" =>
            m.gen \in DOMAIN files.log /\ files.log[m.gen] = <<>> /\ files.synced[m.gen] = 0
       /\ wr.pc \in {"dir", "meta", "done"} => m.gen \in dur.snaps
       /\ wr.pc \in {"meta", "done"} => vol.meta.gen = m.gen /\ wr.gen = m.gen
       /\ wr.pc = "done" => dur.meta.gen = m.gen

\* The newest generation given out.
Top == IF act.pc = "restoring" /\ act.restored THEN rec.gen + 1 ELSE rec.gen

\* Generations are opened in order: whatever the files or the writer hold is
\* older than a Switch still to come.
Rising(q, top) ==
  /\ \A i \in 1..Len(q) : q[i].t = "switch" => q[i].gen > 0 /\ q[i].gen <= top
  /\ \A i, j \in 1..Len(q) :
       i < j /\ q[i].t = "switch" /\ q[j].t = "switch" => q[i].gen < q[j].gen

Ahead(q, top) ==
  /\ Rising(q, top)
  /\ \A g \in Metas \cup {wr.gen} :
       /\ g <= top
       /\ \A i \in 1..Len(q) :
            q[i].t = "switch" /\ ~(i = 1 /\ wr.pc \in {"meta", "done"}) => g < q[i].gen

\* The writer is at this text and rev of generation g, or has failed.
AtWriter(g, text, rev) ==
  \/ failed
  \/ /\ wr.gen = g /\ g # 0
     /\ text = TextAt(g, Len(files.log[g]))
     /\ rev = files.snap[g].rev + Len(files.log[g])

\* Whoever stands before position i of q finds the writer at this text and rev of
\* generation g when its turn comes, unless the writer has failed by then.
Follows(q, i, g, text, rev) ==
  \/ \E j \in 1..(i - 1) :
       /\ q[j].t \in {"switch", "append"}
       /\ q[j].gen = g /\ q[j].text = text /\ q[j].rev = rev
       /\ \A k \in (j + 1)..(i - 1) : q[k].t = "flush"
  \/ (\A k \in 1..(i - 1) : q[k].t = "flush") /\ AtWriter(g, text, rev)

\* An Append carries on where what is before it in the FIFO ends.
Chained(q) ==
  \A i \in 1..Len(q) : q[i].t = "append" =>
    \E text \in Text : q[i].text = Append(text, q[i].id) /\ Follows(q, i, q[i].gen, text, q[i].rev - 1)

\* The texts under way are texts the buffer has had.
Had(q, S) == \A i \in 1..Len(q) : q[i].t \in {"switch", "append"} => q[i].text \in S

\* The actor's next Append carries on where the FIFO ends.
OnEnd(b, a) ==
  b.r.active /\ ~b.r.needs /\ ~b.r.held =>
    Follows(b.q, Len(b.q) + 1, b.r.gen, a.text, a.rev)

Attached ==
  /\ act.pc \in {"up", "saving"} => OnEnd(Rec, act)
  /\ act.pc = "restoring" /\ act.restored =>
       Follows(queue, Len(queue) + 1, rec.gen + 1, act.text, act.rev)

RecoveryInv ==
  /\ Backed /\ Soundness /\ Staged /\ Ahead(queue, Top)
  /\ Chained(queue) /\ Had(queue, seen) /\ Attached /\ NoStaleAppend

-----------------------------------------------------------------------------
(* The FIFO grows at its end *)

RecType ==
  [gen : Nat, out : Nat, needs : BOOLEAN, active : BOOLEAN, held : BOOLEAN,
   overflow : BOOLEAN, repair : Nat, written : Nat \cup {-1}]
ActType ==
  [pc : {"up", "saving", "closed", "restoring", "gone"}, text : Text, rev : Nat,
   saved : Nat \cup {-1}, restored : BOOLEAN, base : Nat, durable : BOOLEAN]

\* q2 is q with messages added behind it.
Grows(q, q2) ==
  /\ Len(q) <= Len(q2)
  /\ \A i \in 1..Len(q) : q2[i] = q[i]

LEMMA GrowsTrans ==
  ASSUME NEW q1 \in Seq(Message), NEW q2 \in Seq(Message), NEW q3 \in Seq(Message),
         Grows(q1, q2), Grows(q2, q3)
  PROVE  Grows(q1, q3)
  BY DEF Grows

LEMMA AppendGrows ==
  ASSUME NEW q \in Seq(Message), NEW m \in Message
  PROVE  /\ Append(q, m) \in Seq(Message)
         /\ Len(Append(q, m)) = Len(q) + 1
         /\ Append(q, m)[Len(q) + 1] = m
         /\ Grows(q, Append(q, m))
         /\ \A i \in 1..Len(q) : Append(q, m)[i] = q[i]
  BY DEF Grows

\* What follows on in q follows on in a longer q.
LEMMA FollowsGrows ==
  ASSUME NEW q \in Seq(Message), NEW q2 \in Seq(Message), Grows(q, q2),
         NEW i \in 1..(Len(q) + 1), NEW g, NEW text, NEW rev,
         Follows(q, i, g, text, rev)
  PROVE  Follows(q2, i, g, text, rev)
  BY DEF Follows, Grows

\* The next Append follows the Switch or the Append just put in.
LEMMA FollowsLast ==
  ASSUME NEW q \in Seq(Message), NEW m \in Message, m.t \in {"switch", "append"}
  PROVE  Follows(Append(q, m), Len(q) + 2, m.gen, m.text, m.rev)
<1> DEFINE q2 == Append(q, m)
<1>1. Len(q) \in Nat /\ q2[Len(q) + 1] = m
  BY AppendGrows, LenProperties
<1> HIDE DEF q2
<1>2. \E j \in 1..((Len(q) + 2) - 1) :
        /\ q2[j].t \in {"switch", "append"}
        /\ q2[j].gen = m.gen /\ q2[j].text = m.text /\ q2[j].rev = m.rev
        /\ \A k \in (j + 1)..((Len(q) + 2) - 1) : q2[k].t = "flush"
  <2> WITNESS Len(q) + 1 \in 1..((Len(q) + 2) - 1)
  <2> QED BY <1>1
<1> QED BY <1>2 DEF Follows, q2

\* A message is a record of one of four shapes.
LEMMA MessageShape ==
  ASSUME NEW m \in Message
  PROVE  /\ m.t \in {"switch", "append", "discard", "flush"}
         /\ m.t = "switch" => m \in [t : {"switch"}, gen : Nat, rev : Nat, text : Text, base : Nat]
         /\ m.t = "append" => m \in [t : {"append"}, gen : Nat, rev : Nat, id : Nat, text : Text]
         /\ m.t = "flush" => m \in [t : {"flush"}, of : {"actor", "daemon"}]
  BY DEF Message

\* The actor's bundle [r, q], apart from where its next Append would go.
Sane(b, S) ==
  /\ b \in [r : RecType, q : Seq(Message)]
  /\ b.r.out \in {0, b.r.gen}
  /\ Grows(queue, b.q)
  /\ Ahead(b.q, b.r.gen) /\ Chained(b.q) /\ Had(b.q, S)

\* What the actor's hooks need to know of the rest.
GensOK ==
  /\ queue \in Seq(Message)
  /\ wr.gen \in Nat /\ vol.meta.gen \in Nat /\ dur.meta.gen \in Nat

\* Adding one message.
LEMMA SaneAppend ==
  ASSUME NEW b, NEW S, Sane(b, S), NEW m \in Message, NEW r \in RecType,
         r.out \in {0, r.gen}, r.gen >= b.r.gen,
         m.t = "switch" => m.gen = b.r.gen + 1 /\ r.gen = m.gen /\ m.text \in S,
         m.t = "append" =>
           /\ m.text \in S
           /\ \E text \in Text : /\ m.text = Append(text, m.id)
                                 /\ Follows(b.q, Len(b.q) + 1, m.gen, text, m.rev - 1),
         GensOK
  PROVE  Sane([r |-> r, q |-> Append(b.q, m)], S)
<1> DEFINE q2 == Append(b.q, m)
           c == [r |-> r, q |-> q2]
<1>b. /\ b.q \in Seq(Message) /\ b.r \in RecType /\ b.r.gen \in Nat /\ r.gen \in Nat
      /\ Ahead(b.q, b.r.gen) /\ Chained(b.q) /\ Had(b.q, S) /\ Grows(queue, b.q)
  BY DEF Sane, RecType
<1>q. /\ q2 \in Seq(Message) /\ Len(q2) = Len(b.q) + 1 /\ Len(b.q) \in Nat
      /\ q2[Len(b.q) + 1] = m /\ Grows(b.q, q2)
      /\ \A i \in 1..Len(b.q) : q2[i] = b.q[i]
  BY <1>b, AppendGrows, LenProperties
<1>c. c.r = r /\ c.q = q2 /\ c \in [r : RecType, q : Seq(Message)]
  BY <1>q
<1>g. Grows(queue, q2)
  BY <1>b, <1>q, GrowsTrans DEF GensOK
<1>e. \A i \in 1..Len(q2) : i \in 1..Len(b.q) \/ i = Len(b.q) + 1
  BY <1>q
<1> HIDE DEF q2, c
<1>1. Rising(q2, r.gen)
  <2>1. ASSUME NEW i \in 1..Len(q2), q2[i].t = "switch" PROVE q2[i].gen > 0 /\ q2[i].gen <= r.gen
    <3>1. CASE i \in 1..Len(b.q)
      <4>1. b.q[i] \in Message /\ b.q[i].t = "switch" BY <1>b, <1>q, <2>1, <3>1, ElementOfSeq
      <4>2. b.q[i].gen \in Nat BY <4>1, MessageShape
      <4>3. b.q[i].gen > 0 /\ b.q[i].gen <= b.r.gen BY <1>b, <3>1, <4>1 DEF Ahead, Rising
      <4> QED BY <1>b, <1>q, <3>1, <4>2, <4>3
    <3>2. CASE i = Len(b.q) + 1
      BY <1>b, <1>q, <2>1, <3>2
    <3> QED BY <1>e, <3>1, <3>2
  <2>2. ASSUME NEW i \in 1..Len(q2), NEW j \in 1..Len(q2), i < j, q2[i].t = "switch", q2[j].t = "switch"
        PROVE  q2[i].gen < q2[j].gen
    <3>1. i \in 1..Len(b.q) BY <1>e, <1>q, <2>2
    <3>2. CASE j \in 1..Len(b.q)
      BY <1>b, <1>q, <2>2, <3>1, <3>2 DEF Ahead, Rising
    <3>3. CASE j = Len(b.q) + 1
      <4>1. b.q[i] \in Message /\ b.q[i].t = "switch" BY <1>b, <1>q, <2>2, <3>1, ElementOfSeq
      <4>2. b.q[i].gen \in Nat BY <4>1, MessageShape
      <4>3. b.q[i].gen <= b.r.gen BY <1>b, <3>1, <4>1 DEF Ahead, Rising
      <4> QED BY <1>b, <1>q, <2>2, <3>1, <3>3, <4>2, <4>3
    <3> QED BY <1>e, <3>2, <3>3
  <2> QED BY <2>1, <2>2 DEF Rising
<1>2. Ahead(q2, r.gen)
  <2>1. ASSUME NEW g \in Metas \cup {wr.gen}
        PROVE  /\ g <= r.gen
               /\ \A i \in 1..Len(q2) :
                    q2[i].t = "switch" /\ ~(i = 1 /\ wr.pc \in {"meta", "done"}) => g < q2[i].gen
    <3>1. g \in Nat /\ g <= b.r.gen BY <1>b DEF Ahead, Metas, GensOK
    <3>2. ASSUME NEW i \in 1..Len(q2), q2[i].t = "switch", ~(i = 1 /\ wr.pc \in {"meta", "done"})
          PROVE  g < q2[i].gen
      <4>1. CASE i \in 1..Len(b.q)
        BY <1>b, <1>q, <3>2, <4>1 DEF Ahead
      <4>2. CASE i = Len(b.q) + 1
        BY <1>b, <1>q, <3>1, <3>2, <4>2
      <4> QED BY <1>e, <4>1, <4>2
    <3> QED BY <1>b, <3>1, <3>2
  <2> QED BY <1>1, <2>1 DEF Ahead
<1>3. Chained(q2)
  <2> SUFFICES ASSUME NEW i \in 1..Len(q2), q2[i].t = "append"
               PROVE  \E text \in Text : /\ q2[i].text = Append(text, q2[i].id)
                                         /\ Follows(q2, i, q2[i].gen, text, q2[i].rev - 1)
    BY DEF Chained
  <2>1. CASE i \in 1..Len(b.q)
    <3>1. PICK text \in Text : /\ b.q[i].text = Append(text, b.q[i].id)
                               /\ Follows(b.q, i, b.q[i].gen, text, b.q[i].rev - 1)
      BY <1>b, <1>q, <2>1 DEF Chained
    <3>2. i \in 1..(Len(b.q) + 1) BY <1>q, <2>1
    <3>3. Follows(q2, i, b.q[i].gen, text, b.q[i].rev - 1)
      BY <1>b, <1>q, <3>1, <3>2, FollowsGrows
    <3> QED BY <1>q, <2>1, <3>1, <3>3
  <2>2. CASE i = Len(b.q) + 1
    <3>1. PICK text \in Text : /\ m.text = Append(text, m.id)
                               /\ Follows(b.q, Len(b.q) + 1, m.gen, text, m.rev - 1)
      BY <1>q, <2>2
    <3>2. Len(b.q) + 1 \in 1..(Len(b.q) + 1) BY <1>q
    <3>3. Follows(q2, Len(b.q) + 1, m.gen, text, m.rev - 1)
      BY <1>b, <1>q, <3>1, <3>2, FollowsGrows
    <3> QED BY <1>q, <2>2, <3>1, <3>3
  <2> QED BY <1>e, <2>1, <2>2
<1>4. Had(q2, S)
  BY <1>b, <1>q, <1>e DEF Had
<1>5. Sane(c, S)
  BY <1>c, <1>g, <1>2, <1>3, <1>4 DEF Sane
<1> QED BY <1>5 DEF c, q2

\* Changing only the actor's record.
LEMMA SaneRec ==
  ASSUME NEW b, NEW S, Sane(b, S), NEW r \in RecType, r.out \in {0, r.gen}, r.gen = b.r.gen
  PROVE  Sane([b EXCEPT !.r = r], S) /\ [b EXCEPT !.r = r] = [r |-> r, q |-> b.q]
  BY DEF Sane

-----------------------------------------------------------------------------
(* The actor's hooks *)

LEMMA RecSwitchSane ==
  ASSUME NEW b, NEW S, Sane(b, S), GensOK, NEW a \in ActType, a.text \in S,
         NEW lease \in BOOLEAN
  PROVE  Sane(RecSwitch(b, a, lease), S) /\ OnEnd(RecSwitch(b, a, lease), a)
<1>b. /\ b \in [r : RecType, q : Seq(Message)] /\ b.r.out \in {0, b.r.gen}
  BY DEF Sane
<1>1. CASE ~lease
  <2> DEFINE r == [SetOverflow(b.r) EXCEPT !.needs = TRUE, !.held = TRUE]
  <2>1. r \in RecType /\ r.out \in {0, r.gen} /\ r.gen = b.r.gen /\ r.needs
    BY <1>b DEF RecType, SetOverflow
  <2>2. RecSwitch(b, a, lease) = [b EXCEPT !.r = r]
    BY <1>1 DEF RecSwitch
  <2> HIDE DEF r
  <2>3. Sane([b EXCEPT !.r = r], S) /\ [b EXCEPT !.r = r] = [r |-> r, q |-> b.q]
    BY <2>1, SaneRec
  <2> QED BY <2>1, <2>2, <2>3 DEF OnEnd
<1>2. CASE lease
  <2> DEFINE g == b.r.gen + 1
             r == [b.r EXCEPT !.gen = g, !.out = g, !.needs = FALSE, !.held = FALSE,
                              !.repair = IF b.r.overflow THEN g ELSE @,
                              !.written = a.base]
             m == [t |-> "switch", gen |-> g, rev |-> a.rev, text |-> a.text, base |-> a.base]
  <2>1. r \in RecType /\ r.out \in {0, r.gen} /\ r.gen = g /\ b.r.gen \in Nat
    <3>1. /\ b.r \in RecType /\ g \in Nat /\ a.base \in Nat \cup {-1}
          /\ (IF b.r.overflow THEN g ELSE b.r.repair) \in Nat /\ b.r.gen \in Nat
      BY <1>b DEF RecType, ActType
    <3> HIDE DEF g
    <3> QED BY <3>1 DEF RecType
  <2>2. m \in Message /\ m.t = "switch" /\ m.gen = g /\ m.text = a.text /\ m.rev = a.rev
    BY <2>1 DEF Message, ActType
  <2>3. RecSwitch(b, a, lease) = [r |-> r, q |-> Append(b.q, m)]
    BY <1>2 DEF RecSwitch
  <2> HIDE DEF r, m
  <2>4. Sane([r |-> r, q |-> Append(b.q, m)], S)
    BY <2>1, <2>2, SaneAppend
  <2>5. OnEnd([r |-> r, q |-> Append(b.q, m)], a)
    <3>1. Len(Append(b.q, m)) = Len(b.q) + 1 /\ Append(b.q, m)[Len(b.q) + 1] = m /\ Len(b.q) \in Nat
      BY <1>b, <2>2, AppendGrows, LenProperties
    <3>2. Follows(Append(b.q, m), Len(b.q) + 2, g, a.text, a.rev)
      BY <1>b, <2>2, FollowsLast
    <3> QED BY <2>1, <3>1, <3>2 DEF OnEnd
  <2> QED BY <2>3, <2>4, <2>5
<1> QED BY <1>1, <1>2

LEMMA RecRequestSwitchSane ==
  ASSUME NEW b, NEW S, Sane(b, S), GensOK, NEW a \in ActType, a.text \in S,
         NEW lease \in BOOLEAN
  PROVE  Sane(RecRequestSwitch(b, a, lease), S) /\ OnEnd(RecRequestSwitch(b, a, lease), a)
<1> DEFINE r == [b.r EXCEPT !.needs = TRUE]
           n == [b EXCEPT !.r = r]
<1>b. b \in [r : RecType, q : Seq(Message)] /\ b.r.out \in {0, b.r.gen}
  BY DEF Sane
<1>1. r \in RecType /\ r.out \in {0, r.gen} /\ r.gen = b.r.gen /\ r.needs
  BY <1>b DEF RecType
<1>n. [b EXCEPT !.r.needs = TRUE] = n
  BY <1>b
<1> HIDE DEF r
<1>2. Sane(n, S) /\ n = [r |-> r, q |-> b.q]
  BY <1>1, SaneRec
<1>3. RecRequestSwitch(b, a, lease) = IF n.r.out = 0 THEN RecSwitch(n, a, lease) ELSE n
  BY <1>n DEF RecRequestSwitch
<1> HIDE DEF n
<1>4. OnEnd(n, a)
  BY <1>1, <1>2 DEF OnEnd
<1> QED BY <1>2, <1>3, <1>4, RecSwitchSane

\* old is the buffer before the entry, a after it.
LEMMA RecRecordSane ==
  ASSUME NEW b, NEW S, Sane(b, S), GensOK, NEW old \in ActType, NEW a \in ActType, a.text \in S,
         NEW lease \in BOOLEAN, NEW id \in Nat, OnEnd(b, old),
         a.text = Append(old.text, id), a.rev = old.rev + 1
  PROVE  Sane(RecRecord(b, a, id, lease), S) /\ OnEnd(RecRecord(b, a, id, lease), a)
<1>b. b \in [r : RecType, q : Seq(Message)] /\ b.r.out \in {0, b.r.gen}
  BY DEF Sane
<1>1. CASE ~b.r.active
  BY <1>1 DEF RecRecord, OnEnd
<1>2. CASE b.r.active /\ (b.r.needs \/ b.r.held)
  <2>1. RecRecord(b, a, id, lease) = IF b.r.out = 0 THEN RecSwitch(b, a, lease) ELSE b
    BY <1>2 DEF RecRecord
  <2>2. OnEnd(b, a) BY <1>2 DEF OnEnd
  <2> QED BY <2>1, <2>2, RecSwitchSane
<1>3. CASE b.r.active /\ ~(b.r.needs \/ b.r.held) /\ Used(b.q) < QueueCap
  <2> DEFINE m == [t |-> "append", gen |-> b.r.gen, rev |-> a.rev, id |-> id, text |-> a.text]
  <2>1. m \in Message /\ m.t = "append" /\ m.gen = b.r.gen /\ m.text = a.text /\ m.rev = a.rev
        /\ m.id = id /\ b.r \in RecType /\ b.r.gen \in Nat /\ old.text \in Text /\ old.rev \in Nat
    BY <1>b DEF Message, ActType, RecType
  <2>2. RecRecord(b, a, id, lease) = [r |-> b.r, q |-> Append(b.q, m)]
    BY <1>b, <1>3 DEF RecRecord
  <2> HIDE DEF m
  <2>3. Follows(b.q, Len(b.q) + 1, m.gen, old.text, m.rev - 1)
    BY <1>3, <2>1 DEF OnEnd
  <2>e. \E text \in Text : /\ m.text = Append(text, m.id)
                            /\ Follows(b.q, Len(b.q) + 1, m.gen, text, m.rev - 1)
    BY <2>1, <2>3
  <2>4. Sane([r |-> b.r, q |-> Append(b.q, m)], S)
    <3>1. /\ b.r \in RecType /\ b.r.out \in {0, b.r.gen} /\ b.r.gen >= b.r.gen
          /\ m.t # "switch" /\ m.text \in S
      BY <1>b, <2>1
    <3> QED BY <2>1, <3>1, <2>e, SaneAppend
  <2>5. OnEnd([r |-> b.r, q |-> Append(b.q, m)], a)
    <3>1. Len(Append(b.q, m)) = Len(b.q) + 1 /\ Append(b.q, m)[Len(b.q) + 1] = m /\ Len(b.q) \in Nat
      BY <1>b, <2>1, AppendGrows, LenProperties
    <3>2. Follows(Append(b.q, m), Len(b.q) + 2, b.r.gen, a.text, a.rev)
      BY <1>b, <2>1, FollowsLast
    <3> QED BY <3>1, <3>2 DEF OnEnd
  <2> QED BY <2>2, <2>4, <2>5
<1>4. CASE b.r.active /\ ~(b.r.needs \/ b.r.held) /\ ~(Used(b.q) < QueueCap)
  <2> DEFINE n == [b EXCEPT !.r = SetOverflow(b.r)]
  <2>1. SetOverflow(b.r) \in RecType /\ SetOverflow(b.r).out \in {0, SetOverflow(b.r).gen}
        /\ SetOverflow(b.r).gen = b.r.gen
    BY <1>b DEF RecType, SetOverflow
  <2>2. RecRecord(b, a, id, lease) = RecRequestSwitch(n, a, lease)
    BY <1>4 DEF RecRecord
  <2>3. Sane(n, S) BY <2>1, SaneRec
  <2> HIDE DEF n
  <2> QED BY <2>2, <2>3, RecRequestSwitchSane
<1> QED BY <1>1, <1>2, <1>3, <1>4

LEMMA RecDiscardSane ==
  ASSUME NEW b, NEW S, Sane(b, S), GensOK
  PROVE  Sane(RecDiscard(b), S) /\ ~RecDiscard(b).r.active
<1> DEFINE r == [b.r EXCEPT !.active = FALSE, !.held = FALSE, !.needs = FALSE,
                            !.written = -1, !.overflow = FALSE]
           m == [t |-> "discard"]
<1>b. b \in [r : RecType, q : Seq(Message)] /\ b.r.out \in {0, b.r.gen}
  BY DEF Sane
<1>1. r \in RecType /\ r.out \in {0, r.gen} /\ r.gen = b.r.gen /\ ~r.active /\ b.r.gen \in Nat
  BY <1>b DEF RecType
<1>2. m \in Message /\ m.t = "discard"
  BY DEF Message
<1>3. RecDiscard(b) = [r |-> r, q |-> IF b.r.active THEN Append(b.q, m) ELSE b.q]
  BY DEF RecDiscard
<1> HIDE DEF r, m
<1>4. Sane([r |-> r, q |-> Append(b.q, m)], S)
  BY <1>1, <1>2, SaneAppend
<1>5. Sane([b EXCEPT !.r = r], S) /\ [b EXCEPT !.r = r] = [r |-> r, q |-> b.q]
  BY <1>1, SaneRec
<1>6. CASE b.r.active
  BY <1>1, <1>3, <1>4, <1>6
<1>7. CASE ~b.r.active
  BY <1>1, <1>3, <1>5, <1>7
<1> QED BY <1>6, <1>7

LEMMA RecSettleSane ==
  ASSUME NEW b, NEW S, Sane(b, S), GensOK, NEW a \in ActType, a.text \in S,
         NEW lease \in BOOLEAN, OnEnd(b, a)
  PROVE  Sane(RecSettle(b, a, lease), S) /\ OnEnd(RecSettle(b, a, lease), a)
<1> DEFINE r == [b.r EXCEPT !.active = TRUE]
           n == [b EXCEPT !.r = r]
<1>b. b \in [r : RecType, q : Seq(Message)] /\ b.r.out \in {0, b.r.gen}
  BY DEF Sane
<1>1. r \in RecType /\ r.out \in {0, r.gen} /\ r.gen = b.r.gen
  BY <1>b DEF RecType
<1>n. [b EXCEPT !.r.active = TRUE] = n
  BY <1>b
<1>2. Sane(n, S)
  BY <1>1, SaneRec
<1>3. RecSettle(b, a, lease) \in {b, RecRequestSwitch(n, a, lease), RecRequestSwitch(b, a, lease)}
  BY <1>n DEF RecSettle
<1> HIDE DEF n
<1> QED BY <1>2, <1>3, RecRequestSwitchSane

LEMMA RecAnsweredRec ==
  ASSUME NEW r \in RecType, r.out \in {0, r.gen}, sig.done \in Nat, sig.failed \in Nat
  PROVE  LET n == RecAnswered(r) IN
         /\ n \in RecType /\ n.out \in {0, n.gen} /\ n.gen = r.gen
         /\ n.active = r.active
         /\ (n.needs = r.needs /\ n.held = r.held) \/ (n.needs /\ n.held)
<1>1. CASE r.out > 0 /\ sig.done >= r.out /\ r.repair > 0 /\ r.repair <= r.out
  <2>1. RecAnswered(r) = [r EXCEPT !.out = 0, !.repair = 0, !.overflow = FALSE]
    BY <1>1 DEF RecAnswered
  <2>2. RecAnswered(r) \in RecType
    BY <2>1, 0 \in Nat, TRUE \in BOOLEAN, FALSE \in BOOLEAN, Zenon DEF RecType
  <2>3. /\ RecAnswered(r).out = 0 /\ RecAnswered(r).gen = r.gen /\ RecAnswered(r).active = r.active
        /\ RecAnswered(r).needs = r.needs /\ RecAnswered(r).held = r.held
    BY <2>1 DEF RecType
  <2> QED BY <2>2, <2>3
<1>2. CASE r.out > 0 /\ sig.done >= r.out /\ ~(r.repair > 0 /\ r.repair <= r.out)
  <2>1. RecAnswered(r) = [r EXCEPT !.out = 0]
    BY <1>2 DEF RecAnswered
  <2> QED BY <2>1 DEF RecType
<1>3. CASE ~(r.out > 0 /\ sig.done >= r.out) /\ r.out > 0 /\ sig.failed >= r.out
  <2>1. RecAnswered(r) = [r EXCEPT !.out = 0, !.held = TRUE, !.needs = TRUE]
    BY <1>3 DEF RecAnswered
  <2>2. RecAnswered(r) \in RecType
    BY <2>1, 0 \in Nat, TRUE \in BOOLEAN, FALSE \in BOOLEAN, Zenon DEF RecType
  <2>3. /\ RecAnswered(r).out = 0 /\ RecAnswered(r).gen = r.gen /\ RecAnswered(r).active = r.active
        /\ RecAnswered(r).needs = TRUE /\ RecAnswered(r).held = TRUE
    BY <2>1 DEF RecType
  <2> QED BY <2>2, <2>3
<1>4. CASE ~(r.out > 0 /\ sig.done >= r.out) /\ ~(r.out > 0 /\ sig.failed >= r.out)
  <2>1. RecAnswered(r) = r
    BY <1>4 DEF RecAnswered
  <2> QED BY <2>1
<1> QED BY <1>1, <1>2, <1>3, <1>4

LEMMA RecWakeSane ==
  ASSUME NEW b, NEW S, Sane(b, S), GensOK, NEW a \in ActType, a.text \in S,
         NEW lease \in BOOLEAN, OnEnd(b, a),
         sig.done \in Nat, sig.failed \in Nat, sig.asked \in BOOLEAN
  PROVE  Sane(RecWake(b, a, lease), S) /\ OnEnd(RecWake(b, a, lease), a)
<1> DEFINE r == RecAnswered(b.r)
           n == IF ~r.active
                  THEN [r EXCEPT !.needs = FALSE, !.held = FALSE, !.overflow = FALSE]
                  ELSE [r EXCEPT !.needs = @ \/ sig.asked]
           s == [b EXCEPT !.r = n]
<1>b. b \in [r : RecType, q : Seq(Message)] /\ b.r.out \in {0, b.r.gen}
  BY DEF Sane
<1>1. /\ r \in RecType /\ r.out \in {0, r.gen} /\ r.gen = b.r.gen /\ r.active = b.r.active
      /\ (r.needs = b.r.needs /\ r.held = b.r.held) \/ (r.needs /\ r.held)
  BY <1>b, RecAnsweredRec
<1>2. RecWake(b, a, lease) =
        IF n.active /\ n.needs /\ ~n.held /\ n.out = 0 THEN RecSwitch(s, a, lease) ELSE s
  BY DEF RecWake
<1> HIDE DEF r
<1>3. /\ n \in RecType /\ n.out \in {0, n.gen} /\ n.gen = b.r.gen
      /\ n.active /\ ~n.needs /\ ~n.held => b.r.active /\ ~b.r.needs /\ ~b.r.held
  BY <1>1 DEF RecType
<1> HIDE DEF n
<1>4. Sane(s, S) /\ s = [r |-> n, q |-> b.q]
  BY <1>3, SaneRec
<1> HIDE DEF s
<1>5. OnEnd(s, a)
  BY <1>3, <1>4 DEF OnEnd
<1> QED BY <1>2, <1>4, <1>5, RecSwitchSane

\* A flush token does not come between.
LEMMA FollowsFlush ==
  ASSUME NEW q \in Seq(Message), NEW m \in Message, m.t = "flush",
         NEW g, NEW text, NEW rev, Follows(q, Len(q) + 1, g, text, rev)
  PROVE  Follows(Append(q, m), Len(q) + 2, g, text, rev)
<1> DEFINE q2 == Append(q, m)
<1>1. Len(q) \in Nat /\ q2[Len(q) + 1] = m /\ \A i \in 1..Len(q) : q2[i] = q[i]
  BY AppendGrows, LenProperties
<1> HIDE DEF q2
<1>2. CASE \E j \in 1..((Len(q) + 1) - 1) :
             /\ q[j].t \in {"switch", "append"}
             /\ q[j].gen = g /\ q[j].text = text /\ q[j].rev = rev
             /\ \A k \in (j + 1)..((Len(q) + 1) - 1) : q[k].t = "flush"
  <2>1. PICK j \in 1..((Len(q) + 1) - 1) :
             /\ q[j].t \in {"switch", "append"}
             /\ q[j].gen = g /\ q[j].text = text /\ q[j].rev = rev
             /\ \A k \in (j + 1)..((Len(q) + 1) - 1) : q[k].t = "flush"
    BY <1>2
  <2>2. j \in 1..Len(q) /\ j \in 1..((Len(q) + 2) - 1) /\ q2[j] = q[j]
    BY <1>1, <2>1
  <2>3. \A k \in (j + 1)..((Len(q) + 2) - 1) : q2[k].t = "flush"
    BY <1>1, <2>1, <2>2
  <2>4. Follows(q2, Len(q) + 2, g, text, rev)
    BY <2>1, <2>2, <2>3 DEF Follows
  <2> QED BY <2>4 DEF q2
<1>3. CASE (\A k \in 1..((Len(q) + 1) - 1) : q[k].t = "flush") /\ AtWriter(g, text, rev)
  <2>1. \A k \in 1..((Len(q) + 2) - 1) : q2[k].t = "flush"
    BY <1>1, <1>3
  <2> QED BY <1>3, <2>1 DEF Follows, q2
<1> QED BY <1>2, <1>3 DEF Follows

LEMMA PlaceTokenSane ==
  ASSUME NEW b, NEW S, Sane(b, S), GensOK, NEW a
  PROVE  /\ PlaceToken(b) \in Seq(Message)
         /\ Sane([r |-> b.r, q |-> PlaceToken(b)], S)
         /\ OnEnd(b, a) => OnEnd([r |-> b.r, q |-> PlaceToken(b)], a)
<1> DEFINE m == [t |-> "flush", of |-> "actor"]
<1>b. b \in [r : RecType, q : Seq(Message)] /\ b.r.out \in {0, b.r.gen}
  BY DEF Sane
<1>m. m \in Message /\ m.t = "flush"
  BY DEF Message
<1>1. CASE PlaceToken(b) = b.q
  <2>1. [r |-> b.r, q |-> b.q] = b BY <1>b
  <2> QED BY <1>b, <1>1, <2>1
<1>2. CASE PlaceToken(b) = Append(b.q, m)
  <2> HIDE DEF m
  <2>1. b.r \in RecType /\ b.r.gen \in Nat /\ b.q \in Seq(Message)
    BY <1>b DEF RecType
  <2>2. Sane([r |-> b.r, q |-> Append(b.q, m)], S)
    <3>1. m.t # "switch" /\ m.t # "append" /\ b.r.gen >= b.r.gen BY <1>m, <2>1
    <3> QED BY <1>b, <1>m, <2>1, <3>1, SaneAppend
  <2>3. ASSUME OnEnd(b, a) PROVE OnEnd([r |-> b.r, q |-> Append(b.q, m)], a)
    <3>1. Len(Append(b.q, m)) = Len(b.q) + 1 /\ Len(b.q) \in Nat
      BY <1>m, <2>1, AppendGrows, LenProperties
    <3>2. ASSUME Follows(b.q, Len(b.q) + 1, b.r.gen, a.text, a.rev)
          PROVE  Follows(Append(b.q, m), Len(b.q) + 2, b.r.gen, a.text, a.rev)
      BY <1>m, <2>1, <3>2, FollowsFlush
    <3>3. (Len(b.q) + 1) + 1 = Len(b.q) + 2 BY <3>1
    <3> QED BY <2>3, <3>1, <3>2, <3>3 DEF OnEnd
  <2> QED BY <1>2, <1>m, <2>1, <2>2, <2>3, AppendGrows
<1> QED BY <1>1, <1>2 DEF PlaceToken

LEMMA SaneMono ==
  ASSUME NEW b, NEW S, NEW T, Sane(b, S), S \subseteq T
  PROVE  Sane(b, T)
  BY DEF Sane, Had

LEMMA RecSane ==
  ASSUME TypeOK, RecoveryInv, act.pc # "restoring"
  PROVE  /\ GensOK /\ Sane(Rec, seen)
         /\ act.pc \in {"up", "saving"} => OnEnd(Rec, act)
<1>1. GensOK
  BY DEF TypeOK, GensOK, Directory
<1>2. rec \in RecType /\ rec.out \in {0, rec.gen} /\ queue \in Seq(Message)
  BY DEF TypeOK, RecType
<1>3. Rec.r = rec /\ Rec.q = queue /\ Rec \in [r : RecType, q : Seq(Message)]
  BY <1>2 DEF Rec
<1>4. Ahead(queue, rec.gen) /\ Chained(queue) /\ Had(queue, seen)
  BY DEF RecoveryInv, Top
<1>5. Grows(queue, queue)
  BY <1>2, LenProperties DEF Grows
<1>6. act.pc \in {"up", "saving"} => OnEnd(Rec, act)
  BY DEF RecoveryInv, Attached
<1> QED BY <1>1, <1>2, <1>3, <1>4, <1>5, <1>6 DEF Sane

-----------------------------------------------------------------------------
(* Steps that leave the files and the writer alone *)

LEMMA SoundMono ==
  ASSUME seen \subseteq seen', UNCHANGED files, NEW g, Sound(g)
  PROVE  Sound(g)'
  BY DEF Sound, TextAt

LEMMA FollowsFrame ==
  ASSUME \A g, text, rev : AtWriter(g, text, rev) => AtWriter(g, text, rev)',
         NEW q, NEW i, NEW g0, NEW text0, NEW rev0, Follows(q, i, g0, text0, rev0)
  PROVE  Follows(q, i, g0, text0, rev0)'
  BY DEF Follows

LEMMA ChainedFrame ==
  ASSUME \A g, text, rev : AtWriter(g, text, rev) => AtWriter(g, text, rev)',
         NEW q, Chained(q)
  PROVE  Chained(q)'
  BY FollowsFrame DEF Chained

LEMMA HeadGrows ==
  ASSUME NEW q \in Seq(Message), NEW q2 \in Seq(Message), Grows(q, q2), q # <<>>
  PROVE  q2 # <<>> /\ Head(q2) = Head(q)
<1>1. Len(q) \in Nat /\ Len(q) > 0 /\ Head(q) = q[1]
  BY HeadTailProperties, EmptySeq, LenProperties
<1>2. Len(q2) > 0 /\ Len(q2) \in Nat /\ q2[1] = q[1]
  BY <1>1, LenProperties DEF Grows
<1> QED BY <1>1, <1>2, HeadTailProperties, EmptySeq

LEMMA ActorInv ==
  ASSUME TypeOK, RecoveryInv, NEW q2 \in Seq(Message), NEW r2 \in RecType,
         NEW a2 \in ActType, NEW S,
         Sane([r |-> r2, q |-> q2], S), a2.pc # "restoring",
         a2.pc \in {"up", "saving"} => OnEnd([r |-> r2, q |-> q2], a2),
         act' = a2, rec' = r2, queue' = q2, seen' = S, seen \subseteq S,
         UNCHANGED <<wr, failed, vol, dur, files>>
  PROVE  RecoveryInv'
<1> DEFINE b == [r |-> r2, q |-> q2]
<1>b. /\ b.q = q2 /\ b.r = r2 /\ Grows(queue, q2) /\ queue \in Seq(Message)
      /\ Ahead(q2, r2.gen) /\ Chained(q2) /\ Had(q2, S)
  BY DEF Sane, TypeOK
<1>1. Backed'
  BY DEF RecoveryInv, Backed, Metas
<1>2. Soundness'
  <2>1. ((Metas \cup {wr.gen}) \ {0})' = (Metas \cup {wr.gen}) \ {0} BY DEF Metas
  <2> QED BY <2>1, SoundMono DEF RecoveryInv, Soundness
<1>3. Staged'
  <2>1. queue # <<>> => q2 # <<>> /\ Head(q2) = Head(queue)
    BY <1>b, HeadGrows
  <2> QED BY <2>1 DEF RecoveryInv, Staged, Msg, InSwitch
<1>4. Ahead(queue, Top)'
  <2>1. Top' = r2.gen BY DEF Top
  <2> QED BY <1>b, <2>1 DEF Ahead, Rising, Metas
<1>5. Chained(queue)'
  <2>1. \A g, text, rev : AtWriter(g, text, rev) => AtWriter(g, text, rev)'
    BY DEF AtWriter, TextAt
  <2>2. Chained(q2)'
    BY <1>b, <2>1, ChainedFrame
  <2> QED BY <2>2 DEF Chained, Follows
<1>6. Had(queue, seen)'
  BY <1>b DEF Had
<1>7. Attached'
  <2>1. Rec' = b BY DEF Rec
  <2> HIDE DEF b
  <2>2. ASSUME OnEnd(b, a2) PROVE OnEnd(Rec, act)'
    BY <2>1, <2>2 DEF OnEnd, Follows, AtWriter, TextAt
  <2> QED BY <2>2 DEF Attached, b
<1>8. NoStaleAppend'
  BY DEF RecoveryInv, NoStaleAppend
<1> QED BY <1>1, <1>2, <1>3, <1>4, <1>5, <1>6, <1>7, <1>8 DEF RecoveryInv

LEMMA StutterInv ==
  ASSUME RecoveryInv, UNCHANGED <<act, rec, queue, wr, failed, vol, dur, files, seen>>
  PROVE  RecoveryInv'
<1>1. Backed' BY DEF RecoveryInv, Backed, Metas
<1>2. Soundness' BY DEF RecoveryInv, Soundness, Metas, Sound, TextAt
<1>3. Staged' BY DEF RecoveryInv, Staged, InSwitch, Msg
<1>4. Ahead(queue, Top)' BY DEF RecoveryInv, Ahead, Rising, Metas, Top
<1>5. Chained(queue)'
  <2>1. \A g, text, rev : AtWriter(g, text, rev) => AtWriter(g, text, rev)'
    BY DEF AtWriter, TextAt
  <2>2. PICK q : q = queue OBVIOUS
  <2>3. Chained(q)' BY <2>1, <2>2, ChainedFrame DEF RecoveryInv
  <2>4. queue' = q BY <2>2
  <2> QED BY <2>3, <2>4 DEF Chained, Follows
<1>6. Had(queue, seen)' BY DEF RecoveryInv, Had
<1>7. Attached' BY DEF RecoveryInv, Attached, OnEnd, Rec, Follows, AtWriter, TextAt
<1>8. NoStaleAppend' BY DEF RecoveryInv, NoStaleAppend
<1> QED BY <1>1, <1>2, <1>3, <1>4, <1>5, <1>6, <1>7, <1>8 DEF RecoveryInv

-----------------------------------------------------------------------------
(* Types *)

PlanType ==
  [edits : Nat, saves : Nat, reloads : Nat, faults : Nat, slips : Nat, crashes : Nat,
   flushes : Nat, leases : Nat]
SigType == [asked : BOOLEAN, done : Nat, failed : Nat, bell : BOOLEAN, token : BOOLEAN]
WrType ==
  [pc : {"idle", "snap", "log", "dir", "meta", "done", "discard"}, gen : Nat,
   open : BOOLEAN, due : BOOLEAN, compact : BOOLEAN, stray : SUBSET Nat, stale : BOOLEAN]
Record == [rev : Nat, id : Nat]
FilesType(f) ==
  f \in [snap   : [DOMAIN f.snap -> [rev : Nat, text : Text]],
         log    : [DOMAIN f.log -> Seq(Record)],
         synced : [DOMAIN f.log -> Nat]]
DocType == [now : Document, dur : Document, saves : Nat]
FlushType ==
  [pc : {"none", "wait", "synced", "unsynced"}, left : SUBSET {"actor", "daemon"}, text : Text]

ActorTypes ==
  /\ act \in ActType /\ rec \in RecType /\ rec.out \in {0, rec.gen} /\ sig \in SigType
  /\ queue \in Seq(Message) /\ seen \subseteq Text
WriterTypes ==
  /\ wr \in WrType /\ failed \in BOOLEAN /\ vol \in Directory /\ dur \in Directory
  /\ FilesType(files)
OtherTypes ==
  /\ plan \in PlanType /\ doc \in DocType /\ flush \in FlushType /\ made \in Nat
  /\ safe \in Text /\ kept \in Text

LEMMA TypeParts == TypeOK <=> ActorTypes /\ WriterTypes /\ OtherTypes
  BY DEF TypeOK, ActorTypes, WriterTypes, OtherTypes, ActType, RecType, SigType, WrType,
         FilesType, Record, PlanType, DocType, FlushType

LEMMA TypeNext ==
  ASSUME ActorTypes', WriterTypes', OtherTypes'
  PROVE  TypeOK'
  BY DEF TypeOK, ActorTypes, WriterTypes, OtherTypes, ActType, RecType, SigType, WrType,
         FilesType, Record, PlanType, DocType, FlushType

LEMMA SpendType ==
  ASSUME plan \in PlanType, NEW E, Spend(E)
  PROVE  plan' \in PlanType
<1>1. DOMAIN plan = {"edits", "saves", "reloads", "faults", "slips", "crashes", "flushes", "leases"}
  BY DEF PlanType
<1>2. \A e \in DOMAIN plan : plan[e] \in Nat
  BY <1>1 DEF PlanType
<1>3. \A e \in DOMAIN plan : (IF e \in E THEN plan[e] - 1 ELSE plan[e]) \in Nat
  BY <1>2 DEF Spend
<1>4. plan' = [e \in DOMAIN plan |-> IF e \in E THEN plan[e] - 1 ELSE plan[e]]
  BY DEF Spend
<1> QED BY <1>1, <1>3, <1>4 DEF PlanType

LEMMA LongerType ==
  ASSUME NEW s \in Text, NEW t \in Text
  PROVE  Longer(s, t) \in Text
  BY DEF Longer

-----------------------------------------------------------------------------
(* The actor's messages *)

LEMMA ActorStepInv ==
  ASSUME TypeOK, RecoveryInv, NEW b, NEW a \in ActType, a.pc = "up",
         NEW lease \in BOOLEAN, NEW bell \in BOOLEAN,
         Sane(b, seen \cup {a.text}), OnEnd(b, a), ActorStep(b, a, lease, bell)
  PROVE  RecoveryInv' /\ ActorTypes' /\ WriterTypes'
<1> DEFINE S == seen \cup {a.text}
           w == RecWake(RecSettle(b, a, lease), a, lease)
           q2 == PlaceToken(w)
<1>1. GensOK /\ ActorTypes /\ WriterTypes
  BY TypeParts DEF TypeOK, GensOK, Directory
<1>s. sig \in SigType /\ sig.done \in Nat /\ sig.failed \in Nat /\ sig.asked \in BOOLEAN
  BY <1>1 DEF ActorTypes, SigType
<1>2. a.text \in S /\ seen \subseteq S /\ S \subseteq Text
  BY <1>1 DEF ActorTypes, ActType
<1>3. /\ act' = a /\ rec' = w.r /\ queue' = q2 /\ seen' = S
      /\ sig' = [sig EXCEPT !.asked = FALSE, !.bell = bell, !.token = @ /\ q2 = w.q]
      /\ UNCHANGED <<wr, failed, vol, dur, files>>
  BY DEF ActorStep
<1>4. Sane(RecSettle(b, a, lease), S) /\ OnEnd(RecSettle(b, a, lease), a)
  BY <1>1, <1>2, RecSettleSane
<1> HIDE DEF S
<1>5. Sane(w, S) /\ OnEnd(w, a)
  BY <1>1, <1>2, <1>s, <1>4, RecWakeSane
<1> HIDE DEF w
<1>6. q2 \in Seq(Message) /\ Sane([r |-> w.r, q |-> q2], S) /\ OnEnd([r |-> w.r, q |-> q2], a)
  BY <1>1, <1>5, PlaceTokenSane
<1>7. w.r \in RecType /\ w.r.out \in {0, w.r.gen}
  BY <1>5 DEF Sane
<1> HIDE DEF q2
<1>8. sig' \in SigType
  BY <1>s, <1>3 DEF SigType
<1>9. RecoveryInv'
  BY <1>2, <1>3, <1>6, <1>7, ActorInv
<1>10. ActorTypes'
  BY <1>2, <1>3, <1>6, <1>7, <1>8 DEF ActorTypes
<1>11. WriterTypes'
  BY <1>1, <1>3 DEF WriterTypes, FilesType
<1> QED BY <1>9, <1>10, <1>11

EInv == TypeOK /\ RecoveryInv

LEMMA EditInv ==
  ASSUME EInv, NEW lease \in BOOLEAN, Edit(lease)
  PROVE  EInv'
<1> DEFINE a == [act EXCEPT !.text = Append(@, made + 1), !.rev = @ + 1]
           b == RecRecord(Rec, a, made + 1, lease)
           S == seen \cup {a.text}
<1>1. TypeOK /\ RecoveryInv /\ act.pc = "up" /\ ActorTypes /\ OtherTypes
  BY TypeParts DEF EInv, Edit
<1>2. /\ act \in ActType /\ made \in Nat /\ made + 1 \in Nat /\ act.text \in Text
  BY <1>1 DEF ActorTypes, OtherTypes, ActType
<1>3. Append(act.text, made + 1) \in Text
  BY <1>2, AppendProperties DEF Text
<1>4. a \in ActType /\ a.pc = "up" /\ a.text = Append(act.text, made + 1) /\ a.rev = act.rev + 1
  <2> DEFINE t == Append(act.text, made + 1)
             v == act.rev + 1
  <2>1. t \in Text /\ v \in Nat BY <1>2, <1>3 DEF ActType
  <2>2. a = [act EXCEPT !.text = t, !.rev = v] OBVIOUS
  <2> HIDE DEF t, v, a
  <2>3. a \in ActType BY <1>2, <2>1, <2>2 DEF ActType
  <2>4. a.pc = act.pc /\ a.text = t /\ a.rev = v BY <1>2, <2>2 DEF ActType
  <2> QED BY <1>1, <2>3, <2>4 DEF t, v
<1>5. /\ Spend({"edits"} \cup Unleased(lease)) /\ made' = made + 1
      /\ ActorStep(b, a, lease, sig.bell) /\ UNCHANGED <<doc, flush, kept, safe>>
  BY DEF Edit
<1>6. GensOK /\ Sane(Rec, seen) /\ OnEnd(Rec, act) /\ a.text \in S /\ seen \subseteq S
  BY <1>1, RecSane
<1> HIDE DEF a, S
<1>s. Sane(Rec, S)
  BY <1>6, SaneMono
<1>7. Sane(b, S) /\ OnEnd(b, a)
  BY <1>2, <1>4, <1>6, <1>s, RecRecordSane
<1>8. sig.bell \in BOOLEAN
  BY <1>1 DEF ActorTypes, SigType
<1> HIDE DEF b
<1>9. RecoveryInv' /\ ActorTypes' /\ WriterTypes'
  BY <1>1, <1>4, <1>5, <1>7, <1>8, ActorStepInv DEF S
<1>10. OtherTypes'
  BY <1>1, <1>2, <1>5, SpendType DEF OtherTypes
<1> QED BY <1>9, <1>10, TypeNext DEF EInv

LEMMA WakeInv ==
  ASSUME EInv, NEW lease \in BOOLEAN, Wake(lease)
  PROVE  EInv'
<1>1. TypeOK /\ RecoveryInv /\ act.pc = "up" /\ act \in ActType /\ OtherTypes
  BY TypeParts DEF EInv, Wake, ActorTypes
<1>2. /\ Spend(Unleased(lease)) /\ ActorStep(Rec, act, lease, FALSE)
      /\ UNCHANGED <<doc, flush, made, kept, safe>>
  BY DEF Wake
<1>3. Sane(Rec, seen) /\ OnEnd(Rec, act)
  BY <1>1, RecSane
<1>4. Sane(Rec, seen \cup {act.text})
  BY <1>3, SaneMono
<1>5. RecoveryInv' /\ ActorTypes' /\ WriterTypes'
  BY <1>1, <1>2, <1>3, <1>4, ActorStepInv
<1>6. OtherTypes'
  BY <1>1, <1>2, SpendType DEF OtherTypes
<1> QED BY <1>5, <1>6, TypeNext DEF EInv

LEMMA SaveDoneInv ==
  ASSUME EInv, NEW lease \in BOOLEAN, SaveDone(lease)
  PROVE  EInv'
<1> DEFINE a == [act EXCEPT !.pc = "up", !.base = doc.now.ver, !.saved = act.rev,
                            !.restored = @ /\ ~act.durable]
           b == IF act.durable THEN RecDiscard(Rec) ELSE Rec
<1>1. /\ TypeOK /\ RecoveryInv /\ act.pc = "saving" /\ act \in ActType /\ OtherTypes
      /\ sig.bell \in BOOLEAN
  BY TypeParts DEF EInv, SaveDone, ActorTypes, SigType
<1>2. /\ Spend(Unleased(lease)) /\ ActorStep(b, a, lease, sig.bell)
      /\ UNCHANGED <<doc, flush, made, kept, safe>>
  BY DEF SaveDone
<1>3. a \in ActType /\ a.pc = "up" /\ a.text = act.text /\ a.rev = act.rev
  <2>1. doc.now.ver \in Nat /\ act.rev \in Nat /\ (act.restored /\ ~act.durable) \in BOOLEAN
    BY <1>1 DEF OtherTypes, DocType, Document, ActType
  <2> QED BY <1>1, <2>1 DEF ActType
<1>4. GensOK /\ Sane(Rec, seen) /\ OnEnd(Rec, act)
  BY <1>1, RecSane
<1> HIDE DEF a
<1>5. Sane(Rec, seen \cup {a.text}) /\ OnEnd(Rec, a)
  BY <1>3, <1>4, SaneMono DEF OnEnd
<1>6. Sane(b, seen \cup {a.text}) /\ OnEnd(b, a)
  <2>1. Sane(RecDiscard(Rec), seen \cup {a.text}) /\ ~RecDiscard(Rec).r.active
    BY <1>4, <1>5, RecDiscardSane
  <2>2. OnEnd(RecDiscard(Rec), a) BY <2>1 DEF OnEnd
  <2> QED BY <1>5, <2>1, <2>2
<1> HIDE DEF b
<1>7. RecoveryInv' /\ ActorTypes' /\ WriterTypes'
  BY <1>1, <1>2, <1>3, <1>6, ActorStepInv
<1>8. OtherTypes'
  BY <1>1, <1>2, SpendType DEF OtherTypes
<1> QED BY <1>7, <1>8, TypeNext DEF EInv

\* Forget keeps the types of the history.
LEMMA ForgetType ==
  ASSUME OtherTypes, Forget
  PROVE  flush' \in FlushType /\ safe' \in Text /\ kept' \in Text
<1>1. <<>> \in Text BY DEF Text
<1> QED BY <1>1 DEF Forget, OtherTypes, FlushType

LEMMA ReloadInv ==
  ASSUME EInv, NEW lease \in BOOLEAN, Reload(lease)
  PROVE  EInv'
<1> DEFINE v == IF doc.now.text = act.text THEN act.rev ELSE act.rev + 1
           a == [act EXCEPT !.text = doc.now.text, !.rev = v, !.saved = v,
                            !.base = doc.now.ver, !.restored = FALSE]
           b == RecDiscard(Rec)
<1>1. /\ TypeOK /\ RecoveryInv /\ act.pc = "up" /\ act \in ActType /\ OtherTypes
      /\ sig.bell \in BOOLEAN
  BY TypeParts DEF EInv, Reload, ActorTypes, SigType
<1>2. /\ Spend({"reloads"} \cup Unleased(lease)) /\ ActorStep(b, a, lease, sig.bell)
      /\ Forget /\ UNCHANGED <<doc, made>>
  BY DEF Reload
<1>3. a \in ActType /\ a.pc = "up"
  <2>1. doc.now.ver \in Nat /\ doc.now.text \in Text /\ v \in Nat
    BY <1>1 DEF OtherTypes, DocType, Document, ActType
  <2> HIDE DEF v
  <2> QED BY <1>1, <2>1 DEF ActType
<1>4. GensOK /\ Sane(Rec, seen)
  BY <1>1, RecSane
<1> HIDE DEF a
<1>5. Sane(Rec, seen \cup {a.text})
  BY <1>4, SaneMono
<1>6. Sane(b, seen \cup {a.text}) /\ ~b.r.active
  BY <1>4, <1>5, RecDiscardSane
<1>7. OnEnd(b, a) BY <1>6 DEF OnEnd
<1> HIDE DEF b
<1>8. RecoveryInv' /\ ActorTypes' /\ WriterTypes'
  BY <1>1, <1>2, <1>3, <1>6, <1>7, ActorStepInv
<1>9. OtherTypes'
  BY <1>1, <1>2, SpendType, ForgetType DEF OtherTypes
<1> QED BY <1>8, <1>9, TypeNext DEF EInv

LEMMA RestoredInv ==
  ASSUME EInv, NEW lease \in BOOLEAN, Restored(lease)
  PROVE  EInv'
<1> DEFINE g == IF act.restored THEN rec.gen + 1 ELSE rec.gen
           r == [NoRec EXCEPT !.gen = g, !.active = act.restored,
                         !.needs = act.restored /\ (wr.gen # g \/ failed),
                         !.written = IF act.restored THEN act.base ELSE -1]
           a == [act EXCEPT !.pc = "up"]
           b == [r |-> r, q |-> queue]
<1>1. /\ TypeOK /\ RecoveryInv /\ act.pc = "restoring" /\ act \in ActType /\ OtherTypes
      /\ queue = <<>> /\ ActorTypes /\ WriterTypes
  BY TypeParts DEF EInv, Restored, ActorTypes
<1>2. /\ Spend(Unleased(lease)) /\ ActorStep(b, a, lease, FALSE)
      /\ UNCHANGED <<doc, flush, made, kept, safe>>
  BY DEF Restored
<1>3. a \in ActType /\ a.pc = "up" /\ a.text = act.text /\ a.rev = act.rev
  BY <1>1 DEF ActType
<1>4. g \in Nat /\ act.base \in Nat /\ g = Top /\ act.restored \in BOOLEAN /\ wr.gen \in Nat
      /\ failed \in BOOLEAN
  BY <1>1 DEF ActorTypes, WriterTypes, RecType, ActType, Top, WrType
<1>5. /\ r \in RecType /\ r.out = 0 /\ r.gen = g
      /\ r.active /\ ~r.needs => act.restored /\ wr.gen = g /\ ~failed
  <2> DEFINE n == act.restored /\ (wr.gen # g \/ failed)
             w == IF act.restored THEN act.base ELSE -1
  <2>1. n \in BOOLEAN /\ w \in Nat \cup {-1}
    BY <1>4
  <2>2. r = [NoRec EXCEPT !.gen = g, !.active = act.restored, !.needs = n, !.written = w]
    OBVIOUS
  <2>3. act.restored /\ ~n => wr.gen = g /\ ~failed
    OBVIOUS
  <2> HIDE DEF n, w, r, g
  <2>4. r = [gen |-> g, out |-> 0, needs |-> n, active |-> act.restored, held |-> FALSE,
             overflow |-> FALSE, repair |-> 0, written |-> w]
    BY <2>2 DEF NoRec
  <2> QED BY <1>4, <2>1, <2>3, <2>4 DEF RecType
<1> HIDE DEF r, g, a
<1>6. b.r = r /\ b.q = queue /\ b \in [r : RecType, q : Seq(Message)] /\ Len(queue) = 0
  BY <1>1, <1>5 DEF ActorTypes
<1>7. Sane(b, seen)
  <2>1. Ahead(queue, g) /\ Chained(queue) /\ Had(queue, seen)
    BY <1>1, <1>4 DEF RecoveryInv
  <2>2. Grows(queue, queue) BY <1>6 DEF Grows
  <2> QED BY <1>5, <1>6, <2>1, <2>2 DEF Sane
<1>8. OnEnd(b, a)
  <2> SUFFICES ASSUME act.restored, wr.gen = g, ~failed
               PROVE  Follows(queue, Len(queue) + 1, g, a.text, a.rev)
    BY <1>5, <1>6 DEF OnEnd
  <2>1. g = rec.gen + 1 BY DEF g
  <2> QED BY <1>1, <1>3, <2>1 DEF RecoveryInv, Attached
<1>9. Sane(b, seen \cup {a.text})
  BY <1>7, SaneMono
<1> HIDE DEF b
<1>10. RecoveryInv' /\ ActorTypes' /\ WriterTypes'
  BY <1>1, <1>2, <1>3, <1>8, <1>9, ActorStepInv
<1>11. OtherTypes'
  BY <1>1, <1>2, SpendType DEF OtherTypes
<1> QED BY <1>10, <1>11, TypeNext DEF EInv

LEMMA SaveWriteInv ==
  ASSUME EInv, NEW durable \in BOOLEAN, NEW force \in BOOLEAN, SaveWrite(durable, force)
  PROVE  EInv'
<1> DEFINE new == [text |-> act.text, ver |-> doc.saves + 1]
           a == [act EXCEPT !.pc = "saving", !.durable = durable]
<1>1. /\ TypeOK /\ RecoveryInv /\ act.pc = "up" /\ act \in ActType /\ OtherTypes
      /\ ActorTypes /\ WriterTypes /\ queue \in Seq(Message) /\ rec \in RecType
  BY TypeParts DEF EInv, SaveWrite, ActorTypes
<1>2. /\ plan' \in PlanType
      /\ doc' = [now |-> new, dur |-> IF durable THEN new ELSE doc.dur, saves |-> doc.saves + 1]
      /\ act' = a
      /\ UNCHANGED <<flush, kept, safe>> \/ Forget
      /\ UNCHANGED <<rec, sig, queue, wr, failed, vol, dur, files, made, seen>>
  BY <1>1, SpendType DEF SaveWrite, OtherTypes
<1>3. a \in ActType /\ a.pc = "saving" /\ a.text = act.text /\ a.rev = act.rev
  BY <1>1 DEF ActType
<1>4. Sane(Rec, seen) /\ OnEnd(Rec, act)
  BY <1>1, RecSane
<1> HIDE DEF a
<1>5. Sane([r |-> rec, q |-> queue], seen) /\ OnEnd([r |-> rec, q |-> queue], a)
  BY <1>3, <1>4 DEF OnEnd, Rec
<1>6. RecoveryInv'
  BY <1>1, <1>2, <1>3, <1>5, ActorInv
<1>7. ActorTypes' /\ WriterTypes'
  BY <1>1, <1>2, <1>3 DEF ActorTypes, WriterTypes, FilesType
<1>8. doc' \in DocType
  <2>1. new \in Document /\ doc.dur \in Document /\ doc.saves + 1 \in Nat
    BY <1>1 DEF OtherTypes, DocType, Document, ActType
  <2> HIDE DEF new
  <2> QED BY <1>2, <2>1 DEF DocType
<1>9. flush' \in FlushType /\ safe' \in Text /\ kept' \in Text
  BY <1>1, <1>2, ForgetType DEF OtherTypes
<1>10. OtherTypes'
  BY <1>1, <1>2, <1>8, <1>9 DEF OtherTypes
<1> QED BY <1>6, <1>7, <1>10, TypeNext DEF EInv

LEMMA CloseInv ==
  ASSUME EInv, NEW force \in BOOLEAN, Close(force)
  PROVE  EInv'
<1> DEFINE b == IF force THEN RecDiscard(Rec) ELSE Rec
           m == [t |-> "flush", of |-> "actor"]
           a == [act EXCEPT !.pc = "closed"]
           r == [b.r EXCEPT !.overflow = FALSE]
<1>1. /\ TypeOK /\ RecoveryInv /\ act.pc = "up" /\ act \in ActType /\ OtherTypes
      /\ ActorTypes /\ WriterTypes
  BY TypeParts DEF EInv, Close, ActorTypes
<1>2. /\ plan' \in PlanType /\ act' = a /\ rec' = r
      /\ queue' = Append(b.q, m) \/ queue' = b.q
      /\ sig' = NoSig /\ Forget
      /\ UNCHANGED <<wr, failed, vol, dur, files, doc, made, seen>>
  BY <1>1, SpendType DEF Close, OtherTypes
<1>3. a \in ActType /\ a.pc = "closed"
  BY <1>1 DEF ActType
<1>m. m \in Message /\ m.t = "flush"
  BY DEF Message
<1>4. GensOK /\ Sane(Rec, seen)
  BY <1>1, RecSane
<1>5. Sane(b, seen)
  BY <1>4, RecDiscardSane
<1> HIDE DEF a, b, m
<1>6. b.r \in RecType /\ b.r.out \in {0, b.r.gen} /\ b.q \in Seq(Message)
  BY <1>5 DEF Sane
<1>7. r \in RecType /\ r.out \in {0, r.gen} /\ r.gen = b.r.gen /\ r.gen >= b.r.gen
  <2>1. r \in RecType BY <1>6, FALSE \in BOOLEAN, Zenon DEF RecType
  <2>2. r.out = b.r.out /\ r.gen = b.r.gen /\ b.r.gen \in Nat BY <1>6 DEF RecType
  <2> HIDE DEF r
  <2> QED BY <1>6, <2>1, <2>2
<1> HIDE DEF r
<1>8. Sane([r |-> r, q |-> Append(b.q, m)], seen)
  <2>1. m.t # "switch" /\ m.t # "append" BY <1>m
  <2> QED BY <1>4, <1>5, <1>m, <1>7, <2>1, SaneAppend
<1>9. Sane([r |-> r, q |-> b.q], seen)
  <2>1. Sane([b EXCEPT !.r = r], seen) /\ [b EXCEPT !.r = r] = [r |-> r, q |-> b.q]
    BY <1>5, <1>7, SaneRec
  <2> QED BY <2>1
<1>10. Sane([r |-> r, q |-> queue'], seen) /\ queue' \in Seq(Message)
  BY <1>2, <1>6, <1>8, <1>9, <1>m, AppendGrows
<1>11. RecoveryInv'
  <2>1. PICK q2 \in Seq(Message) : q2 = queue' BY <1>10
  <2> QED BY <1>1, <1>2, <1>3, <1>7, <1>10, <2>1, ActorInv
<1>12. ActorTypes'
  BY <1>1, <1>2, <1>3, <1>7, <1>10 DEF ActorTypes, NoSig, SigType
<1>13. WriterTypes'
  BY <1>1, <1>2 DEF WriterTypes, FilesType
<1>14. OtherTypes'
  BY <1>1, <1>2, ForgetType DEF OtherTypes
<1> QED BY <1>11, <1>12, <1>13, <1>14, TypeNext DEF EInv

LEMMA FlushAskInv ==
  ASSUME EInv, FlushAsk
  PROVE  EInv'
<1> DEFINE m == [t |-> "flush", of |-> "daemon"]
<1>1. /\ TypeOK /\ RecoveryInv /\ act.pc \in {"up", "saving"} /\ act \in ActType /\ OtherTypes
      /\ ActorTypes /\ WriterTypes /\ queue \in Seq(Message) /\ rec \in RecType
      /\ rec.out \in {0, rec.gen} /\ sig \in SigType
  BY TypeParts DEF EInv, FlushAsk, ActorTypes
<1>2. /\ plan' \in PlanType
      /\ flush' = [pc |-> "wait", left |-> {"actor", "daemon"},
                   text |-> IF Dirty(act) THEN act.text ELSE <<>>]
      /\ sig' = [sig EXCEPT !.token = TRUE, !.bell = TRUE]
      /\ queue' = Append(queue, m)
      /\ UNCHANGED <<act, rec, wr, failed, vol, dur, files, doc, made, seen, kept, safe>>
  BY <1>1, SpendType DEF FlushAsk, OtherTypes
<1>m. m \in Message /\ m.t = "flush"
  BY DEF Message
<1>4. GensOK /\ Sane(Rec, seen) /\ OnEnd(Rec, act) /\ Rec.r = rec /\ Rec.q = queue
  BY <1>1, RecSane DEF Rec
<1> HIDE DEF m
<1>5. Append(queue, m) \in Seq(Message) /\ Len(Append(queue, m)) = Len(queue) + 1 /\ Len(queue) \in Nat
  BY <1>1, <1>m, AppendGrows, LenProperties
<1>6. Sane([r |-> rec, q |-> Append(queue, m)], seen)
  <2>1. m.t # "switch" /\ m.t # "append" /\ rec.gen >= rec.gen BY <1>1, <1>m DEF RecType
  <2> QED BY <1>1, <1>4, <1>m, <2>1, SaneAppend
<1>7. OnEnd([r |-> rec, q |-> Append(queue, m)], act)
  <2>1. ASSUME Follows(queue, Len(queue) + 1, rec.gen, act.text, act.rev)
        PROVE  Follows(Append(queue, m), (Len(queue) + 1) + 1, rec.gen, act.text, act.rev)
    <3>1. (Len(queue) + 1) + 1 = Len(queue) + 2 BY <1>5
    <3> QED BY <1>1, <1>m, <2>1, <3>1, FollowsFlush
  <2> QED BY <1>4, <1>5, <2>1 DEF OnEnd
<1>8. RecoveryInv'
  BY <1>1, <1>2, <1>5, <1>6, <1>7, ActorInv
<1>9. ActorTypes' /\ WriterTypes'
  BY <1>1, <1>2, <1>5 DEF ActorTypes, WriterTypes, FilesType, SigType
<1>10. OtherTypes'
  <2>1. (IF Dirty(act) THEN act.text ELSE <<>>) \in Text
    BY <1>1 DEF ActType, Text
  <2> QED BY <1>1, <1>2, <2>1 DEF OtherTypes, FlushType
<1> QED BY <1>8, <1>9, <1>10, TypeNext DEF EInv

LEMMA FlushReplyInv ==
  ASSUME EInv, FlushReply
  PROVE  EInv'
<1>1. /\ TypeOK /\ RecoveryInv /\ OtherTypes /\ ActorTypes /\ WriterTypes
  BY TypeParts DEF EInv
<1>2. /\ flush' = [flush EXCEPT !.pc = IF Healthy THEN "synced" ELSE "unsynced"]
      /\ safe' = IF Healthy THEN Longer(safe, flush.text) ELSE safe
      /\ UNCHANGED <<plan, act, rec, sig, queue, wr, failed, vol, dur, files, doc, made, seen, kept>>
  BY DEF FlushReply
<1>3. OtherTypes'
  <2>1. flush.text \in Text /\ safe \in Text BY <1>1 DEF OtherTypes, FlushType
  <2>2. safe' \in Text BY <1>2, <2>1, LongerType
  <2>3. flush' \in FlushType BY <1>1, <1>2 DEF OtherTypes, FlushType
  <2> QED BY <1>1, <1>2, <2>2, <2>3 DEF OtherTypes
<1>4. ActorTypes' /\ WriterTypes'
  BY <1>1, <1>2 DEF ActorTypes, WriterTypes, FilesType
<1>5. RecoveryInv'
  BY <1>1, <1>2, StutterInv DEF ActorTypes
<1> QED BY <1>3, <1>4, <1>5, TypeNext DEF EInv

-----------------------------------------------------------------------------
(* The writer: what a step must show for the FIFO to stay in order *)

\* The head, m, is served: what followed it now follows the writer.
Serves(m) ==
  /\ m.t = "flush" => \A g, text, rev : AtWriter(g, text, rev) => AtWriter(g, text, rev)'
  /\ m.t \in {"switch", "append"} => AtWriter(m.gen, m.text, m.rev)'

LEMMA TailElements ==
  ASSUME NEW q \in Seq(Message), q # <<>>
  PROVE  /\ Tail(q) \in Seq(Message) /\ Len(q) \in Nat /\ Len(q) > 0
         /\ Len(Tail(q)) = Len(q) - 1 /\ Head(q) = q[1] /\ Head(q) \in Message
         /\ \A i \in 1..Len(Tail(q)) : Tail(q)[i] = q[i + 1] /\ i + 1 \in 1..Len(q)
<1>1. Len(q) \in Nat /\ Len(q) > 0
  BY EmptySeq, LenProperties
<1>2. /\ Tail(q) \in Seq(Message) /\ Len(Tail(q)) = Len(q) - 1 /\ Head(q) = q[1]
      /\ Head(q) \in Message /\ \A i \in 1..Len(Tail(q)) : Tail(q)[i] = q[i + 1]
  BY <1>1, HeadTailProperties
<1> QED BY <1>1, <1>2

LEMMA FollowsTail ==
  ASSUME NEW q \in Seq(Message), q # <<>>, Serves(q[1]),
         NEW i \in 1..Len(q), NEW g, NEW text, NEW rev, Follows(q, i + 1, g, text, rev)
  PROVE  Follows(Tail(q), i, g, text, rev)'
<1> DEFINE u == Tail(q)
<1>1. /\ Len(q) \in Nat /\ Len(u) = Len(q) - 1
      /\ \A k \in 1..Len(u) : u[k] = q[k + 1]
  BY TailElements
<1> HIDE DEF u
<1>2. CASE \E j \in 1..((i + 1) - 1) :
             /\ q[j].t \in {"switch", "append"}
             /\ q[j].gen = g /\ q[j].text = text /\ q[j].rev = rev
             /\ \A k \in (j + 1)..((i + 1) - 1) : q[k].t = "flush"
  <2>1. PICK j \in 1..((i + 1) - 1) :
             /\ q[j].t \in {"switch", "append"}
             /\ q[j].gen = g /\ q[j].text = text /\ q[j].rev = rev
             /\ \A k \in (j + 1)..((i + 1) - 1) : q[k].t = "flush"
    BY <1>2
  <2>2. CASE j = 1
    <3>1. ASSUME NEW k \in 1..(i - 1) PROVE u[k].t = "flush"
      <4>1. k \in 1..Len(u) /\ k + 1 \in (j + 1)..((i + 1) - 1) BY <1>1, <2>2
      <4> QED BY <1>1, <2>1, <4>1
    <3>2. AtWriter(g, text, rev)' BY <2>1, <2>2 DEF Serves
    <3> QED BY <3>1, <3>2 DEF Follows, u
  <2>3. CASE j # 1
    <3>1. j - 1 \in 1..(i - 1) /\ u[j - 1] = q[j] BY <1>1, <2>1, <2>3
    <3>2. \A k \in ((j - 1) + 1)..(i - 1) : u[k].t = "flush" BY <1>1, <2>1, <2>3
    <3> QED BY <2>1, <3>1, <3>2 DEF Follows, u
  <2> QED BY <2>2, <2>3
<1>3. CASE (\A k \in 1..((i + 1) - 1) : q[k].t = "flush") /\ AtWriter(g, text, rev)
  <2>1. \A k \in 1..(i - 1) : u[k].t = "flush" BY <1>1, <1>3
  <2>2. q[1].t = "flush" BY <1>1, <1>3
  <2>3. AtWriter(g, text, rev)' BY <1>3, <2>2 DEF Serves
  <2> QED BY <2>1, <2>3 DEF Follows, u
<1> QED BY <1>2, <1>3 DEF Follows

\* The part of the invariant about what is under way in the FIFO.
Line == Chained(queue) /\ Had(queue, seen) /\ Attached

LEMMA LineTail ==
  ASSUME Line, queue \in Seq(Message), queue # <<>>, NEW m, m = Head(queue), Serves(m),
         queue' = Tail(queue), UNCHANGED <<act, rec, seen>>
  PROVE  Line'
<1>1. PICK q \in Seq(Message) : q = queue
  OBVIOUS
<1> DEFINE u == Tail(q)
<1>2. /\ u \in Seq(Message) /\ Len(q) \in Nat /\ Len(u) = Len(q) - 1 /\ Head(q) = q[1] /\ q # <<>>
      /\ \A i \in 1..Len(u) : u[i] = q[i + 1] /\ i + 1 \in 1..Len(q)
      /\ queue' = u
  BY <1>1, TailElements
<1>s. Serves(q[1])
  <2>1. q[1] = m BY <1>1, <1>2
  <2> QED BY <2>1
<1>f. \A i \in 1..Len(q) : \A g, text, rev : Follows(q, i + 1, g, text, rev) => Follows(u, i, g, text, rev)'
  BY <1>2, <1>s, FollowsTail
<1> HIDE DEF u
<1>3. Chained(queue)'
  <2>1. ASSUME NEW i \in 1..Len(u), u[i].t = "append"
        PROVE  \E text \in Text : u[i].text = Append(text, u[i].id)
                                  /\ Follows(u, i, u[i].gen, text, u[i].rev - 1)'
    <3>1. u[i] = q[i + 1] /\ i + 1 \in 1..Len(q) /\ i \in 1..Len(q)
      BY <1>2
    <3>2. PICK text \in Text : q[i + 1].text = Append(text, q[i + 1].id)
                               /\ Follows(q, i + 1, q[i + 1].gen, text, q[i + 1].rev - 1)
      BY <1>1, <2>1, <3>1 DEF Line, Chained
    <3>3. Follows(u, i, q[i + 1].gen, text, q[i + 1].rev - 1)'
      BY <1>f, <3>1, <3>2
    <3> QED BY <3>1, <3>2, <3>3
  <2>2. Chained(u)' BY <2>1 DEF Chained
  <2>3. queue' = u BY <1>2
  <2> QED BY <2>2, <2>3 DEF Chained, Follows
<1>4. Had(queue, seen)'
  BY <1>1, <1>2 DEF Line, Had
<1>5. Attached'
  <2>1. Len(u) + 1 = Len(q) /\ Len(q) \in 1..Len(q)
    BY <1>2, EmptySeq
  <2>2. \A g, text, rev : Follows(queue, Len(queue) + 1, g, text, rev)
                          => Follows(queue, Len(queue) + 1, g, text, rev)'
    <3> SUFFICES ASSUME NEW g, NEW text, NEW rev, Follows(q, Len(q) + 1, g, text, rev)
                 PROVE  Follows(queue, Len(queue) + 1, g, text, rev)'
      BY <1>1
    <3>1. Follows(u, Len(q), g, text, rev)' BY <1>f, <2>1
    <3> QED BY <1>2, <2>1, <3>1 DEF Follows
  <2> QED BY <2>2 DEF Line, Attached, OnEnd, Rec
<1> QED BY <1>3, <1>4, <1>5 DEF Line

LEMMA LineSame ==
  ASSUME Line, \A g, text, rev : AtWriter(g, text, rev) => AtWriter(g, text, rev)',
         UNCHANGED <<act, rec, seen, queue>>
  PROVE  Line'
<1>1. PICK q : q = queue OBVIOUS
<1>2. \A i, g, text, rev : Follows(q, i, g, text, rev) => Follows(q, i, g, text, rev)'
  BY FollowsFrame
<1>3. Chained(queue)'
  <2>1. Chained(q)' BY <1>1, ChainedFrame DEF Line
  <2>2. queue' = q BY <1>1
  <2> QED BY <2>1, <2>2 DEF Chained, Follows
<1>4. Had(queue, seen)'
  BY DEF Line, Had
<1>5. Attached'
  <2>2. \A g, text, rev : Follows(queue, Len(queue) + 1, g, text, rev)
                          => Follows(queue, Len(queue) + 1, g, text, rev)'
    BY <1>1, <1>2 DEF Follows
  <2> QED BY <2>2 DEF Line, Attached, OnEnd, Rec
<1> QED BY <1>3, <1>4, <1>5 DEF Line

Gens == Metas \cup {wr.gen}

LEMMA TopNat ==
  ASSUME TypeOK
  PROVE  Top \in Nat /\ Gens \subseteq Nat
<1>1. rec.gen \in Nat /\ wr.gen \in Nat
  BY TypeParts DEF ActorTypes, RecType, WriterTypes, WrType
<1>2. vol.meta.gen \in Nat /\ dur.meta.gen \in Nat
  BY DEF TypeOK, Directory
<1> QED BY <1>1, <1>2 DEF Top, Gens, Metas

LEMMA AheadTail ==
  ASSUME TypeOK, Ahead(queue, Top), queue # <<>>,
         queue' = Tail(queue), UNCHANGED <<act, rec>>,
         \A g \in Gens' : g \in Gens \/ g = 0 \/ (Head(queue).t = "switch" /\ g = Head(queue).gen)
  PROVE  Ahead(queue, Top)'
<1>1. PICK q \in Seq(Message) : q = queue
  BY DEF TypeOK
<1>2. PICK top \in Nat : top = Top
  BY TopNat
<1> DEFINE u == Tail(q)
<1>3. /\ u \in Seq(Message) /\ Len(q) \in Nat /\ Len(q) > 0 /\ Len(u) = Len(q) - 1 /\ Head(q) = q[1]
      /\ \A i \in 1..Len(u) : u[i] = q[i + 1] /\ i + 1 \in 1..Len(q)
      /\ queue' = u
  BY <1>1, TailElements
<1>4. Top' = top
  BY <1>2 DEF Top
<1>5. Ahead(q, top) BY <1>1, <1>2
<1> HIDE DEF u
<1>6. \A i \in 1..Len(q) : q[i].t = "switch" => q[i].gen \in Nat
  BY ElementOfSeq, MessageShape
<1>7. Rising(u, top)
  <2>1. Rising(q, top) BY <1>5 DEF Ahead
  <2>2. \A i \in 1..Len(u) : u[i].t = "switch" => u[i].gen > 0 /\ u[i].gen <= top
    BY <1>3, <2>1 DEF Rising
  <2>3. ASSUME NEW i \in 1..Len(u), NEW j \in 1..Len(u), i < j, u[i].t = "switch", u[j].t = "switch"
        PROVE  u[i].gen < u[j].gen
    <3>1. u[i] = q[i + 1] /\ u[j] = q[j + 1] /\ i + 1 \in 1..Len(q) /\ j + 1 \in 1..Len(q) /\ i + 1 < j + 1
      BY <1>3, <2>3
    <3> QED BY <2>1, <2>3, <3>1 DEF Rising
  <2> QED BY <2>2, <2>3 DEF Rising
<1>8. ASSUME NEW g \in Gens', NEW i \in 1..Len(u), u[i].t = "switch"
      PROVE  g < u[i].gen
  <2>1. u[i] = q[i + 1] /\ i + 1 \in 1..Len(q) /\ i + 1 # 1 /\ q[i + 1].gen > 0
        /\ 1 \in 1..Len(q) /\ 1 < i + 1
    BY <1>3, <1>5, <1>8 DEF Ahead, Rising
  <2>2. CASE g \in Gens
    BY <1>5, <1>8, <2>1, <2>2 DEF Ahead, Gens
  <2>3. CASE g = 0
    BY <1>6, <2>1, <2>3
  <2>4. CASE Head(queue).t = "switch" /\ g = Head(queue).gen
    BY <1>1, <1>3, <1>5, <1>8, <2>1, <2>4 DEF Ahead, Rising
  <2> QED BY <2>2, <2>3, <2>4
<1>9. ASSUME NEW g \in Gens' PROVE g <= top
  <2>1. CASE g \in Gens
    BY <1>5, <2>1 DEF Ahead, Gens
  <2>2. CASE g = 0
    BY <2>2
  <2>3. CASE Head(queue).t = "switch" /\ g = Head(queue).gen
    <3>1. 1 \in 1..Len(q) BY <1>3
    <3> QED BY <1>1, <1>3, <1>5, <2>3, <3>1 DEF Ahead, Rising
  <2> QED BY <2>1, <2>2, <2>3
<1> QED BY <1>3, <1>4, <1>7, <1>8, <1>9 DEF Ahead, Rising, Gens

LEMMA AheadSame ==
  ASSUME TypeOK, Ahead(queue, Top), UNCHANGED <<queue, act, rec>>,
         wr.pc \in {"meta", "done"} => wr'.pc \in {"meta", "done"},
         \A g \in Gens' :
           \/ g \in Gens \/ g = 0
           \/ /\ queue # <<>> /\ Head(queue).t = "switch" /\ g = Head(queue).gen
              /\ wr'.pc \in {"meta", "done"}
  PROVE  Ahead(queue, Top)'
<1>1. PICK q \in Seq(Message) : q = queue
  BY DEF TypeOK
<1>2. PICK top \in Nat : top = Top
  BY TopNat
<1>4. Top' = top /\ queue' = q
  BY <1>1, <1>2 DEF Top
<1>5. Ahead(q, top) BY <1>1, <1>2
<1>6. \A i \in 1..Len(q) : q[i].t = "switch" => q[i].gen \in Nat /\ q[i].gen > 0 /\ q[i].gen <= top
  BY <1>5, ElementOfSeq, MessageShape DEF Ahead, Rising
<1>h. q # <<>> => Head(q) = q[1] /\ 1 \in 1..Len(q)
  BY TailElements
<1>8. ASSUME NEW g \in Gens', NEW i \in 1..Len(q), q[i].t = "switch",
             ~(i = 1 /\ wr'.pc \in {"meta", "done"})
      PROVE  g < q[i].gen
  <2>2. CASE g \in Gens
    BY <1>5, <1>8, <2>2 DEF Ahead, Gens
  <2>3. CASE g = 0
    BY <1>6, <1>8, <2>3
  <2>4. CASE queue # <<>> /\ Head(queue).t = "switch" /\ g = Head(queue).gen
             /\ wr'.pc \in {"meta", "done"}
    <3>1. i # 1 /\ 1 < i BY <1>8, <2>4
    <3> QED BY <1>1, <1>h, <1>5, <1>8, <2>4, <3>1 DEF Ahead, Rising
  <2> QED BY <2>2, <2>3, <2>4
<1>9. ASSUME NEW g \in Gens' PROVE g <= top
  <2>1. CASE g \in Gens
    BY <1>5, <2>1 DEF Ahead, Gens
  <2>2. CASE g = 0
    BY <2>2
  <2>3. CASE queue # <<>> /\ Head(queue).t = "switch" /\ g = Head(queue).gen
    BY <1>1, <1>h, <1>6, <2>3
  <2> QED BY <2>1, <2>2, <2>3
<1>7. Rising(q, top) BY <1>5 DEF Ahead
<1> QED BY <1>4, <1>7, <1>8, <1>9 DEF Ahead, Rising, Gens

-----------------------------------------------------------------------------
(* The writer's steps *)

LEMMA InvParts ==
  RecoveryInv <=> Backed /\ Soundness /\ Staged /\ Ahead(queue, Top) /\ Line /\ NoStaleAppend
  BY DEF RecoveryInv, Line

FilesSame(g) ==
  /\ g \in DOMAIN files'.snap /\ files'.snap[g] = files.snap[g]
  /\ g \in DOMAIN files'.log /\ files'.log[g] = files.log[g]
  /\ files'.synced[g] = files.synced[g]

LEMMA SoundSame ==
  ASSUME NEW g, Sound(g), FilesSame(g), UNCHANGED seen
  PROVE  Sound(g)'
  BY DEF Sound, FilesSame, TextAt

LEMMA AtWriterSame ==
  ASSUME failed => failed', wr'.gen = wr.gen, wr.gen # 0 => FilesSame(wr.gen)
  PROVE  \A g, text, rev : AtWriter(g, text, rev) => AtWriter(g, text, rev)'
  BY DEF AtWriter, FilesSame, TextAt

\* Everything about the message the writer has in hand.
LEMMA InHand ==
  ASSUME TypeOK, RecoveryInv, queue # <<>>
  PROVE  LET m == Head(queue) IN
         /\ m \in Message /\ m = queue[1] /\ 1 \in 1..Len(queue)
         /\ Tail(queue) \in Seq(Message)
         /\ m.t = "switch" =>
              /\ m.gen \in Nat /\ m.gen > 0 /\ m.rev \in Nat /\ m.text \in Text /\ m.base \in Nat
              /\ m.text \in seen
              /\ wr.pc \notin {"meta", "done"} => \A g \in Gens : g # m.gen
<1>1. queue \in Seq(Message)
  BY DEF TypeOK
<1>2. /\ Head(queue) \in Message /\ Head(queue) = queue[1] /\ 1 \in 1..Len(queue)
      /\ Tail(queue) \in Seq(Message)
  BY <1>1, TailElements
<1>3. ASSUME Head(queue).t = "switch"
      PROVE  LET m == Head(queue) IN
             m.gen \in Nat /\ m.rev \in Nat /\ m.text \in Text /\ m.base \in Nat
  BY <1>2, <1>3, MessageShape
<1>4. ASSUME Head(queue).t = "switch"
      PROVE  Head(queue).gen > 0 /\ Head(queue).text \in seen
  BY <1>2, <1>4 DEF RecoveryInv, Ahead, Rising, Had
<1>5. ASSUME Head(queue).t = "switch", wr.pc \notin {"meta", "done"}, NEW g \in Gens
      PROVE  g # Head(queue).gen
  <2>1. g < Head(queue).gen
    BY <1>2, <1>5 DEF RecoveryInv, Ahead, Gens
  <2> QED BY <1>3, <1>5, <2>1, TopNat
<1> QED BY <1>2, <1>3, <1>4, <1>5

LEMMA SoundGen ==
  ASSUME RecoveryInv, NEW g \in Gens, g # 0
  PROVE  Sound(g)
  BY DEF RecoveryInv, Soundness, Gens

LEMMA SwitchSnapInv ==
  ASSUME EInv, SwitchSnap
  PROVE  EInv'
<1> DEFINE m == Head(queue)
           c == [rev |-> m.rev, text |-> m.text]
<1>1. TypeOK /\ RecoveryInv /\ ActorTypes /\ WriterTypes /\ OtherTypes
  BY TypeParts DEF EInv
<1>2. /\ wr.pc = "idle" /\ queue # <<>> /\ m.t = "switch"
      /\ files' = [files EXCEPT !.snap = Store(@, m.gen, c)]
      /\ vol' = [vol EXCEPT !.snaps = @ \cup {m.gen}]
      /\ wr' = [wr EXCEPT !.pc = "snap"]
      /\ UNCHANGED <<plan, act, rec, sig, queue, failed, dur, doc, flush, made, seen, kept, safe>>
  BY DEF SwitchSnap, Msg
<1>3. /\ m \in Message /\ m.gen \in Nat /\ m.gen > 0 /\ m.rev \in Nat /\ m.text \in Text
      /\ \A g \in Gens : g # m.gen
  BY <1>1, <1>2, InHand
<1>c. c \in [rev : Nat, text : Text] /\ c = [rev |-> m.rev, text |-> m.text]
  BY <1>3
<1> HIDE DEF c
<1>4. /\ files'.snap = Store(files.snap, m.gen, c) /\ files'.log = files.log
      /\ files'.synced = files.synced
      /\ files.snap \in [DOMAIN files.snap -> [rev : Nat, text : Text]]
  BY <1>1, <1>2 DEF WriterTypes, FilesType
<1>5. /\ wr'.pc = "snap" /\ wr'.gen = wr.gen /\ wr'.stale = wr.stale
      /\ vol'.meta = vol.meta /\ vol'.snaps = vol.snaps \cup {m.gen}
  BY <1>1, <1>2 DEF WriterTypes, WrType, Directory
<1>6. \A g \in Gens \ {0} : FilesSame(g)
  BY <1>1, <1>3, <1>4, SoundGen DEF FilesSame, Sound, Store
<1>7. Gens' = Gens /\ Metas' = Metas
  BY <1>2, <1>5 DEF Gens, Metas
<1>8. Backed'
  BY <1>1, <1>2, <1>5, <1>7 DEF RecoveryInv, Backed
<1>9. Soundness'
  BY <1>1, <1>2, <1>6, <1>7, SoundGen, SoundSame DEF Soundness, Gens
<1>10. Staged'
  <2>1. /\ m.gen \in vol'.snaps /\ m.gen \in DOMAIN files'.snap
        /\ files'.snap[m.gen] = [rev |-> m.rev, text |-> m.text]
    BY <1>4, <1>5, <1>c DEF Store
  <2> QED BY <1>2, <1>5, <2>1 DEF Staged, InSwitch, Msg
<1>11. Ahead(queue, Top)'
  BY <1>1, <1>2, <1>5, <1>7, AheadSame DEF RecoveryInv
<1>12. Line'
  <2>1. \A g, text, rev : AtWriter(g, text, rev) => AtWriter(g, text, rev)'
    BY <1>2, <1>5, <1>6, AtWriterSame DEF Gens
  <2> QED BY <1>1, <1>2, <2>1, InvParts, LineSame
<1>13. NoStaleAppend'
  BY <1>1, <1>5 DEF RecoveryInv, NoStaleAppend
<1>14. RecoveryInv'
  BY <1>8, <1>9, <1>10, <1>11, <1>12, <1>13 DEF RecoveryInv, Line
<1>15. WriterTypes'
  <2>1. FilesType(files)'
    <3>1. files'.snap \in [DOMAIN files'.snap -> [rev : Nat, text : Text]]
      BY <1>4, <1>c DEF Store
    <3> QED BY <1>1, <1>2, <1>4, <3>1 DEF WriterTypes, FilesType
  <2>2. wr' \in WrType /\ vol' \in Directory
    BY <1>1, <1>2, <1>3 DEF WriterTypes, WrType, Directory
  <2> QED BY <1>1, <1>2, <2>1, <2>2 DEF WriterTypes
<1>16. ActorTypes' /\ OtherTypes'
  BY <1>1, <1>2 DEF ActorTypes, OtherTypes
<1> QED BY <1>14, <1>15, <1>16, TypeNext DEF EInv

LEMMA SwitchLogInv ==
  ASSUME EInv, SwitchLog
  PROVE  EInv'
<1> DEFINE m == Head(queue)
<1>1. TypeOK /\ RecoveryInv /\ ActorTypes /\ WriterTypes /\ OtherTypes
  BY TypeParts DEF EInv
<1>2. /\ wr.pc = "snap"
      /\ files' = [files EXCEPT !.log = Store(@, m.gen, <<>>), !.synced = Store(@, m.gen, 0)]
      /\ vol' = [vol EXCEPT !.logs = @ \cup {m.gen}]
      /\ wr' = [wr EXCEPT !.pc = "log"]
      /\ UNCHANGED <<plan, act, rec, sig, queue, failed, dur, doc, flush, made, seen, kept, safe>>
  BY DEF SwitchLog
<1>h. queue # <<>> /\ m.t = "switch" /\ Staged
  BY <1>1, <1>2 DEF RecoveryInv, Staged, InSwitch, Msg
<1>3. /\ m \in Message /\ m.gen \in Nat /\ m.gen > 0 /\ \A g \in Gens : g # m.gen
  BY <1>1, <1>2, <1>h, InHand
<1>4. /\ files'.snap = files.snap /\ files'.log = Store(files.log, m.gen, <<>>)
      /\ files'.synced = Store(files.synced, m.gen, 0)
      /\ files.log \in [DOMAIN files.log -> Seq(Record)]
      /\ files.synced \in [DOMAIN files.log -> Nat] /\ DOMAIN files.synced = DOMAIN files.log
  BY <1>1, <1>2 DEF WriterTypes, FilesType
<1>5. /\ wr'.pc = "log" /\ wr'.gen = wr.gen /\ wr'.stale = wr.stale
      /\ vol'.meta = vol.meta /\ vol'.snaps = vol.snaps
  BY <1>1, <1>2 DEF WriterTypes, WrType, Directory
<1>6. \A g \in Gens \ {0} : FilesSame(g)
  BY <1>1, <1>3, <1>4, SoundGen DEF FilesSame, Sound, Store
<1>7. Gens' = Gens /\ Metas' = Metas
  BY <1>2, <1>5 DEF Gens, Metas
<1>8. Backed'
  BY <1>1, <1>2, <1>5, <1>7 DEF RecoveryInv, Backed
<1>9. Soundness'
  BY <1>1, <1>2, <1>6, <1>7, SoundGen, SoundSame DEF Soundness, Gens
<1>10. Staged'
  <2>1. /\ m.gen \in vol'.snaps /\ m.gen \in DOMAIN files'.snap
        /\ files'.snap[m.gen] = [rev |-> m.rev, text |-> m.text]
    BY <1>2, <1>4, <1>5, <1>h DEF Staged, InSwitch
  <2>2. m.gen \in DOMAIN files'.log /\ files'.log[m.gen] = <<>> /\ files'.synced[m.gen] = 0
    BY <1>4 DEF Store
  <2> QED BY <1>2, <1>5, <1>h, <2>1, <2>2 DEF Staged, InSwitch, Msg
<1>11. Ahead(queue, Top)'
  BY <1>1, <1>2, <1>5, <1>7, AheadSame DEF RecoveryInv
<1>12. Line'
  <2>1. \A g, text, rev : AtWriter(g, text, rev) => AtWriter(g, text, rev)'
    BY <1>2, <1>5, <1>6, AtWriterSame DEF Gens
  <2> QED BY <1>1, <1>2, <2>1, InvParts, LineSame
<1>13. NoStaleAppend'
  BY <1>1, <1>5 DEF RecoveryInv, NoStaleAppend
<1>14. RecoveryInv'
  BY <1>8, <1>9, <1>10, <1>11, <1>12, <1>13 DEF RecoveryInv, Line
<1>15. WriterTypes'
  <2>1. FilesType(files)'
    <3>1. files'.log \in [DOMAIN files'.log -> Seq(Record)]
      BY <1>4 DEF Store
    <3>2. files'.synced \in [DOMAIN files'.synced -> Nat]
      BY <1>4 DEF Store
    <3>3. DOMAIN files'.synced = DOMAIN files'.log
      BY <1>4 DEF Store
    <3> QED BY <1>1, <1>2, <1>4, <3>1, <3>2, <3>3 DEF WriterTypes, FilesType
  <2>2. wr' \in WrType /\ vol' \in Directory
    BY <1>1, <1>2, <1>3 DEF WriterTypes, WrType, Directory
  <2> QED BY <1>1, <1>2, <2>1, <2>2 DEF WriterTypes
<1>16. ActorTypes' /\ OtherTypes'
  BY <1>1, <1>2 DEF ActorTypes, OtherTypes
<1> QED BY <1>14, <1>15, <1>16, TypeNext DEF EInv

LEMMA SwitchDirInv ==
  ASSUME EInv, SwitchDir
  PROVE  EInv'
<1> DEFINE m == Head(queue)
<1>1. TypeOK /\ RecoveryInv /\ ActorTypes /\ WriterTypes /\ OtherTypes
  BY TypeParts DEF EInv
<1>2. /\ wr.pc = "log" /\ dur' = vol /\ wr' = [wr EXCEPT !.pc = "dir"]
      /\ UNCHANGED <<plan, act, rec, sig, queue, failed, vol, files, doc, flush, made, seen,
                     kept, safe>>
  BY DEF SwitchDir
<1>h. queue # <<>> /\ m.t = "switch" /\ Staged
  BY <1>1, <1>2 DEF RecoveryInv, Staged, InSwitch, Msg
<1>5. wr'.pc = "dir" /\ wr'.gen = wr.gen /\ wr'.stale = wr.stale
  BY <1>1, <1>2 DEF WriterTypes, WrType
<1>7. Gens' \subseteq Gens /\ Metas' = {vol.meta.gen} \ {0}
  BY <1>2, <1>5 DEF Gens, Metas
<1>8. Backed'
  BY <1>1, <1>2, <1>7 DEF RecoveryInv, Backed, Metas
<1>9. Soundness'
  BY <1>1, <1>2, <1>7, SoundGen, SoundMono DEF Soundness, Gens
<1>10. Staged'
  BY <1>2, <1>5, <1>h DEF Staged, InSwitch, Msg
<1>11. Ahead(queue, Top)'
  BY <1>1, <1>2, <1>5, <1>7, AheadSame DEF RecoveryInv
<1>12. Line'
  <2>1. \A g, text, rev : AtWriter(g, text, rev) => AtWriter(g, text, rev)'
    BY <1>2, <1>5 DEF AtWriter, TextAt
  <2> QED BY <1>1, <1>2, <2>1, InvParts, LineSame
<1>13. NoStaleAppend'
  BY <1>1, <1>5 DEF RecoveryInv, NoStaleAppend
<1>14. RecoveryInv'
  BY <1>8, <1>9, <1>10, <1>11, <1>12, <1>13 DEF RecoveryInv, Line
<1>15. WriterTypes'
  BY <1>1, <1>2 DEF WriterTypes, WrType, FilesType
<1>16. ActorTypes' /\ OtherTypes'
  BY <1>1, <1>2 DEF ActorTypes, OtherTypes
<1> QED BY <1>14, <1>15, <1>16, TypeNext DEF EInv

\* An empty log: the texts of the generation are its snap alone.
LEMMA SoundFresh ==
  ASSUME NEW g, g \in DOMAIN files.snap, g \in DOMAIN files.log, files.log[g] = <<>>,
         files.synced[g] = 0, files.snap[g].text \in seen, files.snap[g].text \in Text
  PROVE  Sound(g) /\ TextAt(g, Len(files.log[g])) = files.snap[g].text /\ Len(files.log[g]) = 0
<1>1. Len(files.log[g]) = 0
  OBVIOUS
<1>2. TextAt(g, 0) = files.snap[g].text
  <2> DEFINE s == files.snap[g].text
             e == [i \in 1..0 |-> files.log[g][i].id]
  <2>1. e = <<>> OBVIOUS
  <2> HIDE DEF e
  <2>2. s \o <<>> = s BY ConcatEmptySeq DEF Text
  <2> QED BY <2>1, <2>2 DEF TextAt, e
<1>3. \A n \in 0..0 : TextAt(g, n) \in seen
  BY <1>2
<1> QED BY <1>1, <1>2, <1>3 DEF Sound

\* A Switch in hand whose log is open is sound, and the writer that takes it up
\* is at its text.
LEMMA SwitchSound ==
  ASSUME TypeOK, RecoveryInv, wr.pc \in {"log", "dir", "meta", "done"}
  PROVE  LET m == Head(queue) IN
         /\ queue # <<>> /\ m.t = "switch" /\ m.gen \in Nat /\ m.gen # 0
         /\ Sound(m.gen) /\ TextAt(m.gen, Len(files.log[m.gen])) = m.text
         /\ Len(files.log[m.gen]) = 0 /\ files.snap[m.gen].rev = m.rev /\ m.rev \in Nat
<1>1. /\ queue # <<>> /\ Head(queue).t = "switch"
      /\ LET m == Head(queue) IN
         /\ m.gen \in DOMAIN files.snap /\ files.snap[m.gen] = [rev |-> m.rev, text |-> m.text]
         /\ m.gen \in DOMAIN files.log /\ files.log[m.gen] = <<>> /\ files.synced[m.gen] = 0
  BY DEF RecoveryInv, Staged, InSwitch, Msg
<1>2. LET m == Head(queue) IN
      m.gen \in Nat /\ m.gen > 0 /\ m.text \in Text /\ m.text \in seen /\ m.rev \in Nat
  BY <1>1, InHand
<1>3. LET m == Head(queue) IN
      files.snap[m.gen].text = m.text /\ files.snap[m.gen].rev = m.rev
  BY <1>1
<1> QED BY <1>1, <1>2, <1>3, SoundFresh

\* A step of a Switch or a Discard that stays at the head leaves what is behind it
\* in line.
LEMMA LineBusy ==
  ASSUME TypeOK, RecoveryInv, queue # <<>>, Head(queue).t \in {"switch", "discard"},
         UNCHANGED <<act, rec, seen, queue>>
  PROVE  Line'
<1>0. PICK q \in Seq(Message) : q = queue
  BY DEF TypeOK
<1>h. q[1].t \in {"switch", "discard"} BY <1>0, TailElements
<1>1. ASSUME NEW i \in 1..(Len(q) + 1), NEW g, NEW text, NEW rev, i # 1,
             Follows(q, i, g, text, rev)
      PROVE  Follows(q, i, g, text, rev)'
  <2>1. Len(q) \in Nat BY LenProperties
  <2>2. 1 \in 1..(i - 1) BY <1>1, <2>1
  <2>3. ~(\A k \in 1..(i - 1) : q[k].t = "flush") BY <1>h, <2>2
  <2> QED BY <1>1, <2>3 DEF Follows
<1>2. Chained(queue)'
  <2>1. Chained(q) BY <1>0 DEF RecoveryInv
  <2>2. ASSUME NEW i \in 1..Len(q), q[i].t = "append"
        PROVE  \E text \in Text : q[i].text = Append(text, q[i].id)
                                  /\ Follows(q, i, q[i].gen, text, q[i].rev - 1)'
    <3>1. i # 1 /\ i \in 1..(Len(q) + 1) BY <1>h, <2>2, LenProperties
    <3>2. PICK text \in Text : q[i].text = Append(text, q[i].id)
                               /\ Follows(q, i, q[i].gen, text, q[i].rev - 1)
      BY <2>1, <2>2 DEF Chained
    <3> QED BY <1>1, <3>1, <3>2
  <2>3. Chained(q)' BY <2>2 DEF Chained
  <2>4. queue' = q BY <1>0
  <2> QED BY <2>3, <2>4 DEF Chained, Follows
<1>3. Had(queue, seen)'
  BY DEF RecoveryInv, Had
<1>4. Attached'
  <2>1. Len(q) + 1 \in 1..(Len(q) + 1) /\ Len(q) + 1 # 1
    BY <1>0, EmptySeq, LenProperties
  <2>2. \A g, text, rev : Follows(queue, Len(queue) + 1, g, text, rev)
                          => Follows(queue, Len(queue) + 1, g, text, rev)'
    <3> SUFFICES ASSUME NEW g, NEW text, NEW rev, Follows(q, Len(q) + 1, g, text, rev)
                 PROVE  Follows(queue, Len(queue) + 1, g, text, rev)'
      BY <1>0
    <3>1. Follows(q, Len(q) + 1, g, text, rev)' BY <1>1, <2>1
    <3>2. queue' = q BY <1>0
    <3> QED BY <3>1, <3>2 DEF Follows
  <2> QED BY <2>2 DEF RecoveryInv, Attached, OnEnd, Rec
<1> QED BY <1>2, <1>3, <1>4 DEF Line

LEMMA SwitchMetaInv ==
  ASSUME EInv, SwitchMeta
  PROVE  EInv'
<1> DEFINE m == Head(queue)
<1>1. TypeOK /\ RecoveryInv /\ ActorTypes /\ WriterTypes /\ OtherTypes
  BY TypeParts DEF EInv
<1>2. /\ wr.pc = "dir"
      /\ vol' = [vol EXCEPT !.meta = [gen |-> m.gen, base |-> m.base]]
      /\ wr' = [wr EXCEPT !.pc = "meta", !.gen = m.gen, !.open = TRUE, !.compact = FALSE,
                      !.stray = @ \cup ({wr.gen} \ {0, m.gen})]
      /\ UNCHANGED <<plan, act, rec, sig, queue, failed, dur, files, doc, flush, made, seen,
                     kept, safe>>
  BY DEF SwitchMeta
<1>h. queue # <<>> /\ m.t = "switch" /\ Staged
  BY <1>1, <1>2 DEF RecoveryInv, Staged, InSwitch, Msg
<1>3. /\ m \in Message /\ m.gen \in Nat /\ m.gen > 0 /\ m.base \in Nat /\ m = queue[1]
      /\ m.text \in Text /\ m.rev \in Nat
  BY <1>1, <1>h, InHand
<1>5. /\ wr'.pc = "meta" /\ wr'.gen = m.gen /\ wr'.stale = wr.stale
      /\ vol'.meta.gen = m.gen /\ vol'.snaps = vol.snaps
  BY <1>1, <1>2 DEF WriterTypes, WrType, Directory
<1>6. Sound(m.gen) /\ TextAt(m.gen, Len(files.log[m.gen])) = m.text
      /\ Len(files.log[m.gen]) = 0 /\ files.snap[m.gen].rev = m.rev
  BY <1>1, <1>2, SwitchSound
<1>7. Gens' \subseteq Gens \cup {m.gen} /\ Metas' \subseteq Metas \cup {m.gen}
  BY <1>2, <1>5 DEF Gens, Metas
<1>8. Backed'
  <2>1. m.gen \in vol.snaps /\ m.gen \in dur.snaps
    BY <1>2, <1>h DEF Staged, InSwitch
  <2> QED BY <1>1, <1>2, <1>5, <1>7, <2>1 DEF RecoveryInv, Backed
<1>9. Soundness'
  <2>1. \A g \in Gens' \ {0} : Sound(g)
    BY <1>1, <1>6, <1>7, SoundGen
  <2> QED BY <1>2, <2>1, SoundMono DEF Soundness, Gens
<1>10. Staged'
  BY <1>2, <1>5, <1>h DEF Staged, InSwitch, Msg
<1>11. Ahead(queue, Top)'
  BY <1>1, <1>2, <1>5, <1>7, <1>h, AheadSame DEF RecoveryInv
<1>12. Line'
  BY <1>1, <1>2, <1>h, <1>3, LineBusy
<1>13. NoStaleAppend'
  BY <1>1, <1>5 DEF RecoveryInv, NoStaleAppend
<1>14. RecoveryInv'
  BY <1>8, <1>9, <1>10, <1>11, <1>12, <1>13 DEF RecoveryInv, Line
<1>15. WriterTypes'
  <2>1. vol' \in Directory BY <1>1, <1>2, <1>3 DEF WriterTypes, Directory
  <2>2. wr' \in WrType
    <3>1. (wr.stray \cup ({wr.gen} \ {0, m.gen})) \in SUBSET Nat BY <1>1 DEF WriterTypes, WrType
    <3> QED BY <1>1, <1>2, <1>3, <3>1 DEF WriterTypes, WrType
  <2> QED BY <1>1, <1>2, <2>1, <2>2 DEF WriterTypes, FilesType
<1>16. ActorTypes' /\ OtherTypes'
  BY <1>1, <1>2 DEF ActorTypes, OtherTypes
<1> QED BY <1>14, <1>15, <1>16, TypeNext DEF EInv

LEMMA MaxTwo ==
  ASSUME NEW x \in Nat, NEW y \in Nat
  PROVE  Max({x, y}) \in Nat /\ Max({x, y}) >= x /\ Max({x, y}) >= y
<1>1. \E z \in {x, y} : \A w \in {x, y} : z >= w
  <2>1. CASE x >= y BY <2>1
  <2>2. CASE y >= x BY <2>2
  <2> QED BY <2>1, <2>2
<1> QED BY <1>1 DEF Max

LEMMA RingType ==
  ASSUME sig \in SigType, NEW field, NEW value, Ring(field, value),
         \/ field = "asked" /\ value \in BOOLEAN
         \/ field \in {"done", "failed"} /\ value \in Nat
  PROVE  sig' \in SigType
<1>1. CASE field = "asked"
  BY <1>1 DEF Ring, SigType
<1>2. CASE field = "done"
  BY <1>2 DEF Ring, SigType
<1>3. CASE field = "failed"
  BY <1>3 DEF Ring, SigType
<1> QED BY <1>1, <1>2, <1>3

LEMMA SwitchDoneInv ==
  ASSUME EInv, SwitchDone
  PROVE  EInv'
<1> DEFINE m == Head(queue)
<1>1. TypeOK /\ RecoveryInv /\ ActorTypes /\ WriterTypes /\ OtherTypes
  BY TypeParts DEF EInv
<1>2. /\ wr.pc = "meta" /\ dur' = vol /\ failed' = FALSE
      /\ Ring("done", Max({sig.done, m.gen}))
      /\ wr' = [wr EXCEPT !.pc = "done"]
      /\ kept' = IF Wanted THEN Longer(kept, m.text) ELSE kept
      /\ UNCHANGED <<plan, act, rec, queue, vol, files, doc, flush, made, seen, safe>>
  BY DEF SwitchDone
<1>h. queue # <<>> /\ m.t = "switch" /\ Staged /\ vol.meta.gen = m.gen /\ wr.gen = m.gen
  BY <1>1, <1>2 DEF RecoveryInv, Staged, InSwitch, Msg
<1>3. /\ m \in Message /\ m.gen \in Nat /\ m.gen > 0 /\ m = queue[1]
      /\ m.text \in Text /\ m.rev \in Nat
  BY <1>1, <1>h, InHand
<1>5. wr'.pc = "done" /\ wr'.gen = wr.gen /\ wr'.stale = wr.stale
  BY <1>1, <1>2 DEF WriterTypes, WrType
<1>7. Gens' \subseteq Gens /\ Metas' = {vol.meta.gen} \ {0}
  BY <1>2, <1>5 DEF Gens, Metas
<1>8. Backed'
  BY <1>1, <1>2, <1>7 DEF RecoveryInv, Backed, Metas
<1>9. Soundness'
  BY <1>1, <1>2, <1>7, SoundGen, SoundMono DEF Soundness, Gens
<1>10. Staged'
  BY <1>2, <1>5, <1>h DEF Staged, InSwitch, Msg
<1>11. Ahead(queue, Top)'
  BY <1>1, <1>2, <1>5, <1>7, AheadSame DEF RecoveryInv
<1>12. Line'
  BY <1>1, <1>2, <1>h, <1>3, LineBusy
<1>13. NoStaleAppend'
  BY <1>1, <1>5 DEF RecoveryInv, NoStaleAppend
<1>14. RecoveryInv'
  BY <1>8, <1>9, <1>10, <1>11, <1>12, <1>13 DEF RecoveryInv, Line
<1>15. WriterTypes'
  BY <1>1, <1>2 DEF WriterTypes, WrType, FilesType
<1>16. ActorTypes'
  <2>1. sig.done \in Nat BY <1>1 DEF ActorTypes, SigType
  <2>2. Max({sig.done, m.gen}) \in Nat BY <1>3, <2>1, MaxTwo
  <2>3. sig' \in SigType BY <1>1, <1>2, <2>2, RingType DEF ActorTypes
  <2> QED BY <1>1, <1>2, <2>3 DEF ActorTypes
<1>17. OtherTypes'
  <2>1. kept' \in Text BY <1>1, <1>2, <1>3, LongerType DEF OtherTypes
  <2> QED BY <1>1, <1>2, <2>1 DEF OtherTypes
<1> QED BY <1>14, <1>15, <1>16, <1>17, TypeNext DEF EInv

LEMMA SwitchRetireInv ==
  ASSUME EInv, NEW unlinked \in BOOLEAN, NEW synced \in BOOLEAN, SwitchRetire(unlinked, synced)
  PROVE  EInv'
<1>m. PICK m : m = Head(queue)
  OBVIOUS
<1> DEFINE old == wr.stray \ {m.gen}
           new == IF unlinked THEN [vol EXCEPT !.snaps = @ \ old, !.logs = @ \ old] ELSE vol
<1>1. TypeOK /\ RecoveryInv /\ ActorTypes /\ WriterTypes /\ OtherTypes
  BY TypeParts DEF EInv
<1>2. /\ wr.pc = "done" /\ plan' \in PlanType
      /\ vol' = new /\ dur' = (IF synced /\ old # {} THEN new ELSE dur)
      /\ wr' = [wr EXCEPT !.pc = "idle", !.stray = IF unlinked THEN {} ELSE old]
      /\ queue' = Tail(queue)
      /\ UNCHANGED <<act, rec, sig, failed, files, doc, flush, made, seen, kept, safe>>
  BY <1>m, <1>1, SpendType DEF SwitchRetire, OtherTypes
<1>h. /\ queue # <<>> /\ m.t = "switch" /\ Staged /\ vol.meta.gen = m.gen /\ wr.gen = m.gen
      /\ dur.meta.gen = m.gen /\ m.gen \in vol.snaps /\ m.gen \in dur.snaps
  BY <1>m, <1>1, <1>2 DEF RecoveryInv, Staged, InSwitch, Msg
<1>3. /\ m \in Message /\ m.gen \in Nat /\ m.gen > 0 /\ Tail(queue) \in Seq(Message)
  BY <1>1, <1>h, <1>m, InHand
<1>4. /\ new.meta = vol.meta /\ m.gen \in new.snaps /\ new \in Directory /\ old \in SUBSET Nat
  BY <1>1, <1>h DEF WriterTypes, Directory, WrType
<1>6. Sound(m.gen) /\ TextAt(m.gen, Len(files.log[m.gen])) = m.text
      /\ Len(files.log[m.gen]) = 0 /\ files.snap[m.gen].rev = m.rev /\ m.rev \in Nat
  BY <1>1, <1>2, <1>m, SwitchSound
<1> HIDE DEF new, old
<1>5. /\ wr'.pc = "idle" /\ wr'.gen = m.gen /\ wr'.stale = wr.stale
      /\ vol'.meta.gen = m.gen /\ dur'.meta.gen = m.gen
      /\ m.gen \in vol'.snaps /\ m.gen \in dur'.snaps
  BY <1>1, <1>2, <1>h, <1>4 DEF WriterTypes, WrType
<1>7. Gens' = {m.gen} /\ Metas' = {m.gen} /\ m.gen \in Gens
  BY <1>3, <1>5, <1>h DEF Gens, Metas
<1>8. Backed'
  BY <1>5, <1>7 DEF Backed
<1>9. Soundness'
  <2>1. Sound(m.gen)' BY <1>2, <1>6, SoundMono
  <2> QED BY <1>5, <1>7, <2>1 DEF Soundness
<1>10. Staged'
  BY <1>5 DEF Staged, InSwitch
<1>11. Ahead(queue, Top)'
  BY <1>1, <1>2, <1>7, <1>h, <1>m, AheadTail DEF RecoveryInv
<1>12. Line'
  <2>1. AtWriter(m.gen, m.text, m.rev)'
    <3>1. AtWriter(m.gen, m.text, m.rev)
      BY <1>3, <1>6, <1>h DEF AtWriter
    <3> QED BY <1>2, <1>5, <1>h, <3>1 DEF AtWriter, TextAt
  <2>2. Serves(m)
    BY <1>h, <2>1 DEF Serves
  <2> QED BY <1>1, <1>2, <1>h, <2>2, <1>m, InvParts, LineTail DEF ActorTypes
<1>13. NoStaleAppend'
  BY <1>1, <1>5 DEF RecoveryInv, NoStaleAppend
<1>14. RecoveryInv'
  BY <1>8, <1>9, <1>10, <1>11, <1>12, <1>13 DEF RecoveryInv, Line
<1>15. WriterTypes'
  <2>1. wr' \in WrType BY <1>1, <1>2, <1>4 DEF WriterTypes, WrType
  <2> QED BY <1>1, <1>2, <1>4, <2>1 DEF WriterTypes, FilesType
<1>16. ActorTypes' /\ OtherTypes'
  BY <1>1, <1>2, <1>3 DEF ActorTypes, OtherTypes
<1> QED BY <1>14, <1>15, <1>16, TypeNext DEF EInv

LEMMA SwitchFailInv ==
  ASSUME EInv, SwitchFail
  PROVE  EInv'
<1>m. PICK m : m = Head(queue)
  OBVIOUS
<1>1. TypeOK /\ RecoveryInv /\ ActorTypes /\ WriterTypes /\ OtherTypes
  BY TypeParts DEF EInv
<1>2. /\ wr.pc \in {"snap", "log", "dir", "meta"} \/ (wr.pc = "idle" /\ Msg("switch"))
      /\ plan' \in PlanType
      /\ wr' = [wr EXCEPT !.pc = "idle", !.stray = @ \cup ({m.gen} \ {wr.gen})]
      /\ failed' = TRUE /\ Ring("failed", Max({sig.failed, m.gen}))
      /\ queue' = Tail(queue)
      /\ UNCHANGED <<act, rec, vol, dur, files, doc, flush, made, seen, kept, safe>>
  BY <1>m, <1>1, SpendType DEF SwitchFail, OtherTypes
<1>h. queue # <<>> /\ m.t = "switch"
  BY <1>m, <1>1, <1>2 DEF RecoveryInv, Staged, InSwitch, Msg
<1>3. /\ m \in Message /\ m.gen \in Nat /\ m.gen > 0 /\ Tail(queue) \in Seq(Message)
  BY <1>1, <1>h, <1>m, InHand
<1>5. wr'.pc = "idle" /\ wr'.gen = wr.gen /\ wr'.stale = wr.stale
  BY <1>1, <1>2 DEF WriterTypes, WrType
<1>7. Gens' = Gens /\ Metas' = Metas
  BY <1>2, <1>5 DEF Gens, Metas
<1>8. Backed'
  BY <1>1, <1>2, <1>7 DEF RecoveryInv, Backed
<1>9. Soundness'
  BY <1>1, <1>2, <1>7, SoundGen, SoundMono DEF Soundness, Gens
<1>10. Staged'
  BY <1>5 DEF Staged, InSwitch
<1>11. Ahead(queue, Top)'
  BY <1>1, <1>2, <1>7, <1>h, <1>m, AheadTail DEF RecoveryInv
<1>12. Line'
  <2>2. Serves(m)
    BY <1>2, <1>h DEF Serves, AtWriter
  <2> QED BY <1>1, <1>2, <1>h, <2>2, <1>m, InvParts, LineTail DEF ActorTypes
<1>13. NoStaleAppend'
  BY <1>1, <1>5 DEF RecoveryInv, NoStaleAppend
<1>14. RecoveryInv'
  BY <1>8, <1>9, <1>10, <1>11, <1>12, <1>13 DEF RecoveryInv, Line
<1>15. WriterTypes'
  <2>1. (wr.stray \cup ({m.gen} \ {wr.gen})) \in SUBSET Nat BY <1>1, <1>3 DEF WriterTypes, WrType
  <2>2. wr' \in WrType BY <1>1, <1>2, <2>1 DEF WriterTypes, WrType
  <2> QED BY <1>1, <1>2, <2>2 DEF WriterTypes, FilesType
<1>16. ActorTypes'
  <2>1. sig.failed \in Nat BY <1>1 DEF ActorTypes, SigType
  <2>2. Max({sig.failed, m.gen}) \in Nat BY <1>3, <2>1, MaxTwo
  <2>3. sig' \in SigType BY <1>1, <1>2, <2>2, RingType DEF ActorTypes
  <2> QED BY <1>1, <1>2, <1>3, <2>3 DEF ActorTypes
<1>17. OtherTypes'
  BY <1>1, <1>2 DEF OtherTypes
<1> QED BY <1>14, <1>15, <1>16, <1>17, TypeNext DEF EInv

\* The head Append carries on where the writer is, unless the writer has failed.
LEMMA HeadAppend ==
  ASSUME TypeOK, RecoveryInv, queue # <<>>, NEW m, m = Head(queue), m.t = "append"
  PROVE  /\ m.gen \in Nat /\ m.rev \in Nat /\ m.id \in Nat /\ m.text \in Text /\ m.text \in seen
         /\ \E text \in Text : m.text = Append(text, m.id) /\ AtWriter(m.gen, text, m.rev - 1)
<1>1. m \in Message /\ m = queue[1] /\ 1 \in 1..Len(queue)
  BY InHand
<1>2. m.gen \in Nat /\ m.rev \in Nat /\ m.id \in Nat /\ m.text \in Text
  BY <1>1, MessageShape
<1>3. m.text \in seen
  BY <1>1 DEF RecoveryInv, Had
<1>4. PICK text \in Text : m.text = Append(text, m.id) /\ Follows(queue, 1, m.gen, text, m.rev - 1)
  BY <1>1 DEF RecoveryInv, Chained
<1>5. AtWriter(m.gen, text, m.rev - 1)
  BY <1>4 DEF Follows
<1> QED BY <1>2, <1>3, <1>4, <1>5

\* A dequeue that leaves the files and the writer's generation alone.
LEMMA PlainTail ==
  ASSUME TypeOK, RecoveryInv, queue # <<>>, NEW m, m = Head(queue), Serves(m), wr.pc = "idle",
         queue' = Tail(queue), wr'.pc = "idle", wr'.gen = wr.gen, ~wr'.stale,
         UNCHANGED <<act, rec, seen, vol, dur, files>>
  PROVE  RecoveryInv'
<1>7. Gens' = Gens /\ Metas' = Metas
  BY DEF Gens, Metas
<1>8. Backed'
  BY <1>7 DEF RecoveryInv, Backed
<1>9. Soundness'
  BY <1>7, SoundGen, SoundMono DEF Soundness, Gens
<1>10. Staged'
  BY DEF Staged, InSwitch
<1>11. Ahead(queue, Top)'
  BY <1>7, AheadTail DEF RecoveryInv
<1>12. Line'
  <2>1. Line /\ queue \in Seq(Message) BY InvParts DEF TypeOK
  <2> QED BY <2>1, LineTail
<1> QED BY <1>8, <1>9, <1>10, <1>11, <1>12 DEF RecoveryInv, Line, NoStaleAppend

LEMMA AppendDroppedInv ==
  ASSUME EInv, AppendDropped
  PROVE  EInv'
<1>m. PICK m : m = Head(queue)
  OBVIOUS
<1>1. TypeOK /\ RecoveryInv /\ ActorTypes /\ WriterTypes /\ OtherTypes
  BY TypeParts DEF EInv
<1>2. /\ wr.pc = "idle" /\ queue # <<>> /\ m.t = "append" /\ (failed \/ m.gen # wr.gen)
      /\ wr' = [wr EXCEPT !.stale = @ \/ ~failed]
      /\ queue' = Tail(queue)
      /\ UNCHANGED <<plan, act, rec, sig, failed, vol, dur, files, doc, flush, made, seen,
                     kept, safe>>
  BY <1>m DEF AppendDropped, Msg
<1>3. failed /\ Tail(queue) \in Seq(Message)
  BY <1>1, <1>2, <1>m, HeadAppend, InHand DEF AtWriter
<1>4. wr'.pc = "idle" /\ wr'.gen = wr.gen /\ ~wr'.stale /\ wr' \in WrType
  <2>1. wr.stale = FALSE BY <1>1 DEF RecoveryInv, NoStaleAppend, WriterTypes, WrType
  <2>2. wr' = [wr EXCEPT !.stale = FALSE] BY <1>2, <1>3, <2>1
  <2> QED BY <1>1, <1>2, <2>2 DEF WriterTypes, WrType
<1>5. Serves(m)
  BY <1>2, <1>3 DEF Serves, AtWriter
<1>6. RecoveryInv'
  BY <1>1, <1>2, <1>4, <1>5, <1>m, PlainTail
<1>7. ActorTypes' /\ WriterTypes' /\ OtherTypes'
  BY <1>1, <1>2, <1>3, <1>4 DEF ActorTypes, WriterTypes, OtherTypes, FilesType
<1> QED BY <1>6, <1>7, TypeNext DEF EInv

LEMMA AppendFailInv ==
  ASSUME EInv, AppendFail
  PROVE  EInv'
<1>m. PICK m : m = Head(queue)
  OBVIOUS
<1>1. TypeOK /\ RecoveryInv /\ ActorTypes /\ WriterTypes /\ OtherTypes
  BY TypeParts DEF EInv
<1>2. /\ wr.pc = "idle" /\ queue # <<>> /\ m.t = "append" /\ plan' \in PlanType
      /\ failed' = TRUE /\ Ring("asked", TRUE)
      /\ queue' = Tail(queue)
      /\ UNCHANGED <<act, rec, wr, vol, dur, files, doc, flush, made, seen, kept, safe>>
  BY <1>1, <1>m, SpendType DEF AppendFail, Msg, RequestSwitch, OtherTypes
<1>3. Tail(queue) \in Seq(Message)
  BY <1>1, <1>2, InHand
<1>5. Serves(m)
  BY <1>2 DEF Serves, AtWriter
<1>6. RecoveryInv'
  <2>1. ~wr.stale BY <1>1 DEF RecoveryInv, NoStaleAppend
  <2> QED BY <1>1, <1>2, <1>5, <1>m, <2>1, PlainTail
<1>8. sig' \in SigType
  BY <1>1, <1>2, RingType DEF ActorTypes
<1>7. ActorTypes' /\ WriterTypes' /\ OtherTypes'
  BY <1>1, <1>2, <1>3, <1>8 DEF ActorTypes, WriterTypes, OtherTypes, FilesType
<1> QED BY <1>6, <1>7, TypeNext DEF EInv

\* What one more record does to a log.
LEMMA LogAppend ==
  ASSUME NEW s \in Text, NEW l \in Seq(Record), NEW r \in Record
  PROVE  LET l2 == Append(l, r)
             At(k, n) == s \o [i \in 1..n |-> k[i].id]
         IN  /\ l2 \in Seq(Record) /\ Len(l) \in Nat /\ Len(l2) = Len(l) + 1
             /\ \A i \in 1..Len(l) : l2[i] = l[i]
             /\ l2[Len(l) + 1] = r
             /\ \A n \in 0..Len(l) : At(l2, n) = At(l, n)
             /\ At(l2, Len(l) + 1) = Append(At(l, Len(l)), r.id)
<1> DEFINE l2 == Append(l, r)
           Ids(k, n) == [i \in 1..n |-> k[i].id]
<1>1. /\ l2 \in Seq(Record) /\ Len(l) \in Nat /\ Len(l2) = Len(l) + 1
      /\ \A i \in 1..Len(l) : l2[i] = l[i]
      /\ l2[Len(l) + 1] = r
  BY AppendProperties, LenProperties
<1> HIDE DEF l2
<1>2. ASSUME NEW n \in 0..Len(l) PROVE Ids(l2, n) = Ids(l, n)
  BY <1>1
<1>3. /\ Ids(l, Len(l)) \in Seq(Nat) /\ Len(Ids(l, Len(l))) = Len(l)
      /\ Ids(l2, Len(l) + 1) \in Seq(Nat) /\ Len(Ids(l2, Len(l) + 1)) = Len(l) + 1
  <2>r. \A x \in Record : x.id \in Nat BY DEF Record
  <2>1. \A i \in 1..Len(l) : l[i].id \in Nat BY <2>r, ElementOfSeq
  <2>2. \A i \in 1..(Len(l) + 1) : l2[i].id \in Nat BY <1>1, <2>r, ElementOfSeq
  <2> QED BY <1>1, <2>1, <2>2
<1>4. Ids(l2, Len(l) + 1) = Append(Ids(l, Len(l)), r.id)
  <2> DEFINE u == Ids(l2, Len(l) + 1)
             v == Append(Ids(l, Len(l)), r.id)
  <2>1. r.id \in Nat BY DEF Record
  <2>2. v \in Seq(Nat) /\ Len(v) = Len(l) + 1 /\ v[Len(l) + 1] = r.id
        /\ \A i \in 1..Len(l) : v[i] = l[i].id
    BY <1>1, <1>3, <2>1, AppendProperties
  <2>3. \A i \in 1..(Len(l) + 1) : u[i] = v[i]
    BY <1>1, <2>2
  <2>4. u \in Seq(Nat) /\ Len(u) = Len(v) BY <1>3, <2>2
  <2> HIDE DEF u, v
  <2>5. u = v BY <2>2, <2>3, <2>4, SeqEqual
  <2> QED BY <2>5 DEF u, v
<1>5. s \o Append(Ids(l, Len(l)), r.id) = Append(s \o Ids(l, Len(l)), r.id)
  <2> DEFINE d == Ids(l, Len(l))
  <2>1. d \in Seq(Nat) /\ r.id \in Nat BY <1>3 DEF Record
  <2> HIDE DEF d
  <2>2. s \o Append(d, r.id) = Append(s \o d, r.id) BY <2>1 DEF Text
  <2> QED BY <2>2 DEF d
<1> QED BY <1>1, <1>2, <1>4, <1>5 DEF l2

LEMMA AppendRecordInv ==
  ASSUME EInv, AppendRecord
  PROVE  EInv'
<1>m. PICK m : m = Head(queue)
  OBVIOUS
<1>1. TypeOK /\ RecoveryInv /\ ActorTypes /\ WriterTypes /\ OtherTypes
  BY TypeParts DEF EInv
<1> DEFINE g == m.gen
           r == [rev |-> m.rev, id |-> m.id]
<1>2. /\ wr.pc = "idle" /\ queue # <<>> /\ m.t = "append" /\ ~failed /\ m.gen = wr.gen
      /\ files' = [files EXCEPT !.log[g] = Append(@, r)]
      /\ \E c \in BOOLEAN : wr' = [wr EXCEPT !.due = TRUE, !.compact = c]
      /\ Ring("asked", TRUE) \/ UNCHANGED sig
      /\ queue' = Tail(queue)
      /\ UNCHANGED <<plan, act, rec, failed, vol, dur, doc, flush, made, seen, kept, safe>>
  <2>1. \A x : (wr.compact \/ x) \in BOOLEAN OBVIOUS
  <2> QED BY <1>m, <2>1 DEF AppendRecord, Msg, RequestSwitch
<1>3. /\ g \in Nat /\ m.rev \in Nat /\ m.id \in Nat /\ m.text \in seen /\ Tail(queue) \in Seq(Message)
  BY <1>1, <1>2, <1>m, HeadAppend, InHand
<1>4. /\ g # 0 /\ g = wr.gen /\ g \in Gens
      /\ m.text = Append(TextAt(g, Len(files.log[g])), m.id)
      /\ m.rev - 1 = files.snap[g].rev + Len(files.log[g])
  BY <1>1, <1>2, <1>m, HeadAppend DEF AtWriter, Gens
<1>5. Sound(g)
  BY <1>1, <1>4, SoundGen
<1>6. /\ g \in DOMAIN files.snap /\ g \in DOMAIN files.log /\ files.snap[g] \in [rev : Nat, text : Text]
      /\ files.log[g] \in Seq(Record) /\ files.synced[g] \in Nat
  BY <1>1, <1>5 DEF Sound, WriterTypes, FilesType
<1>7. /\ files'.snap = files.snap /\ files'.synced = files.synced
      /\ files'.log = [files.log EXCEPT ![g] = Append(@, r)]
  BY <1>1, <1>2 DEF WriterTypes, FilesType
<1>r. r \in Record /\ r.rev = m.rev /\ r.id = m.id
  BY <1>3 DEF Record
<1> HIDE DEF r, g
<1>8. /\ DOMAIN files'.log = DOMAIN files.log /\ files'.log[g] = Append(files.log[g], r)
      /\ \A h \in DOMAIN files.log : h # g => files'.log[h] = files.log[h]
  BY <1>6, <1>7
<1>n. PICK n : n = Len(files.log[g]) /\ n \in Nat
  BY <1>6, LenProperties
<1>9. /\ files'.log[g] \in Seq(Record) /\ Len(files'.log[g]) = n + 1
      /\ \A i \in 1..n : files'.log[g][i] = files.log[g][i]
      /\ files'.log[g][n + 1] = r
      /\ \A k \in 0..n : TextAt(g, k)' = TextAt(g, k)
      /\ TextAt(g, n + 1)' = m.text
  <2>0. PICK s \in Text, l \in Seq(Record) : s = files.snap[g].text /\ l = files.log[g]
    BY <1>6
  <2>2. files'.log[g] = Append(l, r) /\ files'.snap[g].text = s BY <1>7, <1>8, <2>0
  <2>3. \A k : TextAt(g, k) = s \o [i \in 1..k |-> l[i].id] BY <2>0 DEF TextAt
  <2>4. \A k : TextAt(g, k)' = s \o [i \in 1..k |-> Append(l, r)[i].id]
    BY <2>2 DEF TextAt
  <2>5. /\ Append(l, r) \in Seq(Record) /\ Len(Append(l, r)) = n + 1
        /\ \A i \in 1..n : Append(l, r)[i] = l[i]
        /\ Append(l, r)[n + 1] = r
        /\ \A k \in 0..n : s \o [i \in 1..k |-> Append(l, r)[i].id] = s \o [i \in 1..k |-> l[i].id]
        /\ s \o [i \in 1..(n + 1) |-> Append(l, r)[i].id]
             = Append(s \o [i \in 1..n |-> l[i].id], r.id)
    <3>1. n = Len(l) BY <1>n, <2>0
    <3> QED BY <1>r, <3>1, LogAppend
  <2>6. \A k \in 0..n : TextAt(g, k)' = TextAt(g, k)
    BY <2>3, <2>4, <2>5
  <2>7. m.text = Append(TextAt(g, n), r.id)
    BY <1>4, <1>r, <1>n
  <2>8. TextAt(g, n + 1)' = m.text
    BY <2>3, <2>4, <2>5, <2>7
  <2> QED BY <2>0, <2>2, <2>5, <2>6, <2>8
<1>nx. m.rev = files'.snap[g].rev + (n + 1)
  <2>1. PICK x \in Nat : x = files.snap[g].rev BY <1>6
  <2>2. PICK y \in Nat : y = m.rev BY <1>3
  <2>3. y - 1 = x + n BY <1>4, <1>n, <2>1, <2>2
  <2>4. y = x + (n + 1) BY <1>n, <2>3
  <2>5. files'.snap[g].rev = x BY <1>7, <2>1
  <2> QED BY <2>2, <2>4, <2>5
<1>10. Sound(g)'
  <2>1. files'.synced[g] <= n + 1
    BY <1>5, <1>6, <1>7, <1>n DEF Sound
  <2>2. ASSUME NEW i \in 1..(n + 1) PROVE files'.log[g][i].rev = files'.snap[g].rev + i
    <3>1. CASE i \in 1..n
      <4>1. files.log[g][i].rev = files.snap[g].rev + i BY <1>5, <1>n, <3>1 DEF Sound
      <4> QED BY <1>7, <1>9, <3>1, <4>1
    <3>2. CASE i = n + 1
      <4>1. files'.log[g][i].rev = m.rev BY <1>9, <1>r, <3>2
      <4> QED BY <1>nx, <3>2, <4>1
    <3> QED BY <1>n, <3>1, <3>2
  <2>3. ASSUME NEW k \in 0..(n + 1) PROVE TextAt(g, k)' \in seen'
    <3>1. CASE k \in 0..n
      <4>1. TextAt(g, k) \in seen BY <1>5, <1>n, <3>1 DEF Sound
      <4> QED BY <1>2, <1>9, <3>1, <4>1
    <3>2. CASE k = n + 1
      BY <1>2, <1>3, <1>9, <3>2
    <3> QED BY <1>n, <3>1, <3>2
  <2>4. g \in DOMAIN files'.snap /\ g \in DOMAIN files'.log /\ Len(files'.log[g]) = n + 1
    BY <1>6, <1>7, <1>8, <1>9
  <2> QED BY <2>1, <2>2, <2>3, <2>4 DEF Sound
<1>11. wr'.pc = "idle" /\ wr'.gen = g /\ wr'.stale = wr.stale /\ wr' \in WrType
  BY <1>1, <1>2, <1>4 DEF WriterTypes, WrType
<1>12. Gens' = Gens /\ Metas' = Metas
  BY <1>2, <1>4, <1>11 DEF Gens, Metas
<1>13. Backed'
  BY <1>1, <1>2, <1>12 DEF RecoveryInv, Backed
<1>14. Soundness'
  <2>1. ASSUME NEW h \in Gens \ {0}, h # g PROVE Sound(h)'
    <3>1. Sound(h) BY <1>1, <2>1, SoundGen
    <3>2. FilesSame(h) BY <1>7, <1>8, <2>1, <3>1 DEF FilesSame, Sound
    <3> QED BY <1>2, <3>1, <3>2, SoundSame
  <2> QED BY <1>10, <1>12, <2>1 DEF Soundness, Gens
<1>15. Staged'
  BY <1>11 DEF Staged, InSwitch
<1>16. Ahead(queue, Top)'
  BY <1>1, <1>2, <1>12, AheadTail DEF RecoveryInv
<1>17. Line'
  <2>1. AtWriter(m.gen, m.text, m.rev)'
    <3>1. m.rev = files'.snap[g].rev + (n + 1)
      BY <1>nx
    <3>2. AtWriter(g, m.text, m.rev)'
      BY <1>4, <1>9, <1>11, <3>1 DEF AtWriter
    <3> QED BY <3>2 DEF g
  <2>2. Serves(m) BY <1>2, <2>1 DEF Serves
  <2>3. Line /\ queue \in Seq(Message) BY <1>1, InvParts DEF TypeOK
  <2> QED BY <1>2, <1>m, <2>2, <2>3, LineTail
<1>18. NoStaleAppend'
  BY <1>1, <1>11 DEF RecoveryInv, NoStaleAppend
<1>19. RecoveryInv'
  BY <1>13, <1>14, <1>15, <1>16, <1>17, <1>18 DEF RecoveryInv, Line
<1>20. sig' \in SigType
  BY <1>1, <1>2, RingType DEF ActorTypes
<1>21. FilesType(files)'
  BY <1>1, <1>2, <1>7, <1>8, <1>9 DEF WriterTypes, FilesType
<1>22. ActorTypes' /\ WriterTypes' /\ OtherTypes'
  BY <1>1, <1>2, <1>3, <1>11, <1>20, <1>21 DEF ActorTypes, WriterTypes, OtherTypes
<1> QED BY <1>19, <1>22, TypeNext DEF EInv


LEMMA DiscardMetaInv ==
  ASSUME EInv, DiscardMeta
  PROVE  EInv'
<1>1. TypeOK /\ RecoveryInv /\ ActorTypes /\ WriterTypes /\ OtherTypes
  BY TypeParts DEF EInv
<1>2. /\ wr.pc = "idle" /\ queue # <<>> /\ Head(queue).t = "discard"
      /\ vol' = [vol EXCEPT !.meta = NoMeta] /\ dur' = vol'
      /\ wr' = [wr EXCEPT !.pc = "discard", !.gen = 0, !.stray = {}]
      /\ UNCHANGED <<plan, act, rec, sig, queue, failed, files, doc, flush, made, seen, kept, safe>>
  BY DEF DiscardMeta, Msg
<1>3. wr'.pc = "discard" /\ wr'.gen = 0 /\ wr'.stale = wr.stale /\ wr' \in WrType
  BY <1>1, <1>2 DEF WriterTypes, WrType
<1>4. vol' \in Directory /\ vol'.meta.gen = 0
  BY <1>1, <1>2 DEF WriterTypes, Directory, NoMeta
<1>5. Gens' = {0} /\ Metas' = {}
  BY <1>2, <1>3, <1>4 DEF Gens, Metas
<1>6. Backed' /\ Soundness'
  BY <1>3, <1>5 DEF Backed, Soundness
<1>7. Staged'
  BY <1>2, <1>3 DEF Staged, InSwitch, Msg
<1>8. Ahead(queue, Top)'
  BY <1>1, <1>2, <1>5, AheadSame DEF RecoveryInv
<1>9. Line'
  BY <1>1, <1>2, LineBusy
<1>10. RecoveryInv'
  BY <1>1, <1>3, <1>6, <1>7, <1>8, <1>9 DEF RecoveryInv, Line, NoStaleAppend
<1>11. ActorTypes' /\ WriterTypes' /\ OtherTypes'
  BY <1>1, <1>2, <1>3, <1>4 DEF ActorTypes, WriterTypes, OtherTypes, FilesType
<1> QED BY <1>10, <1>11, TypeNext DEF EInv

\* A Discard leaves the FIFO: nothing carries on from it.
LEMMA DiscardTail ==
  ASSUME TypeOK, RecoveryInv, queue # <<>>, Head(queue).t = "discard",
         queue' = Tail(queue), wr'.pc = "idle", wr'.gen \in {wr.gen, 0}, wr'.stale = wr.stale,
         Metas' \subseteq Metas, \A g \in Metas' : g \in vol'.snaps /\ g \in dur'.snaps,
         UNCHANGED <<act, rec, seen, files>>
  PROVE  RecoveryInv'
<1>m. PICK m : m = Head(queue)
  OBVIOUS
<1>1. \A g \in Gens' : g \in Gens \/ g = 0
  BY DEF Gens
<1>2. Backed'
  BY DEF Backed
<1>3. Soundness'
  BY <1>1, SoundGen, SoundMono DEF Soundness, Gens
<1>4. Staged'
  BY DEF Staged, InSwitch
<1>5. Ahead(queue, Top)'
  BY <1>1, AheadTail DEF RecoveryInv
<1>6. Line'
  <2>1. Serves(m) BY <1>m DEF Serves
  <2>2. Line /\ queue \in Seq(Message) BY InvParts DEF TypeOK
  <2> QED BY <1>m, <2>1, <2>2, LineTail
<1> QED BY <1>2, <1>3, <1>4, <1>5, <1>6 DEF RecoveryInv, Line, NoStaleAppend

LEMMA DiscardRestInv ==
  ASSUME EInv, DiscardRest
  PROVE  EInv'
<1>1. TypeOK /\ RecoveryInv /\ ActorTypes /\ WriterTypes /\ OtherTypes
  BY TypeParts DEF EInv
<1>2. /\ wr.pc = "discard" /\ vol' = NoDir /\ dur' = NoDir
      /\ wr' = [wr EXCEPT !.pc = "idle"] /\ failed' = FALSE /\ queue' = Tail(queue)
      /\ UNCHANGED <<plan, act, rec, sig, files, doc, flush, made, seen, kept, safe>>
  BY DEF DiscardRest
<1>h. queue # <<>> /\ Head(queue).t = "discard"
  BY <1>1, <1>2 DEF RecoveryInv, Staged, Msg
<1>3. wr'.pc = "idle" /\ wr'.gen = wr.gen /\ wr'.stale = wr.stale /\ wr' \in WrType
  BY <1>1, <1>2 DEF WriterTypes, WrType
<1>4. NoDir \in Directory /\ NoDir.meta.gen = 0
  BY DEF NoDir, NoMeta, Directory
<1>5. Metas' = {}
  BY <1>2, <1>4 DEF Metas
<1>6. RecoveryInv'
  BY <1>1, <1>2, <1>h, <1>3, <1>5, DiscardTail
<1>7. Tail(queue) \in Seq(Message)
  BY <1>1, <1>h, InHand
<1>8. ActorTypes' /\ WriterTypes' /\ OtherTypes'
  BY <1>1, <1>2, <1>3, <1>4, <1>7 DEF ActorTypes, WriterTypes, OtherTypes, FilesType
<1> QED BY <1>6, <1>8, TypeNext DEF EInv

LEMMA DiscardFailInv ==
  ASSUME EInv, NEW unlinked \in BOOLEAN, DiscardFail(unlinked)
  PROVE  EInv'
<1>1. TypeOK /\ RecoveryInv /\ ActorTypes /\ WriterTypes /\ OtherTypes
  BY TypeParts DEF EInv
<1>2. /\ wr.pc = "discard" \/ (wr.pc = "idle" /\ Msg("discard"))
      /\ plan' \in PlanType
      /\ vol' = (IF unlinked THEN [vol EXCEPT !.meta = NoMeta] ELSE vol)
      /\ wr' = [wr EXCEPT !.pc = "idle", !.gen = 0, !.stray = {}]
      /\ failed' = FALSE /\ queue' = Tail(queue)
      /\ UNCHANGED <<act, rec, sig, dur, files, doc, flush, made, seen, kept, safe>>
  BY <1>1, SpendType DEF DiscardFail, OtherTypes
<1>h. queue # <<>> /\ Head(queue).t = "discard"
  BY <1>1, <1>2 DEF RecoveryInv, Staged, Msg
<1>3. wr'.pc = "idle" /\ wr'.gen = 0 /\ wr'.stale = wr.stale /\ wr' \in WrType
  BY <1>1, <1>2 DEF WriterTypes, WrType
<1>4. vol' \in Directory /\ vol'.meta.gen \in {0, vol.meta.gen} /\ vol'.snaps = vol.snaps
  BY <1>1, <1>2 DEF WriterTypes, Directory, NoMeta
<1>5. Metas' \subseteq Metas
  BY <1>2, <1>4 DEF Metas
<1>5a. \A g \in Metas' : g \in vol'.snaps /\ g \in dur'.snaps
  BY <1>1, <1>2, <1>4, <1>5 DEF RecoveryInv, Backed
<1>6. RecoveryInv'
  BY <1>1, <1>2, <1>h, <1>3, <1>5, <1>5a, DiscardTail
<1>7. Tail(queue) \in Seq(Message)
  BY <1>1, <1>h, InHand
<1>8. ActorTypes' /\ WriterTypes' /\ OtherTypes'
  BY <1>1, <1>2, <1>3, <1>4, <1>7 DEF ActorTypes, WriterTypes, OtherTypes, FilesType
<1> QED BY <1>6, <1>8, TypeNext DEF EInv


\* A sync only moves the count of synced records, or fails.
LEMMA SyncFacts ==
  ASSUME TypeOK, RecoveryInv, NEW ok \in BOOLEAN, Sync(ok), UNCHANGED seen
  PROVE  /\ files'.snap = files.snap /\ files'.log = files.log
         /\ \A g \in Gens \ {0} : Sound(g)'
         /\ FilesType(files)' /\ failed' \in BOOLEAN /\ (failed => failed')
         /\ sig' \in SigType /\ kept' \in Text /\ plan' \in PlanType
<1>1. ActorTypes /\ WriterTypes /\ OtherTypes
  BY TypeParts
<1>2. \A g \in Gens \ {0} : Sound(g)
  BY SoundGen
<1>3. CASE ok /\ Unsynced
  <2>g. PICK g \in Nat : g = wr.gen BY <1>1 DEF WriterTypes, WrType
  <2>1. /\ files' = [files EXCEPT !.synced[g] = Len(files.log[g])]
        /\ kept' = (IF Wanted THEN Longer(kept, Logged(g)) ELSE kept)
        /\ UNCHANGED <<plan, failed, sig>>
    BY <1>3, <2>g DEF Sync
  <2>2. g # 0 /\ g \in Gens /\ Sound(g)
    BY <1>2, <1>3, <2>g DEF Unsynced, Gens
  <2>3. g \in DOMAIN files.log /\ files.log[g] \in Seq(Record) /\ Len(files.log[g]) \in Nat
    BY <1>1, <2>2, LenProperties DEF Sound, WriterTypes, FilesType
  <2>4. /\ files'.snap = files.snap /\ files'.log = files.log
        /\ files'.synced = [files.synced EXCEPT ![g] = Len(files.log[g])]
        /\ files.synced \in [DOMAIN files.log -> Nat]
    BY <1>1, <2>1 DEF WriterTypes, FilesType
  <2>5. FilesType(files)'
    BY <1>1, <2>1, <2>3, <2>4 DEF WriterTypes, FilesType
  <2>6. ASSUME NEW h \in Gens \ {0} PROVE Sound(h)'
    <3>1. Sound(h) BY <1>2
    <3>2. files'.synced[h] <= Len(files.log[h])
      <4>1. CASE h = g BY <2>3, <2>4, <4>1
      <4>2. CASE h # g BY <2>4, <3>1, <4>2 DEF Sound
      <4> QED BY <4>1, <4>2
    <3> QED BY <2>4, <3>1, <3>2 DEF Sound, TextAt
  <2>7. kept' \in Text
    <3>1. Logged(g) = TextAt(g, Len(files.log[g])) BY DEF Logged, TextAt
    <3>2. Len(files.log[g]) \in 0..Len(files.log[g]) BY <2>3
    <3>3. Logged(g) \in seen BY <2>2, <3>1, <3>2 DEF Sound
    <3>4. Logged(g) \in Text /\ kept \in Text BY <1>1, <3>3 DEF ActorTypes, OtherTypes
    <3> QED BY <2>1, <3>4, LongerType
  <2> QED BY <1>1, <2>1, <2>4, <2>5, <2>6, <2>7 DEF ActorTypes, OtherTypes, WriterTypes
<1>4. CASE ok /\ ~Unsynced
  <2>1. UNCHANGED <<files, kept, plan, failed, sig>> BY <1>4 DEF Sync
  <2> QED BY <1>1, <1>2, <2>1, SoundMono DEF ActorTypes, OtherTypes, WriterTypes, FilesType
<1>5. CASE ~ok
  <2>1. UNCHANGED <<files, kept>> /\ failed' = TRUE /\ Ring("asked", TRUE) /\ Spend({"faults"})
    BY <1>5 DEF Sync, RequestSwitch
  <2>2. sig' \in SigType BY <1>1, <2>1, RingType DEF ActorTypes
  <2>3. plan' \in PlanType BY <1>1, <2>1, SpendType DEF OtherTypes
  <2> QED BY <1>1, <1>2, <2>1, <2>2, <2>3, SoundMono DEF ActorTypes, OtherTypes, WriterTypes, FilesType
<1> QED BY <1>3, <1>4, <1>5

LEMMA SyncedAt ==
  ASSUME files'.snap = files.snap, files'.log = files.log, failed => failed', wr'.gen = wr.gen
  PROVE  \A g, text, rev : AtWriter(g, text, rev) => AtWriter(g, text, rev)'
  BY DEF AtWriter, TextAt

LEMMA SyncDueInv ==
  ASSUME EInv, NEW ok \in BOOLEAN, SyncDue(ok)
  PROVE  EInv'
<1>1. TypeOK /\ RecoveryInv /\ ActorTypes /\ WriterTypes /\ OtherTypes
  BY TypeParts DEF EInv
<1>2. /\ wr.pc = "idle" /\ Sync(ok)
      /\ wr' = [wr EXCEPT !.due = FALSE]
      /\ UNCHANGED <<act, rec, queue, vol, dur, doc, flush, made, seen, safe>>
  BY DEF SyncDue
<1>3. wr'.pc = "idle" /\ wr'.gen = wr.gen /\ wr'.stale = wr.stale /\ wr' \in WrType
  BY <1>1, <1>2 DEF WriterTypes, WrType
<1>4. /\ files'.snap = files.snap /\ files'.log = files.log
      /\ \A g \in Gens \ {0} : Sound(g)'
      /\ FilesType(files)' /\ failed' \in BOOLEAN /\ (failed => failed')
      /\ sig' \in SigType /\ kept' \in Text /\ plan' \in PlanType
  BY <1>1, <1>2, SyncFacts
<1>5. Gens' = Gens /\ Metas' = Metas
  BY <1>2, <1>3 DEF Gens, Metas
<1>6. Backed' /\ Soundness'
  BY <1>1, <1>2, <1>4, <1>5 DEF RecoveryInv, Backed, Soundness, Gens
<1>7. Staged'
  BY <1>3 DEF Staged, InSwitch
<1>8. Ahead(queue, Top)'
  BY <1>1, <1>2, <1>5, AheadSame DEF RecoveryInv
<1>9. Line'
  <2>1. \A g, text, rev : AtWriter(g, text, rev) => AtWriter(g, text, rev)'
    BY <1>3, <1>4, SyncedAt
  <2> QED BY <1>1, <1>2, <2>1, InvParts, LineSame
<1>10. RecoveryInv'
  BY <1>1, <1>3, <1>6, <1>7, <1>8, <1>9 DEF RecoveryInv, Line, NoStaleAppend
<1>11. ActorTypes' /\ WriterTypes' /\ OtherTypes'
  BY <1>1, <1>2, <1>3, <1>4 DEF ActorTypes, WriterTypes, OtherTypes
<1> QED BY <1>10, <1>11, TypeNext DEF EInv

LEMMA FlushTokenInv ==
  ASSUME EInv, NEW ok \in BOOLEAN, FlushToken(ok)
  PROVE  EInv'
<1>m. PICK m : m = Head(queue)
  OBVIOUS
<1>1. TypeOK /\ RecoveryInv /\ ActorTypes /\ WriterTypes /\ OtherTypes
  BY TypeParts DEF EInv
<1>2. /\ wr.pc = "idle" /\ queue # <<>> /\ m.t = "flush" /\ Sync(ok)
      /\ wr' = [wr EXCEPT !.due = FALSE]
      /\ flush' = [flush EXCEPT !.left = @ \ {m.of}]
      /\ queue' = Tail(queue)
      /\ UNCHANGED <<act, rec, vol, dur, doc, made, seen, safe>>
  BY <1>m DEF FlushToken, Msg
<1>3. wr'.pc = "idle" /\ wr'.gen = wr.gen /\ wr'.stale = wr.stale /\ wr' \in WrType
  BY <1>1, <1>2 DEF WriterTypes, WrType
<1>4. /\ files'.snap = files.snap /\ files'.log = files.log
      /\ \A g \in Gens \ {0} : Sound(g)'
      /\ FilesType(files)' /\ failed' \in BOOLEAN /\ (failed => failed')
      /\ sig' \in SigType /\ kept' \in Text /\ plan' \in PlanType
  BY <1>1, <1>2, SyncFacts
<1>5. Gens' = Gens /\ Metas' = Metas
  BY <1>2, <1>3 DEF Gens, Metas
<1>6. Backed' /\ Soundness'
  BY <1>1, <1>2, <1>4, <1>5 DEF RecoveryInv, Backed, Soundness, Gens
<1>7. Staged'
  BY <1>3 DEF Staged, InSwitch
<1>8. Ahead(queue, Top)'
  BY <1>1, <1>2, <1>5, AheadTail DEF RecoveryInv
<1>9. Line'
  <2>1. \A g, text, rev : AtWriter(g, text, rev) => AtWriter(g, text, rev)'
    BY <1>3, <1>4, SyncedAt
  <2>2. Serves(m) BY <1>2, <2>1 DEF Serves
  <2>3. Line /\ queue \in Seq(Message) BY <1>1, InvParts DEF TypeOK
  <2> QED BY <1>m, <1>2, <2>2, <2>3, LineTail
<1>10. RecoveryInv'
  BY <1>1, <1>3, <1>6, <1>7, <1>8, <1>9 DEF RecoveryInv, Line, NoStaleAppend
<1>11. flush' \in FlushType /\ Tail(queue) \in Seq(Message)
  <2>1. flush' \in FlushType BY <1>1, <1>2 DEF OtherTypes, FlushType
  <2> QED BY <1>1, <1>2, <2>1, InHand
<1>12. ActorTypes' /\ WriterTypes' /\ OtherTypes'
  BY <1>1, <1>2, <1>3, <1>4, <1>11 DEF ActorTypes, WriterTypes, OtherTypes
<1> QED BY <1>10, <1>12, TypeNext DEF EInv


-----------------------------------------------------------------------------
(* A crash, and restore *)

LEMMA MaxUpTo ==
  ASSUME NEW n \in Nat
  PROVE  Max(0..n) = n
<1>1. n \in 0..n /\ \A y \in 0..n : n >= y
  OBVIOUS
<1>2. \A x \in 0..n : (\A y \in 0..n : x >= y) => x = n
  BY <1>1
<1> QED BY <1>1, <1>2 DEF Max

\* Every record of a sound log replays.
LEMMA ReplayAll ==
  ASSUME NEW g, Sound(g), NEW n \in 0..Len(files.log[g]), Len(files.log[g]) \in Nat
  PROVE  Replay(g, n) = TextAt(g, n)
<1> DEFINE ok == {k \in 0..n : \A i \in 1..k : files.log[g][i].rev = files.snap[g].rev + i}
<1>1. ok = 0..n
  <2>1. ASSUME NEW k \in 0..n, NEW i \in 1..k
        PROVE  files.log[g][i].rev = files.snap[g].rev + i
    <3>1. i \in 1..Len(files.log[g]) BY <2>1
    <3> QED BY <3>1 DEF Sound
  <2> QED BY <2>1
<1> HIDE DEF ok
<1>2. Max(ok) = n
  BY <1>1, MaxUpTo
<1>3. Replay(g, n) = files.snap[g].text \o [i \in 1..Max(ok) |-> files.log[g][i].id]
  BY DEF Replay, ok
<1> QED BY <1>2, <1>3 DEF TextAt

\* The log a crash leaves is a prefix of the log there was.
LEMMA LengthsIn ==
  ASSUME TypeOK, NEW g, Sound(g), NEW power \in BOOLEAN, NEW n \in Lengths(g, power)
  PROVE  n \in 0..Len(files.log[g]) /\ Len(files.log[g]) \in Nat
<1>1. files.log[g] \in Seq(Record) /\ files.synced[g] \in Nat
  BY TypeParts DEF Sound, WriterTypes, FilesType
<1>2. Len(files.log[g]) \in Nat
  BY <1>1, LenProperties
<1>3. files.synced[g]..Len(files.log[g]) \subseteq 0..Len(files.log[g])
  BY <1>1, <1>2
<1>4. n \in files.synced[g]..Len(files.log[g]) \/ n = Len(files.log[g]) \/ n = 0
  BY DEF Lengths
<1> QED BY <1>2, <1>3, <1>4

\* What restore finds for either meta: nothing, or a text the buffer has had.
LEMMA LoadFacts ==
  ASSUME TypeOK, RecoveryInv, NEW power \in BOOLEAN, NEW m \in {vol.meta, dur.meta},
         NEW l \in Loads(m, power)
  PROVE  /\ l.meta = m /\ m \in [gen : Nat, base : Nat] /\ l.kind \in {"none", "text"}
         /\ l.text \in Text
         /\ l.kind = "none" => m.gen = 0
         /\ l.kind = "text" =>
              /\ m.gen # 0 /\ m.gen \in vol.snaps /\ m.gen \in dur.snaps /\ Sound(m.gen)
              /\ l.len \in 0..Len(files.log[m.gen]) /\ Len(files.log[m.gen]) \in Nat
              /\ l.text = TextAt(m.gen, l.len) /\ l.text \in seen
<1>1. m \in [gen : Nat, base : Nat]
  BY DEF TypeOK, Directory
<1>2. CASE m.gen = 0
  <2>1. l = [kind |-> "none", meta |-> m, text |-> <<>>, len |-> 0]
    BY <1>2 DEF Loads
  <2>2. <<>> \in Text BY DEF Text
  <2> QED BY <1>1, <1>2, <2>1, <2>2
<1>3. CASE m.gen # 0
  <2>1. m.gen \in Metas /\ m.gen \in Gens
    BY <1>3 DEF Metas, Gens
  <2>2. m.gen \in vol.snaps /\ m.gen \in dur.snaps /\ Sound(m.gen)
    BY <1>3, <2>1, SoundGen DEF RecoveryInv, Backed
  <2>3. ~Gone(m.gen, vol.snaps, dur.snaps, power)
    BY <2>2 DEF Gone
  <2>4. PICK n \in Lengths(m.gen, power) :
          l = [kind |-> "text", meta |-> m, text |-> Replay(m.gen, n), len |-> n]
    BY <1>3, <2>3 DEF Loads
  <2>5. n \in 0..Len(files.log[m.gen]) /\ Len(files.log[m.gen]) \in Nat
    BY <2>2, LengthsIn
  <2>6. Replay(m.gen, n) = TextAt(m.gen, n)
    BY <2>2, <2>5, ReplayAll
  <2>7. TextAt(m.gen, n) \in seen /\ seen \subseteq Text
    BY <2>2, <2>5 DEF Sound, TypeOK
  <2> QED BY <1>1, <1>3, <2>2, <2>4, <2>5, <2>6, <2>7
<1> QED BY <1>2, <1>3

LEMMA ImageFacts ==
  ASSUME TypeOK, NEW power \in BOOLEAN, NEW i \in Images(power)
  PROVE  /\ i.doc \in Document
         /\ \E m \in {vol.meta, dur.meta} : (power \/ m = vol.meta) /\ i.load \in Loads(m, power)
<1>1. \E m \in (IF power THEN {vol.meta, dur.meta} ELSE {vol.meta}) : i.load \in Loads(m, power)
  BY DEF Images
<1>2. i.doc \in {doc.now, doc.dur}
  BY DEF Images
<1>3. doc.now \in Document /\ doc.dur \in Document
  BY DEF TypeOK
<1> QED BY <1>1, <1>2, <1>3

\* No crash quarantines the rid, and each brings back a text the buffer has had.
LEMMA InvNeverMalformed ==
  ASSUME EInv
  PROVE  NeverMalformed
<1>1. TypeOK /\ RecoveryInv BY DEF EInv
<1> SUFFICES ASSUME NEW i \in Images(TRUE) PROVE i.load.kind # "malformed"
  BY DEF NeverMalformed
<1> QED BY <1>1, ImageFacts, LoadFacts

LEMMA InvRestoresAPast ==
  ASSUME EInv
  PROVE  RestoresAPast
<1>1. TypeOK /\ RecoveryInv BY DEF EInv
<1> SUFFICES ASSUME NEW i \in Images(TRUE), i.load.kind = "text" PROVE i.load.text \in seen
  BY DEF RestoresAPast
<1> QED BY <1>1, ImageFacts, LoadFacts


\* A log cut back to its first n records is as sound as it was.
LEMMA CutSound ==
  ASSUME TypeOK, NEW g \in Nat, Sound(g), NEW n \in 0..Len(files.log[g]), Len(files.log[g]) \in Nat,
         files' = [files EXCEPT !.log[g] = SubSeq(@, 1, n), !.synced[g] = n], UNCHANGED seen
  PROVE  Sound(g)' /\ FilesType(files)'
<1>1. /\ g \in DOMAIN files.snap /\ g \in DOMAIN files.log /\ files.log[g] \in Seq(Record)
      /\ FilesType(files)
  BY TypeParts DEF Sound, WriterTypes, FilesType
<1>2. /\ files'.snap = files.snap
      /\ files'.log = [files.log EXCEPT ![g] = SubSeq(@, 1, n)]
      /\ files'.synced = [files.synced EXCEPT ![g] = n]
      /\ files.synced \in [DOMAIN files.log -> Nat]
  BY <1>1 DEF FilesType
<1>3. PICK l \in Seq(Record) : l = files.log[g]
  BY <1>1
<1>4. /\ SubSeq(l, 1, n) \in Seq(Record) /\ Len(SubSeq(l, 1, n)) = n
      /\ \A i \in 1..n : SubSeq(l, 1, n)[i] = l[i]
  <2>1. n \in Nat /\ n <= Len(l) /\ Len(l) \in Nat BY <1>3
  <2>2. \A i \in 1..n : l[i] \in Record BY <2>1, ElementOfSeq
  <2> QED BY <2>1, <2>2, SubSeqProperties
<1>5. files'.log[g] = SubSeq(l, 1, n) /\ files'.synced[g] = n /\ DOMAIN files'.log = DOMAIN files.log
  BY <1>1, <1>2, <1>3
<1>6. ASSUME NEW k \in 0..n PROVE TextAt(g, k)' = TextAt(g, k)
  <2>1. \A i \in 1..k : files'.log[g][i].id = files.log[g][i].id
    BY <1>3, <1>4, <1>5
  <2>2. [i \in 1..k |-> files'.log[g][i].id] = [i \in 1..k |-> files.log[g][i].id]
    BY <2>1
  <2> QED BY <1>2, <2>2 DEF TextAt
<1>7. Len(files'.log[g]) = n
  BY <1>4, <1>5
<1>8. Sound(g)'
  <2>1. ASSUME NEW i \in 1..n PROVE files'.log[g][i].rev = files'.snap[g].rev + i
    <3>1. i \in 1..Len(files.log[g]) OBVIOUS
    <3> QED BY <1>2, <1>3, <1>4, <1>5, <3>1 DEF Sound
  <2>2. ASSUME NEW k \in 0..n PROVE TextAt(g, k)' \in seen'
    <3>1. k \in 0..Len(files.log[g]) OBVIOUS
    <3> QED BY <1>6, <3>1 DEF Sound
  <2> QED BY <1>1, <1>2, <1>5, <1>7, <2>1, <2>2 DEF Sound
<1>9. FilesType(files)'
  <2>1. files'.log \in [DOMAIN files.log -> Seq(Record)]
    BY <1>1, <1>2, <1>3, <1>4 DEF FilesType
  <2>2. files'.synced \in [DOMAIN files.log -> Nat]
    <3>1. n \in Nat OBVIOUS
    <3>2. PICK c \in [DOMAIN files.log -> Nat] : c = files.synced BY <1>2
    <3>3. files'.synced = [c EXCEPT ![g] = n] BY <1>2, <3>2
    <3> QED BY <3>1, <3>2, <3>3
  <2>3. files'.snap \in [DOMAIN files.snap -> [rev : Nat, text : Text]] BY <1>1, <1>2 DEF FilesType
  <2>4. files' = [snap |-> files'.snap, log |-> files'.log, synced |-> files'.synced]
    BY <1>1 DEF FilesType
  <2> QED BY <1>2, <1>5, <2>1, <2>2, <2>3, <2>4 DEF FilesType
<1> QED BY <1>8, <1>9

\* A restored buffer's writer starts with at most one message of restore's own.
LEMMA RestoreLine ==
  ASSUME NEW g \in Nat, NEW text, NEW base, UNCHANGED seen,
         wr'.gen = g, wr'.pc = "idle", rec'.gen = g, Metas' \subseteq {g},
         act'.pc \in {"restoring", "gone"}, act'.text = text, act'.rev = 0,
         \/ queue' = <<>> /\ act'.pc = "gone"
         \/ queue' = <<[t |-> "discard"]>> /\ ~act'.restored
         \/ /\ queue' = <<[t |-> "switch", gen |-> g + 1, rev |-> 0, text |-> text, base |-> base]>>
            /\ act'.restored /\ act'.pc = "restoring" /\ text \in seen
  PROVE  Ahead(queue, Top)' /\ Line'
<1>1. CASE queue' = <<>> /\ act'.pc = "gone"
  BY <1>1 DEF Ahead, Rising, Top, Line, Chained, Had, Attached
<1>2. CASE queue' = <<[t |-> "discard"]>> /\ ~act'.restored
  <2>1. Len(queue') = 1 /\ queue'[1].t = "discard" BY <1>2
  <2>2. Top' = g BY <1>2 DEF Top
  <2>3. Ahead(queue, Top)' BY <2>1, <2>2 DEF Ahead, Rising
  <2>4. Line' BY <1>2, <2>1 DEF Line, Chained, Had, Attached
  <2> QED BY <2>3, <2>4
<1>3. CASE /\ queue' = <<[t |-> "switch", gen |-> g + 1, rev |-> 0, text |-> text, base |-> base]>>
           /\ act'.restored /\ act'.pc = "restoring" /\ text \in seen
  <2>1. /\ Len(queue') = 1 /\ queue'[1].t = "switch" /\ queue'[1].gen = g + 1
        /\ queue'[1].text = text /\ queue'[1].rev = 0
    BY <1>3
  <2>2. Top' = g + 1 BY <1>3 DEF Top
  <2>3. Ahead(queue, Top)' BY <2>1, <2>2 DEF Ahead, Rising
  <2>4. Chained(queue)' /\ Had(queue, seen)' BY <1>3, <2>1 DEF Chained, Had
  <2>5. PICK q : q = queue' OBVIOUS
  <2>6. Follows(q, 2, g + 1, text, 0)'
    <3>1. \E j \in 1..(2 - 1) :
            /\ q[j].t \in {"switch", "append"}
            /\ q[j].gen = g + 1 /\ q[j].text = text /\ q[j].rev = 0
            /\ \A k \in (j + 1)..(2 - 1) : q[k].t = "flush"
      <4> WITNESS 1 \in 1..(2 - 1)
      <4> QED BY <2>1, <2>5
    <3> QED BY <3>1 DEF Follows
  <2>7. Attached'
    BY <1>3, <2>1, <2>5, <2>6 DEF Attached, Follows
  <2> QED BY <2>3, <2>4, <2>7 DEF Line
<1> QED BY <1>1, <1>2, <1>3


LEMMA CrashInv ==
  ASSUME EInv, NEW power \in BOOLEAN, Crash(power)
  PROVE  EInv'
<1>1. TypeOK /\ RecoveryInv /\ ActorTypes /\ WriterTypes /\ OtherTypes
  BY TypeParts DEF EInv
<1>i. PICK i \in Images(power) :
        LET l == i.load
            g == l.meta.gen
            clean == l.text = i.doc.text
            base  == IF clean THEN i.doc.ver ELSE l.meta.base
            image == [meta |-> l.meta, snaps |-> {g} \ {0}, logs |-> {g} \ {0}]
        IN  /\ Spend({"crashes"})
            /\ vol' = (IF power THEN image ELSE Swept(vol, g))
            /\ dur' = (IF power THEN image ELSE vol)
            /\ files' = IF power /\ l.kind = "text"
                          THEN [files EXCEPT !.log[g] = SubSeq(@, 1, l.len), !.synced[g] = l.len]
                          ELSE files
            /\ doc' = [doc EXCEPT !.now = i.doc, !.dur = i.doc]
            /\ act' = [pc |-> IF l.kind = "text" THEN "restoring" ELSE "gone",
                       text |-> l.text, rev |-> 0, saved |-> IF clean THEN 0 ELSE -1,
                       restored |-> ~clean, base |-> base, durable |-> TRUE]
            /\ queue' = IF l.kind # "text" THEN <<>>
                        ELSE IF clean THEN <<[t |-> "discard"]>>
                        ELSE <<RestoreSwitch(l, base)>>
            /\ rec' = [NoRec EXCEPT !.gen = g]
            /\ wr' = [Idle(g) EXCEPT !.stale = wr.stale]
            /\ sig' = NoSig /\ failed' = FALSE /\ flush' = NoFlush
            /\ UNCHANGED <<made, seen, kept, safe>>
  BY DEF Crash
<1>l. PICK l : l = i.load
  OBVIOUS
<1>d. PICK d \in Document : d = i.doc
  BY <1>1, ImageFacts
<1>2. PICK m \in {vol.meta, dur.meta} : (power \/ m = vol.meta) /\ l \in Loads(m, power)
  BY <1>1, <1>l, ImageFacts
<1>3. /\ l.meta = m /\ m \in [gen : Nat, base : Nat] /\ l.kind \in {"none", "text"}
      /\ l.text \in Text
      /\ l.kind = "none" => m.gen = 0
      /\ l.kind = "text" =>
           /\ m.gen # 0 /\ m.gen \in vol.snaps /\ m.gen \in dur.snaps /\ Sound(m.gen)
           /\ l.len \in 0..Len(files.log[m.gen]) /\ Len(files.log[m.gen]) \in Nat
           /\ l.text = TextAt(m.gen, l.len) /\ l.text \in seen
  BY <1>1, <1>2, LoadFacts
<1>g. PICK g \in Nat : g = m.gen
  BY <1>3
<1>c. PICK clean \in BOOLEAN : clean = (l.text = d.text)
  OBVIOUS
<1>b. PICK base \in Nat : base = IF clean THEN d.ver ELSE m.base
  <2>1. d.ver \in Nat /\ m.base \in Nat BY <1>3 DEF Document
  <2> QED BY <2>1
<1>4. /\ Spend({"crashes"})
      /\ vol' = (IF power THEN [meta |-> m, snaps |-> {g} \ {0}, logs |-> {g} \ {0}] ELSE Swept(vol, g))
      /\ dur' = (IF power THEN [meta |-> m, snaps |-> {g} \ {0}, logs |-> {g} \ {0}] ELSE vol)
      /\ files' = IF power /\ l.kind = "text"
                    THEN [files EXCEPT !.log[g] = SubSeq(@, 1, l.len), !.synced[g] = l.len]
                    ELSE files
      /\ doc' = [doc EXCEPT !.now = d, !.dur = d]
      /\ act' = [pc |-> IF l.kind = "text" THEN "restoring" ELSE "gone",
                 text |-> l.text, rev |-> 0, saved |-> IF clean THEN 0 ELSE -1,
                 restored |-> ~clean, base |-> base, durable |-> TRUE]
      /\ queue' = IF l.kind # "text" THEN <<>>
                  ELSE IF clean THEN <<[t |-> "discard"]>>
                  ELSE <<RestoreSwitch(l, base)>>
      /\ rec' = [NoRec EXCEPT !.gen = g]
      /\ wr' = [Idle(g) EXCEPT !.stale = wr.stale]
      /\ sig' = NoSig /\ failed' = FALSE /\ flush' = NoFlush
      /\ UNCHANGED <<made, seen, kept, safe>>
  BY <1>i, <1>l, <1>d, <1>3, <1>g, <1>c, <1>b
<1>5. /\ rec' \in RecType /\ rec'.gen = g /\ rec'.out = 0
      /\ wr' \in WrType /\ wr'.pc = "idle" /\ wr'.gen = g /\ wr'.stale = wr.stale
  <2>1. wr.stale \in BOOLEAN BY <1>1 DEF WriterTypes, WrType
  <2> QED BY <1>4, <2>1 DEF RecType, WrType, NoRec, Idle
<1>6. /\ act' \in ActType /\ act'.text = l.text /\ act'.rev = 0 /\ act'.restored = ~clean
      /\ act'.pc = IF l.kind = "text" THEN "restoring" ELSE "gone"
  <2> DEFINE pc == IF l.kind = "text" THEN "restoring" ELSE "gone"
             saved == IF clean THEN 0 ELSE -1
  <2>1. pc \in {"restoring", "gone"} /\ saved \in Nat \cup {-1} /\ (~clean) \in BOOLEAN OBVIOUS
  <2>2. act' = [pc |-> pc, text |-> l.text, rev |-> 0, saved |-> saved, restored |-> ~clean,
                base |-> base, durable |-> TRUE]
    BY <1>4
  <2> HIDE DEF pc, saved
  <2>3. act'.text = l.text /\ act'.rev = 0 /\ act'.restored = ~clean /\ act'.pc = pc BY <2>2
  <2>4. act' \in ActType BY <1>3, <2>1, <2>2 DEF ActType
  <2> QED BY <2>3, <2>4 DEF pc
<1>7. vol' \in Directory /\ dur' \in Directory /\ vol'.meta = m /\ dur'.meta = m
  <2>1. CASE power
    BY <1>3, <1>4, <2>1 DEF Directory
  <2>2. CASE ~power
    <3>1. vol' = [vol EXCEPT !.snaps = @ \cap {g}, !.logs = @ \cap {g}] /\ dur' = vol /\ m = vol.meta
      BY <1>2, <1>4, <2>2 DEF Swept
    <3> QED BY <1>1, <3>1 DEF WriterTypes, Directory
  <2> QED BY <2>1, <2>2
<1>8. Metas' = {g} \ {0}
  BY <1>7, <1>g DEF Metas
<1>9. Backed'
  <2>1. CASE g = 0 BY <1>8, <2>1 DEF Backed
  <2>2. CASE g # 0
    <3>1. g \in vol.snaps BY <1>3, <1>g, <2>2
    <3>2. g \in vol'.snaps /\ g \in dur'.snaps
      <4>1. CASE power BY <1>4, <2>2, <4>1
      <4>2. CASE ~power BY <1>1, <1>4, <3>1, <4>2 DEF Swept, WriterTypes, Directory
      <4> QED BY <4>1, <4>2
    <3> QED BY <1>8, <3>2 DEF Backed
  <2> QED BY <2>1, <2>2
<1>10. FilesType(files)' /\ (g # 0 => Sound(g)')
  <2>1. CASE power /\ l.kind = "text"
    <3>1. PICK n \in 0..Len(files.log[g]) : n = l.len BY <1>3, <1>g, <2>1
    <3>2. files' = [files EXCEPT !.log[g] = SubSeq(@, 1, n), !.synced[g] = n] BY <1>4, <2>1, <3>1
    <3> QED BY <1>1, <1>3, <1>4, <1>g, <2>1, <3>1, <3>2, CutSound
  <2>2. CASE ~(power /\ l.kind = "text")
    <3>1. files' = files BY <1>4, <2>2
    <3>2. FilesType(files)' BY <1>1, <3>1 DEF WriterTypes, FilesType
    <3>3. g # 0 => Sound(g)' BY <1>3, <1>4, <1>g, <3>1, SoundMono
    <3> QED BY <3>2, <3>3
  <2> QED BY <2>1, <2>2
<1>11. Soundness'
  BY <1>5, <1>8, <1>10 DEF Soundness
<1>12. Staged'
  BY <1>5 DEF Staged, InSwitch
<1>13. /\ \/ queue' = <<>> /\ act'.pc = "gone"
          \/ queue' = <<[t |-> "discard"]>> /\ ~act'.restored
          \/ /\ queue' = <<[t |-> "switch", gen |-> g + 1, rev |-> 0, text |-> l.text, base |-> base]>>
             /\ act'.restored /\ act'.pc = "restoring" /\ l.text \in seen
       /\ queue' \in Seq(Message)
  <2>1. CASE l.kind # "text"
    BY <1>4, <1>6, <2>1
  <2>2. CASE l.kind = "text" /\ clean
    <3>1. [t |-> "discard"] \in Message BY DEF Message
    <3>2. queue' = <<[t |-> "discard"]>> BY <1>4, <2>2
    <3>3. ~act'.restored BY <1>6, <2>2
    <3> QED BY <3>1, <3>2, <3>3
  <2>3. CASE l.kind = "text" /\ ~clean
    <3> DEFINE s == [t |-> "switch", gen |-> g + 1, rev |-> 0, text |-> l.text, base |-> base]
    <3>1. queue' = <<s>> BY <1>3, <1>4, <1>g, <2>3 DEF RestoreSwitch
    <3>2. s \in Message BY <1>3 DEF Message
    <3> HIDE DEF s
    <3>3. <<s>> \in Seq(Message) BY <3>2
    <3> QED BY <1>3, <1>6, <2>3, <3>1, <3>3 DEF s
  <2> QED BY <2>1, <2>2, <2>3
<1>14. Ahead(queue, Top)' /\ Line'
  <2>1. seen' = seen BY <1>4
  <2>2. act'.pc \in {"restoring", "gone"} BY <1>6
  <2>3. Metas' \subseteq {g} BY <1>8
  <2> QED BY <1>5, <1>6, <1>13, <2>1, <2>2, <2>3, RestoreLine
<1>15. RecoveryInv'
  BY <1>1, <1>5, <1>9, <1>11, <1>12, <1>14 DEF RecoveryInv, Line, NoStaleAppend
<1>16. sig' \in SigType /\ flush' \in FlushType /\ plan' \in PlanType /\ doc' \in DocType
  <2>1. sig' \in SigType BY <1>4 DEF NoSig, SigType
  <2>2. flush' \in FlushType BY <1>4 DEF NoFlush, FlushType, Text
  <2>3. plan' \in PlanType BY <1>1, <1>4, SpendType DEF OtherTypes
  <2>4. doc' \in DocType BY <1>1, <1>4 DEF OtherTypes, DocType
  <2> QED BY <2>1, <2>2, <2>3, <2>4
<1>17. ActorTypes' /\ WriterTypes' /\ OtherTypes'
  BY <1>1, <1>4, <1>5, <1>6, <1>7, <1>10, <1>13, <1>16 DEF ActorTypes, WriterTypes, OtherTypes
<1> QED BY <1>15, <1>17, TypeNext DEF EInv


-----------------------------------------------------------------------------
(* The theorems *)

LEMMA InitInv ==
  ASSUME Init
  PROVE  EInv
<1>1. /\ act \in ActType /\ act.pc = "up" /\ rec \in RecType /\ rec.out = 0 /\ rec.gen = 0
      /\ rec.active = FALSE /\ sig \in SigType /\ seen \subseteq Text
  BY DEF Init, ActType, RecType, SigType, NoRec, NoSig, Text
<1>2. queue = <<>> /\ queue \in Seq(Message)
  BY DEF Init
<1>3. wr \in WrType /\ wr.pc = "idle" /\ wr.gen = 0 /\ wr.stale = FALSE /\ failed \in BOOLEAN
  BY DEF Init, Idle, WrType
<1>4. vol \in Directory /\ dur \in Directory /\ vol.meta.gen = 0 /\ dur.meta.gen = 0
  BY DEF Init, NoDir, NoMeta, Directory
<1>5. FilesType(files)
  <2>1. files = [snap |-> <<>>, log |-> <<>>, synced |-> <<>>] BY DEF Init
  <2>2. DOMAIN <<>> = {} OBVIOUS
  <2>3. \A S : <<>> \in [{} -> S] OBVIOUS
  <2> QED BY <2>1, <2>2, <2>3 DEF FilesType
<1>6. OtherTypes
  BY EditRecoveryAssumption
     DEF Init, OtherTypes, PlanType, DocType, Document, NewDoc, FlushType, NoFlush, Text
<1>7. TypeOK
  BY <1>1, <1>2, <1>3, <1>4, <1>5, <1>6, TypeParts DEF ActorTypes, WriterTypes
<1>8. Metas = {}
  BY <1>4 DEF Metas
<1>9. Backed /\ Soundness /\ Staged
  BY <1>3, <1>8 DEF Backed, Soundness, Staged, InSwitch
<1>10. Ahead(queue, Top) /\ Chained(queue) /\ Had(queue, seen)
  BY <1>1, <1>2, <1>3, <1>8 DEF Ahead, Rising, Top, Chained, Had
<1>11. Attached
  BY <1>1 DEF Attached, OnEnd, Rec
<1> QED BY <1>3, <1>7, <1>9, <1>10, <1>11 DEF EInv, RecoveryInv, NoStaleAppend

LEMMA NextInv ==
  ASSUME EInv, [Next]_vars
  PROVE  EInv'
<1>1. CASE Actor
  BY <1>1, EditInv, WakeInv, SaveDoneInv, ReloadInv, RestoredInv DEF Actor
<1>2. CASE Writer
  BY <1>2, SwitchSnapInv, SwitchLogInv, SwitchDirInv, SwitchMetaInv, SwitchDoneInv,
     SwitchRetireInv, AppendDroppedInv, AppendRecordInv, AppendFailInv, DiscardMetaInv,
     DiscardRestInv, SyncDueInv, FlushTokenInv DEF Writer
<1>3. CASE SwitchFail \/ FlushAsk \/ FlushReply
  BY <1>3, SwitchFailInv, FlushAskInv, FlushReplyInv
<1>4. CASE \E d, f \in BOOLEAN : SaveWrite(d, f)
  BY <1>4, SaveWriteInv
<1>5. CASE \E f \in BOOLEAN : Close(f) \/ DiscardFail(f) \/ Crash(f)
  BY <1>5, CloseInv, DiscardFailInv, CrashInv
<1>6. CASE UNCHANGED vars
  <2>1. RecoveryInv' BY <1>6, StutterInv DEF EInv, vars
  <2>2. ActorTypes /\ WriterTypes /\ OtherTypes BY TypeParts DEF EInv
  <2>3. ActorTypes' /\ WriterTypes' /\ OtherTypes'
    BY <1>6, <2>2 DEF vars, ActorTypes, WriterTypes, OtherTypes, FilesType
  <2> QED BY <2>1, <2>3, TypeNext DEF EInv
<1> QED BY <1>1, <1>2, <1>3, <1>4, <1>5, <1>6 DEF Next

LEMMA Invariant == Spec => []EInv
<1>1. Init => EInv
  BY InitInv
<1>2. EInv /\ [Next]_vars => EInv'
  BY NextInv
<1> QED BY <1>1, <1>2, PTL DEF Spec

\* Every variable keeps its type: the generations, revs and counts of the actor
\* and the writer, the shape of every message in the FIFO, the logs with their
\* count of synced records, and the outstanding Switch is the newest one
\* (RecState, RecSignal, ActorRec, RidFiles).
THEOREM TypeCorrect == Spec => []TypeOK
<1>1. EInv => TypeOK
  BY DEF EInv
<1> QED BY <1>1, Invariant, PTL

\* Whatever edits, saves, failures and crashes came before, and wherever the next
\* one falls, restore never meets a meta whose snap is not there: load_rid never
\* quarantines what the daemon itself wrote (try_switch syncs the directory
\* before the meta, and retires the old generation after it).
THEOREM NeverQuarantined == Spec => []NeverMalformed
<1>1. EInv => NeverMalformed
  BY InvNeverMalformed
<1> QED BY <1>1, Invariant, PTL

\* What restore reads from any image a crash or a power failure may leave is a text
\* the buffer had at some moment: every record in a log carries on from the
\* snap and the records before it, so no torn tail, no Append behind a failed
\* Switch and no second crash during restore mixes two generations (rec_switch,
\* rec_record, Writer::append, load_rid).
THEOREM RestoresHistory == Spec => []RestoresAPast
<1>1. EInv => RestoresAPast
  BY InvRestoresAPast
<1> QED BY <1>1, Invariant, PTL

\* The debug assertion of Writer::append cannot fire: an Append that reaches a
\* healthy writer is for the generation the writer holds.
THEOREM NoStaleAppends == Spec => []NoStaleAppend
<1>1. EInv => NoStaleAppend
  BY DEF EInv, RecoveryInv
<1> QED BY <1>1, Invariant, PTL

-----------------------------------------------------------------------------
(***************************************************************************)
(* What the recovery writer has made durable stays so, with the invariant  *)
(* above at hand.                                                          *)
(*                                                                         *)
(* What is kept is in every text the recovery files may give back, or in   *)
(* every document the disk may show: always all of the one or all of the   *)
(* other.  The files have it until a Discard is queued, and then the       *)
(* documents do.  That they do is what there is to prove: between two      *)
(* Discards the log, the FIFO and the buffer only add to a text, so a save *)
(* writes all of it; and a buffer whose base is the document's version     *)
(* contains that document, so a save takes nothing from it.                *)
(***************************************************************************)

\* The log of a generation a meta names is there in either view, too, and how far
\* the Switch at hand has come with it.
LogsBacked ==
  /\ \A g \in Metas : g \in vol.logs /\ g \in dur.logs
  /\ wr.pc \in {"log", "dir", "meta", "done"} => Head(queue).gen \in vol.logs
  /\ wr.pc \in {"dir", "meta", "done"} => Head(queue).gen \in dur.logs

\* The meta names the writer's generation, on disk at the latest when a record
\* is in its log.
Settled ==
  /\ wr.gen # 0 =>
       /\ vol.meta.gen = wr.gen
       /\ dur.meta.gen # wr.gen =>
            files.log[wr.gen] = <<>> /\ (failed \/ wr.pc = "meta")
  /\ wr.pc = "discard" => wr.gen = 0

\* The text the writer's files hold, if it has any.
Written == IF wr.gen # 0 THEN {Logged(wr.gen)} ELSE {}

Carries(m) == m.t \in {"switch", "append"}

\* From position j to before position i of q nothing is discarded.
Unbroken(q, j, i) == \A k \in j..(i - 1) : q[k].t # "discard"

\* The texts, of the messages of q and of those in W before it, that a Discard at
\* position i of q would be the first to discard.
Reaching(q, i, W) ==
  {q[j].text : j \in {k \in 1..(i - 1) : Carries(q[k]) /\ Unbroken(q, k + 1, i)}}
  \cup (IF Unbroken(q, 1, i) THEN W ELSE {})

\* A text that adds to each of those.
Under(q, i, W, text) == \A w \in Reaching(q, i, W) : IsPrefix(w, text)

\* Between two Discards texts only grow.
Rises(q, W) == \A i \in 1..Len(q) : Carries(q[i]) => Under(q, i, W, q[i].text)

\* They grow up to the buffer's.
Growing == Rises(queue, Written) /\ Under(queue, Len(queue) + 1, Written, act.text)

Bare(q, W) == Reaching(q, Len(q) + 1, W) = {}

\* A buffer without recovery files: those of before are on their way out.
Inactive ==
  \/ act.pc \in {"up", "saving"} /\ ~rec.active
  \/ act.pc = "restoring" /\ ~act.restored

Cleared == Inactive => Bare(queue, Written)

Docs == {doc.now, doc.dur}

\* A text written for a base contains the document of that version, of the
\* documents D after n saves.
Covers(text, base, D, n) ==
  base <= n /\ \A d \in D : base = d.ver => IsPrefix(d.text, text)

\* So do those of the Switches.
Covered(q, D, n) ==
  \A i \in 1..Len(q) : q[i].t = "switch" => Covers(q[i].text, q[i].base, D, n)

Based ==
  /\ \A d \in Docs : d.ver <= doc.saves
  /\ doc.now.ver = doc.dur.ver => doc.now.text = doc.dur.text
  /\ act.pc # "gone" => Covers(act.text, act.base, Docs, doc.saves)
  /\ Covered(queue, Docs, doc.saves)
  /\ \A m \in {vol.meta, dur.meta} :
       m.gen # 0 => Covers(files.snap[m.gen].text, m.base, Docs, doc.saves)
  /\ act.pc = "saving" =>
       doc.now.text = act.text /\ (act.durable => doc.dur.text = act.text)

\* Every document a crash may leave has what is kept.
InDocs == \A d \in Docs : IsPrefix(kept, d.text)

\* Every image of the recovery files has it, and they are not to be discarded.
InFiles ==
  /\ wr.gen # 0 /\ dur.meta.gen # 0 /\ Wanted
  /\ \A g \in Metas : IsPrefix(kept, TextAt(g, files.synced[g]))

Holds == InDocs \/ InFiles

DurableInv == LogsBacked /\ Settled /\ Growing /\ Cleared /\ Based /\ Holds

-----------------------------------------------------------------------------
(* Prefixes *)

LEMMA PrefixIs ==
  ASSUME NEW s \in Text, NEW t \in Text
  PROVE  IsPrefix(s, t) <=> Len(s) <= Len(t) /\ \A i \in 1..Len(s) : s[i] = t[i]
<1>1. s \in Seq(Nat) /\ t \in Seq(Nat) /\ Len(s) \in Nat /\ Len(t) \in Nat
  BY LenProperties DEF Text
<1>2. SubSeq(s, 1, Len(s)) = s
  BY <1>1, SubSeqFull
<1>3. ASSUME Len(s) <= Len(t)
      PROVE  SubSeq(t, 1, Len(s)) = s <=> \A i \in 1..Len(s) : s[i] = t[i]
  <2>1. \A i \in 1..Len(s) : t[i] \in Nat
    BY <1>1, <1>3, ElementOfSeq
  <2> DEFINE u == SubSeq(t, 1, Len(s))
  <2>2. u \in Seq(Nat) /\ Len(u) = Len(s) /\ \A i \in 1..Len(s) : u[i] = t[i]
    BY <1>1, <2>1, SubSeqProperties
  <2> HIDE DEF u
  <2>3. (\A i \in 1..Len(s) : s[i] = t[i]) => u = s
    BY <1>1, <2>2, SeqEqual
  <2>4. u = s => \A i \in 1..Len(s) : s[i] = t[i]
    BY <2>2
  <2> QED BY <2>3, <2>4 DEF u
<1> QED BY <1>2, <1>3 DEF IsPrefix

LEMMA PrefixRefl == \A s \in Text : IsPrefix(s, s)
<1> SUFFICES ASSUME NEW s \in Text PROVE IsPrefix(s, s)
  OBVIOUS
<1>1. Len(s) \in Nat BY LenProperties DEF Text
<1> QED BY <1>1, PrefixIs

LEMMA PrefixTrans ==
  ASSUME NEW s \in Text, NEW t \in Text, NEW u \in Text, IsPrefix(s, t), IsPrefix(t, u)
  PROVE  IsPrefix(s, u)
<1>1. Len(s) \in Nat /\ Len(t) \in Nat /\ Len(u) \in Nat BY LenProperties DEF Text
<1>2. /\ Len(s) <= Len(t) /\ \A i \in 1..Len(s) : s[i] = t[i]
      /\ Len(t) <= Len(u) /\ \A i \in 1..Len(t) : t[i] = u[i]
  BY PrefixIs
<1>3. Len(s) <= Len(u) /\ \A i \in 1..Len(s) : s[i] = u[i]
  BY <1>1, <1>2
<1> QED BY <1>3, PrefixIs

LEMMA PrefixEmpty == <<>> \in Text /\ \A s \in Text : IsPrefix(<<>>, s)
<1>1. <<>> \in Text BY DEF Text
<1>2. Len(<<>>) = 0 OBVIOUS
<1> SUFFICES ASSUME NEW s \in Text PROVE IsPrefix(<<>>, s)
  BY <1>1
<1>3. Len(s) \in Nat BY LenProperties DEF Text
<1> QED BY <1>1, <1>2, <1>3, PrefixIs

LEMMA PrefixConcat ==
  ASSUME NEW s \in Text, NEW t \in Text
  PROVE  s \o t \in Text /\ IsPrefix(s, s \o t)
<1>1. /\ s \o t \in Text /\ Len(s \o t) = Len(s) + Len(t) /\ Len(s) \in Nat /\ Len(t) \in Nat
      /\ \A i \in 1..Len(s) + Len(t) : (s \o t)[i] = IF i <= Len(s) THEN s[i] ELSE t[i - Len(s)]
  BY ConcatProperties, LenProperties DEF Text
<1>2. PICK u \in Text : u = s \o t BY <1>1
<1>3. Len(s) <= Len(u) /\ \A i \in 1..Len(s) : s[i] = u[i] BY <1>1, <1>2
<1>4. IsPrefix(s, u) BY <1>3, PrefixIs
<1> QED BY <1>2, <1>4

LEMMA PrefixAppend ==
  ASSUME NEW s \in Text, NEW x \in Nat
  PROVE  Append(s, x) \in Text /\ IsPrefix(s, Append(s, x))
<1>1. /\ Append(s, x) \in Text /\ Len(s) \in Nat /\ Len(Append(s, x)) = Len(s) + 1
      /\ \A i \in 1..Len(s) : Append(s, x)[i] = s[i]
  BY AppendProperties, LenProperties DEF Text
<1>2. PICK u \in Text : u = Append(s, x) BY <1>1
<1>3. Len(s) <= Len(u) /\ \A i \in 1..Len(s) : s[i] = u[i] BY <1>1, <1>2
<1>4. IsPrefix(s, u) BY <1>3, PrefixIs
<1> QED BY <1>2, <1>4

\* What fewer records of a log make is the beginning of what more make.
LEMMA TextAtGrows ==
  ASSUME TypeOK, NEW g, Sound(g), NEW n \in 0..Len(files.log[g]), NEW k \in 0..n
  PROVE  /\ TextAt(g, k) \in Text /\ TextAt(g, n) \in Text
         /\ IsPrefix(TextAt(g, k), TextAt(g, n))
         /\ files.snap[g].text \in Text /\ IsPrefix(files.snap[g].text, TextAt(g, n))
<1>1. /\ files.log[g] \in Seq(Record) /\ files.snap[g].text \in Text /\ Len(files.log[g]) \in Nat
  BY TypeParts, LenProperties DEF Sound, WriterTypes, FilesType
<1>2. PICK s \in Text, l \in Seq(Record) : s = files.snap[g].text /\ l = files.log[g]
  BY <1>1
<1> DEFINE Ids(m) == [i \in 1..m |-> l[i].id]
<1>3. ASSUME NEW m \in 0..Len(l) PROVE Ids(m) \in Seq(Nat) /\ Len(Ids(m)) = m
  <2>1. \A x \in Record : x.id \in Nat BY DEF Record
  <2>2. \A i \in 1..m : l[i].id \in Nat BY <2>1, <1>1, <1>2, ElementOfSeq
  <2> QED BY <1>1, <1>2, <2>2
<1>4. \A m : TextAt(g, m) = s \o Ids(m)
  BY <1>2 DEF TextAt
<1>5. n \in 0..Len(l) /\ k \in 0..Len(l)
  BY <1>1, <1>2
<1>6. PICK u \in Seq(Nat), v \in Seq(Nat) :
        /\ u = Ids(k) /\ v = Ids(n) /\ Len(u) = k /\ Len(v) = n
        /\ \A i \in 1..k : u[i] = v[i]
  <2>1. Ids(k) \in Seq(Nat) /\ Len(Ids(k)) = k /\ Ids(n) \in Seq(Nat) /\ Len(Ids(n)) = n
    BY <1>3, <1>5
  <2>2. \A i \in 1..k : Ids(k)[i] = Ids(n)[i] OBVIOUS
  <2> QED BY <2>1, <2>2
<1>7. /\ s \o u \in Text /\ Len(s \o u) = Len(s) + k /\ Len(s) \in Nat
      /\ \A i \in 1..Len(s) + k : (s \o u)[i] = IF i <= Len(s) THEN s[i] ELSE u[i - Len(s)]
  BY <1>6, ConcatProperties, LenProperties DEF Text
<1>8. /\ s \o v \in Text /\ Len(s \o v) = Len(s) + n
      /\ \A i \in 1..Len(s) + n : (s \o v)[i] = IF i <= Len(s) THEN s[i] ELSE v[i - Len(s)]
  BY <1>6, ConcatProperties, LenProperties DEF Text
<1>9. PICK x \in Text, y \in Text : x = s \o u /\ y = s \o v BY <1>7, <1>8
<1>10. \A i \in 1..Len(x) : x[i] = y[i]
  <2> SUFFICES ASSUME NEW i \in 1..Len(x) PROVE x[i] = y[i]
    OBVIOUS
  <2>1. CASE i <= Len(s) BY <1>5, <1>7, <1>8, <1>9, <2>1
  <2>2. CASE i > Len(s)
    <3>1. i - Len(s) \in 1..k BY <1>5, <1>7, <1>9, <2>2
    <3> QED BY <1>5, <1>6, <1>7, <1>8, <1>9, <2>2, <3>1
  <2> QED BY <1>7, <2>1, <2>2
<1>11. IsPrefix(x, y)
  <2>1. Len(x) <= Len(y) BY <1>1, <1>5, <1>7, <1>8, <1>9
  <2> QED BY <1>10, <2>1, PrefixIs
<1>12. v \in Text BY <1>6 DEF Text
<1> QED BY <1>2, <1>4, <1>6, <1>9, <1>11, <1>12, PrefixConcat

-----------------------------------------------------------------------------
(* What reaches a place in the FIFO *)

LEMMA ReachIn ==
  ASSUME NEW q, NEW i, NEW W, NEW w
  PROVE  w \in Reaching(q, i, W) <=>
           \/ \E j \in 1..(i - 1) : Carries(q[j]) /\ Unbroken(q, j + 1, i) /\ w = q[j].text
           \/ w \in W /\ Unbroken(q, 1, i)
  BY DEF Reaching

\* The writer's files after a step that serves the head of q, W2, have of it and
\* of W, those before, no more than what the head leaves there.
Leaves(q, W, W2) ==
  \A w \in W2 : (w \in W /\ q[1].t # "discard") \/ (Carries(q[1]) /\ w = q[1].text)

LEMMA ReachTail ==
  ASSUME NEW q \in Seq(Message), q # <<>>, NEW W, NEW W2, Leaves(q, W, W2), NEW i \in 1..Len(q)
  PROVE  Reaching(Tail(q), i, W2) \subseteq Reaching(q, i + 1, W)
<1> SUFFICES ASSUME NEW w \in Reaching(Tail(q), i, W2) PROVE w \in Reaching(q, i + 1, W)
  OBVIOUS
<1>1. /\ Len(q) \in Nat /\ Len(Tail(q)) = Len(q) - 1
      /\ \A j \in 1..Len(Tail(q)) : Tail(q)[j] = q[j + 1]
  BY TailElements
<1>2. \A j \in 1..(i - 1) : Tail(q)[j] = q[j + 1]
  BY <1>1
<1>3. ASSUME NEW j \in 1..i, Unbroken(Tail(q), j, i) PROVE Unbroken(q, j + 1, i + 1)
  <2> SUFFICES ASSUME NEW k \in (j + 1)..i PROVE q[k].t # "discard"
    BY <1>1 DEF Unbroken
  <2>1. k - 1 \in j..(i - 1) /\ k - 1 \in 1..(i - 1) /\ (k - 1) + 1 = k BY <1>1
  <2> QED BY <1>2, <1>3, <2>1 DEF Unbroken
<1>4. CASE \E j \in 1..(i - 1) : Carries(Tail(q)[j]) /\ Unbroken(Tail(q), j + 1, i) /\ w = Tail(q)[j].text
  <2>1. PICK j \in 1..(i - 1) : Carries(Tail(q)[j]) /\ Unbroken(Tail(q), j + 1, i) /\ w = Tail(q)[j].text
    BY <1>4
  <2>2. j + 1 \in 1..i /\ j + 1 \in 1..((i + 1) - 1) BY <1>1
  <2>3. Carries(q[j + 1]) /\ w = q[j + 1].text BY <1>2, <2>1
  <2>4. Unbroken(q, (j + 1) + 1, i + 1) BY <1>3, <2>1, <2>2
  <2> QED BY <2>2, <2>3, <2>4, ReachIn
<1>5. CASE w \in W2 /\ Unbroken(Tail(q), 1, i)
  <2>1. Unbroken(q, 2, i + 1)
    <3>1. 1 \in 1..i /\ 1 + 1 = 2 BY <1>1
    <3> QED BY <1>3, <1>5, <3>1
  <2>2. CASE w \in W /\ q[1].t # "discard"
    <3>1. Unbroken(q, 1, i + 1)
      <4>1. \A k \in 1..((i + 1) - 1) : k = 1 \/ k \in 2..((i + 1) - 1) BY <1>1
      <4> QED BY <2>1, <2>2, <4>1 DEF Unbroken
    <3> QED BY <2>2, <3>1, ReachIn
  <2>3. CASE Carries(q[1]) /\ w = q[1].text
    <3>1. 1 \in 1..((i + 1) - 1) /\ 1 + 1 = 2 BY <1>1
    <3>2. \E j \in 1..((i + 1) - 1) : Carries(q[j]) /\ Unbroken(q, j + 1, i + 1) /\ w = q[j].text
      BY <2>1, <2>3, <3>1
    <3> QED BY <3>2, ReachIn
  <2> QED BY <1>5, <2>2, <2>3 DEF Leaves
<1> QED BY <1>4, <1>5 DEF Reaching

\* The same while the head is still being served.
Begins(q, W, W2) ==
  \A w \in W2 : w \in W \/ (q # <<>> /\ Carries(q[1]) /\ w = q[1].text)

LEMMA ReachStay ==
  ASSUME NEW q \in Seq(Message), NEW W, NEW W2, Begins(q, W, W2),
         NEW i \in 1..(Len(q) + 1), NEW w \in Reaching(q, i, W2)
  PROVE  \/ w \in Reaching(q, i, W)
         \/ i = 1 /\ q # <<>> /\ Carries(q[1]) /\ w = q[1].text
<1>0. Len(q) \in Nat BY LenProperties
<1>1. CASE \E j \in 1..(i - 1) : Carries(q[j]) /\ Unbroken(q, j + 1, i) /\ w = q[j].text
  BY <1>1, ReachIn
<1>2. CASE w \in W2 /\ Unbroken(q, 1, i)
  <2>1. CASE w \in W
    BY <1>2, <2>1, ReachIn
  <2>2. CASE q # <<>> /\ Carries(q[1]) /\ w = q[1].text /\ i # 1
    <3>1. 1 \in 1..(i - 1) BY <1>0, <2>2
    <3>2. Unbroken(q, 1 + 1, i) BY <1>0, <1>2 DEF Unbroken
    <3>3. \E j \in 1..(i - 1) : Carries(q[j]) /\ Unbroken(q, j + 1, i) /\ w = q[j].text
      BY <2>2, <3>1, <3>2
    <3> QED BY <3>3, ReachIn
  <2> QED BY <1>2, <2>1, <2>2 DEF Begins
<1> QED BY <1>1, <1>2, ReachIn

LEMMA ReachAppend ==
  ASSUME NEW q \in Seq(Message), NEW m \in Message, NEW W
  PROVE  /\ \A i \in 1..(Len(q) + 1) : Reaching(Append(q, m), i, W) = Reaching(q, i, W)
         /\ Len(Append(q, m)) = Len(q) + 1
         /\ \A w \in Reaching(Append(q, m), Len(q) + 2, W) :
              /\ m.t # "discard"
              /\ w \in Reaching(q, Len(q) + 1, W) \/ (Carries(m) /\ w = m.text)
<1> DEFINE p == Append(q, m)
<1>1. /\ p \in Seq(Message) /\ Len(p) = Len(q) + 1 /\ p[Len(q) + 1] = m /\ Len(q) \in Nat
      /\ \A i \in 1..Len(q) : p[i] = q[i]
  BY AppendGrows, LenProperties
<1> HIDE DEF p
<1>2. ASSUME NEW j \in 1..(Len(q) + 1), NEW i \in 1..(Len(q) + 1) PROVE Unbroken(p, j, i) <=> Unbroken(q, j, i)
  <2>1. \A k \in j..(i - 1) : k \in 1..Len(q) BY <1>1
  <2> QED BY <1>1, <2>1 DEF Unbroken
<1>3. ASSUME NEW i \in 1..(Len(q) + 1) PROVE Reaching(p, i, W) = Reaching(q, i, W)
  <2>1. ASSUME NEW j \in 1..(i - 1)
        PROVE  p[j] = q[j] /\ (Unbroken(p, j + 1, i) <=> Unbroken(q, j + 1, i))
    <3>1. j \in 1..Len(q) /\ j + 1 \in 1..(Len(q) + 1) BY <1>1
    <3> QED BY <1>1, <1>2, <3>1
  <2>2. 1 \in 1..(Len(q) + 1) BY <1>1
  <2>3. Unbroken(p, 1, i) <=> Unbroken(q, 1, i) BY <1>2, <2>2
  <2>4. {k \in 1..(i - 1) : Carries(p[k]) /\ Unbroken(p, k + 1, i)}
          = {k \in 1..(i - 1) : Carries(q[k]) /\ Unbroken(q, k + 1, i)}
    BY <2>1
  <2> QED BY <2>1, <2>3, <2>4 DEF Reaching
<1>4. ASSUME NEW w \in Reaching(p, Len(q) + 2, W)
      PROVE  m.t # "discard" /\ (w \in Reaching(q, Len(q) + 1, W) \/ (Carries(m) /\ w = m.text))
  <2>1. ASSUME NEW j \in 1..(Len(q) + 1), Unbroken(p, j, Len(q) + 2)
        PROVE  m.t # "discard" /\ Unbroken(q, j, Len(q) + 1)
    <3>1. Len(q) + 1 \in j..((Len(q) + 2) - 1) BY <1>1
    <3>2. \A k \in j..((Len(q) + 1) - 1) : k \in 1..Len(q) /\ k \in j..((Len(q) + 2) - 1) BY <1>1
    <3> QED BY <1>1, <2>1, <3>1, <3>2 DEF Unbroken
  <2>2. CASE \E j \in 1..((Len(q) + 2) - 1) : Carries(p[j]) /\ Unbroken(p, j + 1, Len(q) + 2) /\ w = p[j].text
    <3>1. PICK j \in 1..((Len(q) + 2) - 1) : Carries(p[j]) /\ Unbroken(p, j + 1, Len(q) + 2) /\ w = p[j].text
      BY <2>2
    <3>2. CASE j = Len(q) + 1
      BY <1>1, <3>1, <3>2 DEF Carries
    <3>3. CASE j # Len(q) + 1
      <4>1. j \in 1..Len(q) /\ j + 1 \in 1..(Len(q) + 1) /\ j \in 1..((Len(q) + 1) - 1) BY <1>1, <3>3
      <4>2. m.t # "discard" /\ Unbroken(q, j + 1, Len(q) + 1) BY <2>1, <3>1, <4>1
      <4>3. Carries(q[j]) /\ w = q[j].text BY <1>1, <3>1, <4>1
      <4> QED BY <4>1, <4>2, <4>3, ReachIn
    <3> QED BY <3>2, <3>3
  <2>3. CASE w \in W /\ Unbroken(p, 1, Len(q) + 2)
    <3>1. 1 \in 1..(Len(q) + 1) BY <1>1
    <3>2. m.t # "discard" /\ Unbroken(q, 1, Len(q) + 1) BY <2>1, <2>3, <3>1
    <3> QED BY <2>3, <3>2, ReachIn
  <2> QED BY <2>2, <2>3, ReachIn
<1> QED BY <1>1, <1>3, <1>4 DEF p

\* The order of the FIFO when its head has been served, for a buffer of this text.
LEMMA LineServed ==
  ASSUME NEW q \in Seq(Message), q # <<>>, NEW W, NEW W2, Leaves(q, W, W2), NEW text,
         Rises(q, W), Under(q, Len(q) + 1, W, text)
  PROVE  /\ Rises(Tail(q), W2) /\ Under(Tail(q), Len(Tail(q)) + 1, W2, text)
         /\ Bare(q, W) => Bare(Tail(q), W2)
<1>1. /\ Len(q) \in Nat /\ Len(q) > 0 /\ Len(Tail(q)) = Len(q) - 1
      /\ \A i \in 1..Len(Tail(q)) : Tail(q)[i] = q[i + 1] /\ i + 1 \in 1..Len(q)
  BY TailElements
<1>2. PICK p : p = Tail(q) OBVIOUS
<1>3. \A i \in 1..Len(q) : Reaching(p, i, W2) \subseteq Reaching(q, i + 1, W)
  BY <1>2, ReachTail
<1>4. Len(p) + 1 = Len(q) /\ Len(q) \in 1..Len(q) BY <1>1, <1>2
<1>5. Reaching(p, Len(p) + 1, W2) \subseteq Reaching(q, Len(q) + 1, W)
  BY <1>3, <1>4
<1>6. Under(p, Len(p) + 1, W2, text) /\ (Bare(q, W) => Bare(p, W2))
  BY <1>5 DEF Under, Bare
<1>7. Rises(p, W2)
  <2> SUFFICES ASSUME NEW i \in 1..Len(p), Carries(p[i]) PROVE Under(p, i, W2, p[i].text)
    BY DEF Rises
  <2>1. i \in 1..Len(q) /\ i + 1 \in 1..Len(q) /\ p[i] = q[i + 1] BY <1>1, <1>2
  <2>2. Under(q, i + 1, W, q[i + 1].text) BY <2>1 DEF Rises
  <2> QED BY <1>3, <2>1, <2>2 DEF Under
<1> QED BY <1>2, <1>6, <1>7

\* The same while it is being served.
LEMMA LineBegun ==
  ASSUME NEW q \in Seq(Message), NEW W, NEW W2, Begins(q, W, W2), NEW text,
         Rises(q, W), Under(q, Len(q) + 1, W, text)
  PROVE  /\ Rises(q, W2) /\ Under(q, Len(q) + 1, W2, text)
         /\ Bare(q, W) => Bare(q, W2)
<1>1. Len(q) \in Nat /\ (q # <<>> => Len(q) # 0)
  BY LenProperties, EmptySeq
<1>2. Len(q) + 1 \in 1..(Len(q) + 1) /\ (q # <<>> => Len(q) + 1 # 1)
  BY <1>1
<1>3. Reaching(q, Len(q) + 1, W2) \subseteq Reaching(q, Len(q) + 1, W)
  BY <1>2, ReachStay
<1>4. ASSUME NEW i \in 1..Len(q), Carries(q[i]) PROVE Under(q, i, W2, q[i].text)
  <2> SUFFICES ASSUME NEW w \in Reaching(q, i, W2) PROVE IsPrefix(w, q[i].text)
    BY DEF Under
  <2>1. i \in 1..(Len(q) + 1) BY <1>1
  <2>2. CASE w \in Reaching(q, i, W)
    BY <1>4, <2>2 DEF Rises, Under
  <2>3. CASE i = 1 /\ w = q[1].text
    <3>1. q[i] \in Message BY ElementOfSeq
    <3>2. q[i].text \in Text BY <1>4, <3>1, MessageShape DEF Carries
    <3> QED BY <2>3, <3>2, PrefixRefl
  <2> QED BY <2>1, <2>2, <2>3, ReachStay
<1> QED BY <1>3, <1>4 DEF Rises, Under, Bare

-----------------------------------------------------------------------------
(* The actor's hooks add to the end of the FIFO what the buffer has *)

Wants(q) == \A i \in 1..Len(q) : q[i].t # "discard"

\* The actor's bundle [r, q] is in order for the buffer a; z: nothing of it is to
\* be discarded.
Tame(b, a, z) ==
  /\ b \in [r : RecType, q : Seq(Message)] /\ b.r.out \in {0, b.r.gen}
  /\ queue \in Seq(Message) /\ Grows(queue, b.q)
  /\ Rises(b.q, Written) /\ Under(b.q, Len(b.q) + 1, Written, a.text)
  /\ ~b.r.active => Bare(b.q, Written)
  /\ Covered(b.q, Docs, doc.saves)
  /\ z => Wants(b.q)

\* A buffer that covers the document it is based on.
Fits(a) == a \in ActType /\ Covers(a.text, a.base, Docs, doc.saves)

LEMMA TameRec ==
  ASSUME NEW b, NEW a, NEW z, Tame(b, a, z), NEW r \in RecType, r.out \in {0, r.gen},
         ~r.active => ~b.r.active
  PROVE  /\ Tame([b EXCEPT !.r = r], a, z) /\ [b EXCEPT !.r = r] = [r |-> r, q |-> b.q]
         /\ Tame([r |-> r, q |-> b.q], a, z)
<1>1. [b EXCEPT !.r = r] = [r |-> r, q |-> b.q] BY DEF Tame
<1>2. PICK c : c = [r |-> r, q |-> b.q] OBVIOUS
<1>3. c.r = r /\ c.q = b.q /\ c \in [r : RecType, q : Seq(Message)] BY <1>2 DEF Tame
<1>4. Tame(c, a, z) BY <1>3 DEF Tame
<1> QED BY <1>1, <1>2, <1>4

\* One more message, which is the buffer's.
LEMMA TameAppend ==
  ASSUME NEW b, NEW old, NEW z, Tame(b, old, z), NEW a, Fits(a),
         NEW m \in Message, NEW r \in RecType, r.out \in {0, r.gen},
         a.text = old.text \/ m.t = "discard",
         Carries(m) => m.text = a.text, m.t = "switch" => m.base = a.base,
         m.t = "discard" => ~z,
         ~r.active => m.t = "discard" \/ (m.t = "flush" /\ ~b.r.active)
  PROVE  Tame([r |-> r, q |-> Append(b.q, m)], a, z)
<1> DEFINE W == Written
<1>b. b \in [r : RecType, q : Seq(Message)] /\ b.q \in Seq(Message) /\ Len(b.q) \in Nat
  BY LenProperties DEF Tame
<1>p. PICK p : p = Append(b.q, m) OBVIOUS
<1>1. /\ p \in Seq(Message) /\ Len(p) = Len(b.q) + 1 /\ p[Len(b.q) + 1] = m
      /\ \A i \in 1..Len(b.q) : p[i] = b.q[i]
  BY <1>b, <1>p, AppendGrows
<1>e. \A i \in 1..Len(p) : i \in 1..Len(b.q) \/ i = Len(b.q) + 1
  BY <1>1, <1>b
<1>2. /\ \A i \in 1..(Len(b.q) + 1) : Reaching(p, i, W) = Reaching(b.q, i, W)
      /\ \A w \in Reaching(p, Len(b.q) + 2, W) :
           m.t # "discard" /\ (w \in Reaching(b.q, Len(b.q) + 1, W) \/ (Carries(m) /\ w = m.text))
  <2> HIDE DEF W
  <2>1. PICK q \in Seq(Message) : q = b.q BY <1>b
  <2> QED BY <1>p, <2>1, ReachAppend
<1>l. Len(p) + 1 = Len(b.q) + 2 /\ Len(b.q) + 1 \in 1..(Len(b.q) + 1) BY <1>1, <1>b
<1>t. a.text \in Text BY DEF Fits, ActType
<1> HIDE DEF W
<1>3. m.t # "discard" => Under(b.q, Len(b.q) + 1, W, a.text)
  BY DEF Tame, W
<1>4. Rises(p, W)
  <2> SUFFICES ASSUME NEW i \in 1..Len(p), Carries(p[i]) PROVE Under(p, i, W, p[i].text)
    BY DEF Rises
  <2>1. CASE i \in 1..Len(b.q)
    <3>1. i \in 1..(Len(b.q) + 1) BY <1>b, <2>1
    <3>2. Under(b.q, i, W, b.q[i].text) BY <1>1, <2>1 DEF Tame, Rises, W
    <3> QED BY <1>1, <1>2, <2>1, <3>1, <3>2 DEF Under
  <2>2. CASE i = Len(b.q) + 1
    <3>1. m.t # "discard" /\ p[i].text = a.text BY <1>1, <2>2 DEF Carries
    <3> QED BY <1>2, <1>3, <1>l, <2>2, <3>1 DEF Under
  <2> QED BY <1>e, <2>1, <2>2
<1>5. Under(p, Len(p) + 1, W, a.text)
  <2> SUFFICES ASSUME NEW w \in Reaching(p, Len(b.q) + 2, W) PROVE IsPrefix(w, a.text)
    BY <1>l DEF Under
  <2>1. CASE w \in Reaching(b.q, Len(b.q) + 1, W) BY <1>2, <1>3, <2>1 DEF Under
  <2>2. CASE Carries(m) /\ w = m.text BY <1>t, <2>2, PrefixRefl
  <2> QED BY <1>2, <2>1, <2>2
<1>6. ~r.active => Bare(p, W)
  <2>1. CASE m.t = "discard" BY <1>2, <1>l, <2>1 DEF Bare
  <2>2. CASE m.t = "flush" /\ ~b.r.active
    <3>1. Reaching(b.q, Len(b.q) + 1, W) = {} BY <2>2 DEF Tame, Bare, W
    <3> QED BY <1>2, <1>l, <2>2, <3>1 DEF Bare, Carries
  <2> QED BY <2>1, <2>2
<1>7. Covered(p, Docs, doc.saves)
  BY <1>1, <1>e DEF Covered, Tame, Fits, Carries
<1>8. z => Wants(p)
  BY <1>1, <1>e DEF Wants, Tame
<1>g. queue \in Seq(Message) /\ Grows(queue, p)
  <2>1. queue \in Seq(Message) /\ Grows(queue, b.q) /\ Grows(b.q, p)
    BY <1>b, <1>p, AppendGrows DEF Tame
  <2> QED BY <1>b, <1>1, <2>1, GrowsTrans
<1>9. PICK c : c = [r |-> r, q |-> p] OBVIOUS
<1>10. c.r = r /\ c.q = p /\ c \in [r : RecType, q : Seq(Message)] BY <1>1, <1>9
<1>11. Tame(c, a, z) BY <1>4, <1>5, <1>6, <1>7, <1>8, <1>g, <1>10 DEF Tame, W
<1> QED BY <1>9, <1>11, <1>p

LEMMA RecSwitchTame ==
  ASSUME NEW b, NEW z, NEW a, Fits(a), Tame(b, a, z), NEW lease \in BOOLEAN, b.r.active
  PROVE  Tame(RecSwitch(b, a, lease), a, z)
<1>b. b \in [r : RecType, q : Seq(Message)] /\ b.r \in RecType /\ b.r.out \in {0, b.r.gen}
  BY DEF Tame
<1>1. CASE ~lease
  <2> DEFINE r == [SetOverflow(b.r) EXCEPT !.needs = TRUE, !.held = TRUE]
  <2>1. r \in RecType /\ r.out \in {0, r.gen} /\ r.active
    BY <1>b DEF RecType, SetOverflow
  <2>2. RecSwitch(b, a, lease) = [b EXCEPT !.r = r]
    BY <1>1 DEF RecSwitch
  <2> HIDE DEF r
  <2>3. Tame([b EXCEPT !.r = r], a, z) BY <2>1, TameRec
  <2> QED BY <2>2, <2>3
<1>2. CASE lease
  <2> DEFINE g == b.r.gen + 1
             r == [b.r EXCEPT !.gen = g, !.out = g, !.needs = FALSE, !.held = FALSE,
                              !.repair = IF b.r.overflow THEN g ELSE @,
                              !.written = a.base]
             m == [t |-> "switch", gen |-> g, rev |-> a.rev, text |-> a.text, base |-> a.base]
  <2>1. r \in RecType /\ r.out \in {0, r.gen} /\ r.active /\ g \in Nat
    <3>1. /\ b.r \in RecType /\ g \in Nat /\ a.base \in Nat \cup {-1}
          /\ (IF b.r.overflow THEN g ELSE b.r.repair) \in Nat /\ b.r.gen \in Nat
      BY <1>b DEF RecType, ActType, Fits
    <3> HIDE DEF g
    <3> QED BY <3>1 DEF RecType
  <2>2. m \in Message /\ m.t = "switch" /\ m.text = a.text /\ m.base = a.base
    BY <2>1 DEF Message, ActType, Fits
  <2>3. RecSwitch(b, a, lease) = [r |-> r, q |-> Append(b.q, m)]
    BY <1>2 DEF RecSwitch
  <2> HIDE DEF r, m
  <2>4. m.t # "discard" BY <2>2
  <2> QED BY <2>1, <2>2, <2>3, <2>4, TameAppend
<1> QED BY <1>1, <1>2

LEMMA RecRequestSwitchTame ==
  ASSUME NEW b, NEW z, NEW a, Fits(a), Tame(b, a, z), NEW lease \in BOOLEAN, b.r.active
  PROVE  Tame(RecRequestSwitch(b, a, lease), a, z)
<1> DEFINE r == [b.r EXCEPT !.needs = TRUE]
           n == [b EXCEPT !.r = r]
<1>b. b \in [r : RecType, q : Seq(Message)] /\ b.r.out \in {0, b.r.gen}
  BY DEF Tame
<1>1. r \in RecType /\ r.out \in {0, r.gen} /\ r.active
  BY <1>b DEF RecType
<1>2. [b EXCEPT !.r.needs = TRUE] = n
  BY <1>b
<1>3. RecRequestSwitch(b, a, lease) = IF n.r.out = 0 THEN RecSwitch(n, a, lease) ELSE n
  BY <1>2 DEF RecRequestSwitch
<1> HIDE DEF r
<1>4. Tame(n, a, z) /\ n.r = r
  BY <1>b, <1>1, TameRec
<1> HIDE DEF n
<1> QED BY <1>1, <1>3, <1>4, RecSwitchTame

LEMMA RecRecordTame ==
  ASSUME NEW b, NEW z, NEW a, Fits(a), Tame(b, a, z), NEW lease \in BOOLEAN, NEW id \in Nat
  PROVE  Tame(RecRecord(b, a, id, lease), a, z)
<1>b. b \in [r : RecType, q : Seq(Message)] /\ b.r \in RecType /\ b.r.out \in {0, b.r.gen}
  BY DEF Tame
<1>1. CASE RecRecord(b, a, id, lease) = b
  BY <1>1
<1>2. CASE b.r.active /\ RecRecord(b, a, id, lease) = RecSwitch(b, a, lease)
  BY <1>2, RecSwitchTame
<1>3. CASE b.r.active /\ ~(b.r.needs \/ b.r.held) /\ Used(b.q) < QueueCap
  <2> DEFINE m == [t |-> "append", gen |-> b.r.gen, rev |-> a.rev, id |-> id, text |-> a.text]
  <2>1. m \in Message /\ m.t = "append" /\ m.text = a.text
    BY <1>b DEF Message, ActType, RecType, Fits
  <2>2. RecRecord(b, a, id, lease) = [r |-> b.r, q |-> Append(b.q, m)]
    BY <1>b, <1>3 DEF RecRecord
  <2> HIDE DEF m
  <2>3. m.t # "discard" /\ m.t # "switch" BY <2>1
  <2> QED BY <1>b, <1>3, <2>1, <2>2, <2>3, TameAppend
<1>4. CASE b.r.active /\ ~(b.r.needs \/ b.r.held) /\ ~(Used(b.q) < QueueCap)
  <2> DEFINE n == [b EXCEPT !.r = SetOverflow(b.r)]
  <2>1. SetOverflow(b.r) \in RecType /\ SetOverflow(b.r).out \in {0, SetOverflow(b.r).gen}
        /\ SetOverflow(b.r).active
    BY <1>b, <1>4 DEF RecType, SetOverflow
  <2>2. RecRecord(b, a, id, lease) = RecRequestSwitch(n, a, lease)
    BY <1>4 DEF RecRecord
  <2>3. Tame(n, a, z) /\ n.r = SetOverflow(b.r) BY <1>b, <2>1, TameRec
  <2> HIDE DEF n
  <2> QED BY <2>1, <2>2, <2>3, RecRequestSwitchTame
<1>5. CASE ~(b.r.active /\ ~(b.r.needs \/ b.r.held))
  BY <1>1, <1>2, <1>5 DEF RecRecord
<1> QED BY <1>3, <1>4, <1>5

\* A Discard lets go of all there is, whatever the buffer is to be.
LEMMA RecDiscardTame ==
  ASSUME NEW b, NEW z, NEW old, Tame(b, old, z), NEW a, Fits(a)
  PROVE  Tame(RecDiscard(b), a, FALSE) /\ ~RecDiscard(b).r.active
<1> DEFINE r == [b.r EXCEPT !.active = FALSE, !.held = FALSE, !.needs = FALSE,
                            !.written = -1, !.overflow = FALSE]
           m == [t |-> "discard"]
<1>b. b \in [r : RecType, q : Seq(Message)] /\ b.r.out \in {0, b.r.gen}
  BY DEF Tame
<1>1. r \in RecType /\ r.out \in {0, r.gen} /\ ~r.active
  BY <1>b DEF RecType
<1>2. m \in Message /\ m.t = "discard"
  BY DEF Message
<1>3. RecDiscard(b) = [r |-> r, q |-> IF b.r.active THEN Append(b.q, m) ELSE b.q]
  BY DEF RecDiscard
<1> HIDE DEF r, m
<1>4. Tame(b, old, FALSE) BY DEF Tame
<1>5. CASE b.r.active
  <2>1. ~Carries(m) /\ m.t # "switch" BY <1>2 DEF Carries
  <2>2. Tame([r |-> r, q |-> Append(b.q, m)], a, FALSE)
    BY <1>1, <1>2, <1>4, <2>1, TameAppend
  <2>3. RecDiscard(b) = [r |-> r, q |-> Append(b.q, m)] BY <1>3, <1>5
  <2>4. Tame(RecDiscard(b), a, FALSE) BY <2>2, <2>3
  <2>5. RecDiscard(b).r = r BY <2>3
  <2> QED BY <1>1, <2>4, <2>5
<1>6. CASE ~b.r.active
  <2>1. Tame(b, a, FALSE) BY <1>6 DEF Tame, Bare, Under
  <2>2. Tame([r |-> r, q |-> b.q], a, FALSE) BY <1>1, <1>6, <2>1, TameRec
  <2>3. RecDiscard(b) = [r |-> r, q |-> b.q] BY <1>3, <1>6
  <2>4. Tame(RecDiscard(b), a, FALSE) BY <2>2, <2>3
  <2>5. RecDiscard(b).r = r BY <2>3
  <2> QED BY <1>1, <2>4, <2>5
<1> QED BY <1>5, <1>6

LEMMA RecSettleTame ==
  ASSUME NEW b, NEW z, NEW a, Fits(a), Tame(b, a, z), NEW lease \in BOOLEAN
  PROVE  Tame(RecSettle(b, a, lease), a, z)
<1> DEFINE r == [b.r EXCEPT !.active = TRUE]
           n == [b EXCEPT !.r = r]
<1>b. b \in [r : RecType, q : Seq(Message)] /\ b.r.out \in {0, b.r.gen}
  BY DEF Tame
<1>1. r \in RecType /\ r.out \in {0, r.gen} /\ r.active
  BY <1>b DEF RecType
<1>2. [b EXCEPT !.r.active = TRUE] = n
  BY <1>b
<1> HIDE DEF r
<1>3. Tame(n, a, z) /\ n.r = r
  BY <1>b, <1>1, TameRec
<1>4. \/ RecSettle(b, a, lease) = b
      \/ RecSettle(b, a, lease) = RecRequestSwitch(n, a, lease)
      \/ b.r.active /\ RecSettle(b, a, lease) = RecRequestSwitch(b, a, lease)
  BY <1>2 DEF RecSettle
<1> HIDE DEF n
<1> QED BY <1>1, <1>3, <1>4, RecRequestSwitchTame

LEMMA RecWakeTame ==
  ASSUME NEW b, NEW z, NEW a, Fits(a), Tame(b, a, z), NEW lease \in BOOLEAN, sig \in SigType
  PROVE  Tame(RecWake(b, a, lease), a, z)
<1> DEFINE r == RecAnswered(b.r)
           n == IF ~r.active
                  THEN [r EXCEPT !.needs = FALSE, !.held = FALSE, !.overflow = FALSE]
                  ELSE [r EXCEPT !.needs = @ \/ sig.asked]
           s == [b EXCEPT !.r = n]
<1>b. b \in [r : RecType, q : Seq(Message)] /\ b.r.out \in {0, b.r.gen}
  BY DEF Tame
<1>s. sig.done \in Nat /\ sig.failed \in Nat /\ sig.asked \in BOOLEAN
  BY DEF SigType
<1>1. r \in RecType /\ r.out \in {0, r.gen} /\ r.active = b.r.active
  BY <1>b, <1>s, RecAnsweredRec
<1>2. RecWake(b, a, lease) =
        IF n.active /\ n.needs /\ ~n.held /\ n.out = 0 THEN RecSwitch(s, a, lease) ELSE s
  BY DEF RecWake
<1> HIDE DEF r
<1>3. n \in RecType /\ n.out \in {0, n.gen} /\ n.active = b.r.active
  BY <1>1, <1>s DEF RecType
<1> HIDE DEF n
<1>4. Tame(s, a, z) /\ s.r = n
  BY <1>b, <1>3, TameRec
<1> HIDE DEF s
<1> QED BY <1>2, <1>3, <1>4, RecSwitchTame

LEMMA PlaceTokenTame ==
  ASSUME NEW b, NEW z, NEW a, Fits(a), Tame(b, a, z)
  PROVE  Tame([r |-> b.r, q |-> PlaceToken(b)], a, z)
<1> DEFINE m == [t |-> "flush", of |-> "actor"]
<1>b. b \in [r : RecType, q : Seq(Message)] /\ b.r \in RecType /\ b.r.out \in {0, b.r.gen}
  BY DEF Tame
<1>m. m \in Message /\ m.t = "flush"
  BY DEF Message
<1>1. CASE PlaceToken(b) = b.q
  <2>1. [r |-> b.r, q |-> b.q] = b BY <1>b
  <2> QED BY <1>1, <2>1
<1>2. CASE PlaceToken(b) = Append(b.q, m)
  <2> HIDE DEF m
  <2>1. ~Carries(m) /\ m.t # "switch" /\ m.t # "discard" BY <1>m DEF Carries
  <2> QED BY <1>b, <1>m, <1>2, <2>1, TameAppend
<1> QED BY <1>1, <1>2 DEF PlaceToken

-----------------------------------------------------------------------------
(* The actor's messages *)

LEMMA WrittenText ==
  ASSUME TypeOK, RecoveryInv
  PROVE  Written \subseteq Text
<1>1. CASE wr.gen # 0
  <2>1. wr.gen \in Gens /\ Sound(wr.gen) BY <1>1, SoundGen DEF Gens
  <2>2. Len(files.log[wr.gen]) \in Nat
    BY <2>1, TypeParts, LenProperties DEF Sound, WriterTypes, FilesType
  <2>3. TextAt(wr.gen, Len(files.log[wr.gen])) \in seen BY <2>1, <2>2 DEF Sound
  <2>4. Logged(wr.gen) \in Text BY <2>3 DEF TypeOK, Logged, TextAt
  <2> QED BY <2>4 DEF Written
<1>2. CASE wr.gen = 0
  BY <1>2 DEF Written
<1> QED BY <1>1, <1>2

LEMMA ReachText ==
  ASSUME NEW q \in Seq(Message), NEW W, W \subseteq Text
  PROVE  \A w \in Reaching(q, Len(q) + 1, W) : w \in Text
<1> SUFFICES ASSUME NEW w \in Reaching(q, Len(q) + 1, W) PROVE w \in Text
  OBVIOUS
<1>0. Len(q) \in Nat BY LenProperties
<1>1. CASE \E j \in 1..((Len(q) + 1) - 1) : Carries(q[j]) /\ w = q[j].text
  <2>1. PICK j \in 1..((Len(q) + 1) - 1) : Carries(q[j]) /\ w = q[j].text BY <1>1
  <2>2. j \in 1..Len(q) BY <1>0
  <2>3. q[j] \in Message BY <2>2, ElementOfSeq
  <2> QED BY <2>1, <2>3, MessageShape DEF Carries
<1> QED BY <1>1, ReachIn

\* A longer text of the buffer.
LEMMA TameMore ==
  ASSUME TypeOK, RecoveryInv, NEW b, NEW z, NEW old \in ActType, NEW a \in ActType,
         Tame(b, old, z), IsPrefix(old.text, a.text)
  PROVE  Tame(b, a, z)
<1>1. b.q \in Seq(Message) /\ Written \subseteq Text BY WrittenText DEF Tame
<1>2. \A w \in Reaching(b.q, Len(b.q) + 1, Written) : w \in Text BY <1>1, ReachText
<1>3. old.text \in Text /\ a.text \in Text BY DEF ActType
<1>4. Under(b.q, Len(b.q) + 1, Written, a.text)
  BY <1>2, <1>3, PrefixTrans DEF Tame, Under
<1> QED BY <1>4 DEF Tame

LEMMA FitsMore ==
  ASSUME TypeOK, NEW old \in ActType, NEW a \in ActType, Fits(old), a.base = old.base,
         IsPrefix(old.text, a.text)
  PROVE  Fits(a)
<1>1. \A d \in Docs : d.text \in Text BY DEF Docs, TypeOK, Document
<1>2. old.text \in Text /\ a.text \in Text BY DEF ActType
<1> QED BY <1>1, <1>2, PrefixTrans DEF Fits, Covers

\* A buffer just saved, or loaded from the document.
LEMMA FitsDoc ==
  ASSUME TypeOK, Based, NEW a \in ActType, a.base = doc.now.ver, a.text = doc.now.text
  PROVE  Fits(a)
<1>1. \A d \in Docs : d.text \in Text BY DEF Docs, TypeOK, Document
<1>2. \A d \in Docs : doc.now.ver = d.ver => d.text = doc.now.text BY DEF Based, Docs
<1>3. doc.now \in Docs BY DEF Docs
<1> QED BY <1>1, <1>2, <1>3, PrefixRefl DEF Fits, Covers, Based

\* The bundle and the buffer an actor's message finds.
LEMMA TameNow ==
  ASSUME EInv, DurableInv, act.pc \in {"up", "saving"}
  PROVE  /\ TypeOK /\ RecoveryInv /\ act \in ActType /\ sig \in SigType
         /\ Fits(act) /\ Tame(Rec, act, Wanted)
<1>1. TypeOK /\ RecoveryInv /\ ActorTypes
  BY TypeParts DEF EInv
<1>2. act \in ActType /\ rec \in RecType /\ rec.out \in {0, rec.gen} /\ queue \in Seq(Message)
      /\ sig \in SigType
  BY <1>1 DEF ActorTypes
<1>3. Rec.r = rec /\ Rec.q = queue /\ Rec \in [r : RecType, q : Seq(Message)]
  BY <1>2 DEF Rec
<1>4. Fits(act)
  BY <1>2 DEF DurableInv, Based, Fits
<1>5. Grows(queue, queue)
  BY <1>2, LenProperties DEF Grows
<1>6. ~rec.active => Bare(queue, Written)
  BY DEF DurableInv, Cleared, Inactive
<1>7. Wanted => Wants(queue) BY DEF Wanted, Wants
<1>8. Tame(Rec, act, Wanted)
  BY <1>2, <1>3, <1>5, <1>6, <1>7 DEF Tame, DurableInv, Growing, Based
<1> QED BY <1>1, <1>2, <1>4, <1>8

\* What the FIFO and the buffer become, when the files stay as they are.
LEMMA TameNext ==
  ASSUME TypeOK, RecoveryInv, DurableInv, NEW b, NEW a, NEW z, Tame(b, a, z),
         rec' = b.r, queue' = b.q, act'.text = a.text,
         UNCHANGED <<wr, failed, vol, dur, files>>
  PROVE  /\ LogsBacked' /\ Settled' /\ Growing' /\ (z => Wanted')
         /\ ~rec'.active => Bare(queue', Written')
<1>1. Written' = Written BY DEF Written, Logged
<1>2. Growing'
  <2>1. Rises(queue', Written') /\ Under(queue', Len(queue') + 1, Written', act'.text)
    BY <1>1 DEF Tame
  <2> QED BY <2>1 DEF Growing
<1>3. z => Wanted' BY DEF Tame, Wants, Wanted
<1>4. ~rec'.active => Bare(queue', Written') BY <1>1 DEF Tame
<1>5. Settled' BY DEF DurableInv, Settled
<1>6. LogsBacked'
  <2>1. wr.pc \in {"log", "dir", "meta", "done"} => queue # <<>>
    BY DEF RecoveryInv, Staged, InSwitch, Msg
  <2>2. queue # <<>> => Head(queue') = Head(queue)
    BY HeadGrows DEF Tame
  <2> QED BY <2>1, <2>2 DEF DurableInv, LogsBacked, Metas
<1> QED BY <1>2, <1>3, <1>4, <1>5, <1>6

LEMMA ActorStepTame ==
  ASSUME TypeOK, RecoveryInv, DurableInv, NEW b, NEW a, NEW z, Tame(b, a, z), Fits(a), a.pc = "up",
         NEW lease \in BOOLEAN, NEW bell \in BOOLEAN, ActorStep(b, a, lease, bell), UNCHANGED doc
  PROVE  LogsBacked' /\ Settled' /\ Growing' /\ Cleared' /\ Based' /\ (z => Wanted')
<1> DEFINE w == RecWake(RecSettle(b, a, lease), a, lease)
           c == [r |-> w.r, q |-> PlaceToken(w)]
<1>1. sig \in SigType BY TypeParts DEF ActorTypes
<1>2. /\ act' = a /\ rec' = w.r /\ queue' = PlaceToken(w)
      /\ UNCHANGED <<wr, failed, vol, dur, files>>
  BY DEF ActorStep
<1>3. Tame(RecSettle(b, a, lease), a, z) BY RecSettleTame
<1>4. Tame(w, a, z) BY <1>1, <1>3, RecWakeTame
<1> HIDE DEF w
<1>5. Tame(c, a, z) /\ c.r = w.r /\ c.q = PlaceToken(w) BY <1>4, PlaceTokenTame
<1> HIDE DEF c
<1>6. /\ LogsBacked' /\ Settled' /\ Growing' /\ (z => Wanted')
      /\ ~rec'.active => Bare(queue', Written')
  BY <1>2, <1>5, TameNext
<1>7. Cleared' BY <1>2, <1>6 DEF Cleared, Inactive
<1>8. Based'
  <2>1. Docs' = Docs BY DEF Docs
  <2>2. Covered(queue', Docs, doc.saves) BY <1>2, <1>5 DEF Tame
  <2>3. Covers(a.text, a.base, Docs, doc.saves) BY DEF Fits
  <2> QED BY <1>2, <2>1, <2>2, <2>3 DEF DurableInv, Based
<1> QED BY <1>6, <1>7, <1>8

\* What is kept stays where it is, unless a Discard is queued.
LEMMA HoldsKept ==
  ASSUME Holds, UNCHANGED <<doc, kept, wr, vol, dur, files>>, Wanted => Wanted'
  PROVE  Holds'
<1>1. CASE InDocs BY <1>1 DEF Holds, InDocs, Docs
<1>2. CASE InFiles BY <1>2 DEF Holds, InFiles, Metas, TextAt
<1> QED BY <1>1, <1>2 DEF Holds

\* What is in the files and not to be discarded is in the buffer.
LEMMA FilesToBuffer ==
  ASSUME EInv, DurableInv, InFiles
  PROVE  /\ IsPrefix(kept, Logged(wr.gen)) /\ Logged(wr.gen) \in Text /\ kept \in Text
         /\ IsPrefix(kept, act.text)
<1> DEFINE g == wr.gen
           n == Len(files.log[g])
<1>1. TypeOK /\ RecoveryInv /\ ActorTypes /\ WriterTypes /\ OtherTypes
  BY TypeParts DEF EInv
<1>2. g # 0 /\ g \in Metas /\ g \in Gens /\ Wanted
  BY DEF InFiles, DurableInv, Settled, Metas, Gens
<1>3. Sound(g) BY <1>1, <1>2, SoundGen
<1>4. n \in Nat /\ files.synced[g] \in Nat
  BY <1>1, <1>3, LenProperties DEF Sound, WriterTypes, FilesType
<1>5. n \in 0..n /\ files.synced[g] \in 0..n BY <1>3, <1>4 DEF Sound
<1>6. /\ TextAt(g, files.synced[g]) \in Text /\ TextAt(g, n) \in Text
      /\ IsPrefix(TextAt(g, files.synced[g]), TextAt(g, n))
  BY <1>1, <1>3, <1>5, TextAtGrows
<1>7. Logged(g) = TextAt(g, n) BY DEF Logged, TextAt
<1>8. IsPrefix(kept, TextAt(g, files.synced[g])) /\ kept \in Text /\ act.text \in Text
  BY <1>1, <1>2 DEF InFiles, OtherTypes, ActorTypes, ActType
<1>9. IsPrefix(kept, Logged(g)) /\ Logged(g) \in Text
  BY <1>6, <1>7, <1>8, PrefixTrans
<1>10. queue \in Seq(Message) /\ Len(queue) \in Nat BY <1>1, LenProperties DEF ActorTypes
<1>11. Unbroken(queue, 1, Len(queue) + 1) BY <1>2, <1>10 DEF Unbroken, Wanted
<1>12. Logged(g) \in Written BY <1>2 DEF Written
<1>13. Logged(g) \in Reaching(queue, Len(queue) + 1, Written) BY <1>11, <1>12, ReachIn
<1>14. IsPrefix(Logged(g), act.text) BY <1>13 DEF DurableInv, Growing, Under
<1> QED BY <1>8, <1>9, <1>14, PrefixTrans

LEMMA ForgetHolds ==
  ASSUME TypeOK', kept' = <<>>
  PROVE  Holds'
<1>1. \A d \in Docs' : d.text \in Text BY DEF TypeOK, Docs, Document
<1>2. InDocs' BY <1>1, PrefixEmpty DEF InDocs
<1> QED BY <1>2 DEF Holds

LEMMA EditDurable ==
  ASSUME EInv, DurableInv, NEW lease \in BOOLEAN, Edit(lease)
  PROVE  DurableInv'
<1> DEFINE a == [act EXCEPT !.text = Append(@, made + 1), !.rev = @ + 1]
           b == RecRecord(Rec, a, made + 1, lease)
<1>1. act.pc = "up" /\ ActorStep(b, a, lease, sig.bell) /\ UNCHANGED <<doc, kept>>
  BY DEF Edit
<1>2. /\ TypeOK /\ RecoveryInv /\ act \in ActType /\ sig \in SigType
      /\ Fits(act) /\ Tame(Rec, act, Wanted)
  BY <1>1, TameNow
<1>3. made + 1 \in Nat /\ act.text \in Text /\ act.rev + 1 \in Nat /\ sig.bell \in BOOLEAN
  BY <1>2, TypeParts DEF OtherTypes, ActType, SigType
<1>4. Append(act.text, made + 1) \in Text /\ IsPrefix(act.text, Append(act.text, made + 1))
  BY <1>3, PrefixAppend
<1>5. a \in ActType /\ a.pc = "up" /\ a.base = act.base /\ IsPrefix(act.text, a.text)
  <2> DEFINE t == Append(act.text, made + 1)
             v == act.rev + 1
  <2>1. a = [act EXCEPT !.text = t, !.rev = v] OBVIOUS
  <2>2. t \in Text /\ v \in Nat /\ IsPrefix(act.text, t) BY <1>3, <1>4
  <2> HIDE DEF t, v, a
  <2>3. a \in ActType BY <1>2, <2>1, <2>2 DEF ActType
  <2>4. a.pc = act.pc /\ a.text = t /\ a.base = act.base BY <1>2, <2>1 DEF ActType
  <2> QED BY <1>1, <2>2, <2>3, <2>4
<1> HIDE DEF a
<1>6. Fits(a) /\ Tame(Rec, a, Wanted) BY <1>2, <1>5, FitsMore, TameMore
<1>7. Tame(b, a, Wanted) BY <1>3, <1>6, RecRecordTame
<1> HIDE DEF b
<1>8. LogsBacked' /\ Settled' /\ Growing' /\ Cleared' /\ Based' /\ (Wanted => Wanted')
  BY <1>1, <1>2, <1>3, <1>5, <1>6, <1>7, ActorStepTame
<1>9. Holds'
  BY <1>1, <1>8, HoldsKept DEF DurableInv, ActorStep
<1> QED BY <1>8, <1>9 DEF DurableInv

LEMMA WakeDurable ==
  ASSUME EInv, DurableInv, NEW lease \in BOOLEAN, Wake(lease)
  PROVE  DurableInv'
<1>1. act.pc = "up" /\ ActorStep(Rec, act, lease, FALSE) /\ UNCHANGED <<doc, kept>>
  BY DEF Wake
<1>2. TypeOK /\ RecoveryInv /\ Fits(act) /\ Tame(Rec, act, Wanted)
  BY <1>1, TameNow
<1>3. LogsBacked' /\ Settled' /\ Growing' /\ Cleared' /\ Based' /\ (Wanted => Wanted')
  BY <1>1, <1>2, ActorStepTame
<1>4. Holds'
  BY <1>1, <1>3, HoldsKept DEF DurableInv, ActorStep
<1> QED BY <1>3, <1>4 DEF DurableInv

\* The save has written all there is, so the files may go.
LEMMA SaveDoneDurable ==
  ASSUME EInv, DurableInv, NEW lease \in BOOLEAN, SaveDone(lease)
  PROVE  DurableInv'
<1> DEFINE a == [act EXCEPT !.pc = "up", !.base = doc.now.ver, !.saved = act.rev,
                            !.restored = @ /\ ~act.durable]
           b == IF act.durable THEN RecDiscard(Rec) ELSE Rec
<1>1. act.pc = "saving" /\ ActorStep(b, a, lease, sig.bell) /\ UNCHANGED <<doc, kept>>
  BY DEF SaveDone
<1>2. /\ TypeOK /\ RecoveryInv /\ act \in ActType /\ sig \in SigType
      /\ Fits(act) /\ Tame(Rec, act, Wanted)
  BY <1>1, TameNow
<1>3. /\ doc.now.text = act.text /\ (act.durable => doc.dur.text = act.text)
      /\ sig.bell \in BOOLEAN /\ doc.now.ver \in Nat
  BY <1>1, <1>2 DEF DurableInv, Based, SigType, TypeOK, Document
<1>4. a \in ActType /\ a.pc = "up" /\ a.text = act.text /\ a.base = doc.now.ver
  BY <1>2, <1>3 DEF ActType
<1> HIDE DEF a
<1>5. Fits(a) BY <1>2, <1>3, <1>4, FitsDoc DEF DurableInv
<1>6. CASE act.durable
  <2>1. Tame(b, a, FALSE) BY <1>2, <1>5, <1>6, RecDiscardTame
  <2> HIDE DEF b
  <2>2. LogsBacked' /\ Settled' /\ Growing' /\ Cleared' /\ Based'
    BY <1>1, <1>2, <1>3, <1>4, <1>5, <2>1, ActorStepTame
  <2>3. InDocs
    <3>1. CASE InFiles
      <4>1. IsPrefix(kept, act.text) BY <3>1, FilesToBuffer
      <4> QED BY <1>3, <1>6, <4>1 DEF InDocs, Docs
    <3> QED BY <3>1 DEF DurableInv, Holds
  <2>4. Holds' BY <1>1, <2>3 DEF Holds, InDocs, Docs
  <2> QED BY <2>2, <2>4 DEF DurableInv
<1>7. CASE ~act.durable
  <2>1. Tame(b, a, Wanted) BY <1>2, <1>4, <1>7 DEF Tame
  <2> HIDE DEF b
  <2>2. LogsBacked' /\ Settled' /\ Growing' /\ Cleared' /\ Based' /\ (Wanted => Wanted')
    BY <1>1, <1>2, <1>3, <1>4, <1>5, <2>1, ActorStepTame
  <2>3. Holds'
    BY <1>1, <2>2, HoldsKept DEF DurableInv, ActorStep
  <2> QED BY <2>2, <2>3 DEF DurableInv
<1> QED BY <1>6, <1>7

LEMMA ReloadDurable ==
  ASSUME EInv, DurableInv, NEW lease \in BOOLEAN, Reload(lease)
  PROVE  DurableInv'
<1> DEFINE rev == IF doc.now.text = act.text THEN act.rev ELSE act.rev + 1
           a   == [act EXCEPT !.text = doc.now.text, !.rev = rev, !.saved = rev,
                              !.base = doc.now.ver, !.restored = FALSE]
           b   == RecDiscard(Rec)
<1>1. act.pc = "up" /\ ActorStep(b, a, lease, sig.bell) /\ UNCHANGED doc /\ kept' = <<>>
  BY DEF Reload, Forget
<1>2. /\ TypeOK /\ RecoveryInv /\ act \in ActType /\ sig \in SigType
      /\ Fits(act) /\ Tame(Rec, act, Wanted)
  BY <1>1, TameNow
<1>3. rev \in Nat /\ doc.now.ver \in Nat /\ doc.now.text \in Text /\ sig.bell \in BOOLEAN
  <2>1. OtherTypes /\ act.rev \in Nat /\ act.rev + 1 \in Nat BY <1>2, TypeParts DEF ActType
  <2> QED BY <1>2, <2>1 DEF OtherTypes, DocType, Document, SigType
<1> HIDE DEF rev
<1>4. a \in ActType /\ a.pc = "up" /\ a.text = doc.now.text /\ a.base = doc.now.ver
  BY <1>1, <1>2, <1>3 DEF ActType
<1> HIDE DEF a
<1>5. Fits(a) BY <1>2, <1>4, FitsDoc DEF DurableInv
<1>6. Tame(b, a, FALSE) BY <1>2, <1>5, RecDiscardTame
<1> HIDE DEF b
<1>7. LogsBacked' /\ Settled' /\ Growing' /\ Cleared' /\ Based'
  BY <1>1, <1>2, <1>3, <1>4, <1>5, <1>6, ActorStepTame
<1>8. Holds'
  BY <1>1, ReloadInv, ForgetHolds DEF EInv
<1> QED BY <1>7, <1>8 DEF DurableInv

LEMMA RestoredDurable ==
  ASSUME EInv, DurableInv, NEW lease \in BOOLEAN, Restored(lease)
  PROVE  DurableInv'
<1> DEFINE g == IF act.restored THEN rec.gen + 1 ELSE rec.gen
           r == [NoRec EXCEPT !.gen = g, !.active = act.restored,
                              !.needs = act.restored /\ (wr.gen # g \/ failed),
                              !.written = IF act.restored THEN act.base ELSE -1]
           b == [r |-> r, q |-> queue]
           a == [act EXCEPT !.pc = "up"]
<1>1. act.pc = "restoring" /\ ActorStep(b, a, lease, FALSE) /\ UNCHANGED <<doc, kept>>
  BY DEF Restored
<1>2. TypeOK /\ RecoveryInv /\ ActorTypes
  BY TypeParts DEF EInv
<1>3. act \in ActType /\ rec \in RecType /\ queue \in Seq(Message) /\ act.restored \in BOOLEAN
  BY <1>2 DEF ActorTypes, ActType
<1>4. a \in ActType /\ a.pc = "up" /\ a.text = act.text /\ a.base = act.base
  BY <1>3 DEF ActType
<1>5. r \in RecType /\ r.out \in {0, r.gen} /\ r.active = act.restored
  <2>1. g \in Nat /\ (IF act.restored THEN act.base ELSE -1) \in Nat \cup {-1}
    BY <1>3 DEF RecType, ActType
  <2> HIDE DEF g
  <2> QED BY <1>3, <2>1 DEF RecType, NoRec
<1> HIDE DEF a, r
<1>6. Fits(a)
  BY <1>1, <1>4 DEF DurableInv, Based, Fits
<1>7. Tame(b, a, Wanted)
  <2>1. b.r = r /\ b.q = queue /\ b \in [r : RecType, q : Seq(Message)] BY <1>3, <1>5
  <2>2. Grows(queue, queue) BY <1>3, LenProperties DEF Grows
  <2>3. ~r.active => Bare(queue, Written) BY <1>1, <1>5 DEF DurableInv, Cleared, Inactive
  <2>4. Wanted => Wants(queue) BY DEF Wanted, Wants
  <2> HIDE DEF b
  <2> QED BY <1>3, <1>4, <1>5, <2>1, <2>2, <2>3, <2>4 DEF Tame, DurableInv, Growing, Based
<1> HIDE DEF b
<1>8. LogsBacked' /\ Settled' /\ Growing' /\ Cleared' /\ Based' /\ (Wanted => Wanted')
  BY <1>1, <1>2, <1>4, <1>6, <1>7, ActorStepTame
<1>9. Holds'
  BY <1>1, <1>8, HoldsKept DEF DurableInv, ActorStep
<1> QED BY <1>8, <1>9 DEF DurableInv

\* A version not given out before is no text's base.
LEMMA CoversNew ==
  ASSUME NEW text, NEW base \in Nat, NEW D, NEW n \in Nat, Covers(text, base, D, n),
         NEW D2, \A d \in D2 : d \in D \/ d.ver = n + 1
  PROVE  Covers(text, base, D2, n + 1)
  BY DEF Covers

\* A save adds to the document it replaces, or the document is given up.
LEMMA SaveWriteDurable ==
  ASSUME EInv, DurableInv, NEW durable \in BOOLEAN, NEW force \in BOOLEAN, SaveWrite(durable, force)
  PROVE  DurableInv'
<1> DEFINE new == [text |-> act.text, ver |-> doc.saves + 1]
<1>1. /\ act.pc = "up"
      /\ doc' = [now |-> new, dur |-> IF durable THEN new ELSE doc.dur, saves |-> doc.saves + 1]
      /\ act' = [act EXCEPT !.pc = "saving", !.durable = durable]
      /\ (act.base = doc.now.ver /\ kept' = kept) \/ kept' = <<>>
      /\ UNCHANGED <<rec, sig, queue, wr, failed, vol, dur, files>>
  BY DEF SaveWrite, Forget
<1>2. /\ TypeOK /\ RecoveryInv /\ act \in ActType /\ Fits(act) /\ Tame(Rec, act, Wanted)
  BY <1>1, TameNow
<1>3. /\ act'.pc = "saving" /\ act'.text = act.text /\ act'.base = act.base
      /\ act'.durable = durable /\ act.base \in Nat /\ act.text \in Text
  BY <1>1, <1>2 DEF ActType
<1>4. Rec.r = rec /\ Rec.q = queue BY DEF Rec
<1>5. /\ LogsBacked' /\ Settled' /\ Growing' /\ (Wanted => Wanted')
      /\ ~rec'.active => Bare(queue', Written')
  BY <1>1, <1>2, <1>3, <1>4, TameNext
<1>6. Cleared' BY <1>3, <1>5 DEF Cleared, Inactive
<1>d. /\ doc.saves \in Nat /\ queue \in Seq(Message) /\ vol.meta.base \in Nat /\ dur.meta.base \in Nat
      /\ doc.now \in Document /\ doc.dur \in Document /\ kept \in Text
  BY <1>2, TypeParts DEF OtherTypes, DocType, ActorTypes, WriterTypes, Directory
<1>7. new.text = act.text /\ new.ver = doc.saves + 1 OBVIOUS
<1> HIDE DEF new
<1>8. doc'.now = new /\ doc'.dur \in {new, doc.dur} /\ (durable => doc'.dur = new)
      /\ doc'.saves = doc.saves + 1
  BY <1>1
<1>9. \A d \in Docs' : d \in Docs \/ d.ver = doc.saves + 1
  BY <1>7, <1>8 DEF Docs
<1>10. Based'
  <2>1. \A d \in Docs' : d.ver <= doc'.saves
    BY <1>7, <1>8, <1>d DEF DurableInv, Based, Docs, Document
  <2>2. doc'.now.ver = doc'.dur.ver => doc'.now.text = doc'.dur.text
    <3>1. doc.dur.ver \in Nat /\ doc.dur.ver <= doc.saves BY <1>d DEF DurableInv, Based, Docs, Document
    <3> QED BY <1>7, <1>8, <1>d, <3>1
  <2>3. Covers(act'.text, act'.base, Docs', doc'.saves)
    BY <1>2, <1>3, <1>8, <1>9, <1>d, CoversNew DEF Fits
  <2>4. Covered(queue', Docs', doc'.saves)
    <3> SUFFICES ASSUME NEW i \in 1..Len(queue), queue[i].t = "switch"
                 PROVE  Covers(queue[i].text, queue[i].base, Docs', doc.saves + 1)
      BY <1>1, <1>8 DEF Covered
    <3>1. queue[i] \in Message BY <1>d, ElementOfSeq
    <3>2. queue[i].base \in Nat BY <3>1, MessageShape
    <3>3. Covers(queue[i].text, queue[i].base, Docs, doc.saves) BY DEF DurableInv, Based, Covered
    <3> QED BY <1>9, <1>d, <3>2, <3>3, CoversNew
  <2>5. ASSUME NEW m \in {vol'.meta, dur'.meta}, m.gen # 0
        PROVE  Covers(files'.snap[m.gen].text, m.base, Docs', doc'.saves)
    <3>1. m \in {vol.meta, dur.meta} /\ m.base \in Nat /\ files' = files BY <1>1, <1>d
    <3>2. Covers(files.snap[m.gen].text, m.base, Docs, doc.saves)
      BY <2>5, <3>1 DEF DurableInv, Based
    <3> QED BY <1>8, <1>9, <1>d, <3>1, <3>2, CoversNew
  <2>6. doc'.now.text = act'.text /\ (act'.durable => doc'.dur.text = act'.text)
    BY <1>3, <1>7, <1>8
  <2> QED BY <2>1, <2>2, <2>3, <2>4, <2>5, <2>6 DEF Based
<1>11. Holds'
  <2>1. CASE kept' = <<>>
    BY <2>1, SaveWriteInv, ForgetHolds DEF EInv
  <2>2. CASE act.base = doc.now.ver /\ kept' = kept /\ InDocs
    <3>1. IsPrefix(kept, doc.now.text) /\ IsPrefix(kept, doc.dur.text) BY <2>2 DEF InDocs, Docs
    <3>2. IsPrefix(doc.now.text, act.text) BY <1>2, <2>2 DEF Fits, Covers, Docs
    <3>3. IsPrefix(kept, act.text) BY <1>3, <1>d, <3>1, <3>2, PrefixTrans DEF Document
    <3>4. \A d \in Docs' : IsPrefix(kept', d.text) BY <1>7, <1>8, <2>2, <3>1, <3>3 DEF Docs
    <3> QED BY <3>4 DEF Holds, InDocs
  <2>3. CASE kept' = kept /\ InFiles
    BY <1>1, <1>5, <2>3 DEF Holds, InFiles, Metas, TextAt
  <2> QED BY <1>1, <2>1, <2>2, <2>3 DEF DurableInv, Holds
<1> QED BY <1>5, <1>6, <1>10, <1>11 DEF DurableInv

\* The base and the documents stay, the FIFO may have grown.
LEMMA BasedSame ==
  ASSUME Based, UNCHANGED <<doc, vol, dur, files>>, Covered(queue', Docs, doc.saves),
         act'.text = act.text, act'.base = act.base, act.pc # "gone",
         act'.pc = "saving" => act.pc = "saving" /\ act'.durable = act.durable
  PROVE  Based'
<1>1. Docs' = Docs BY DEF Docs
<1> QED BY <1>1 DEF Based

LEMMA CloseDurable ==
  ASSUME EInv, DurableInv, NEW force \in BOOLEAN, Close(force)
  PROVE  DurableInv'
<1> DEFINE b == IF force THEN RecDiscard(Rec) ELSE Rec
           r == [b.r EXCEPT !.overflow = FALSE]
           m == [t |-> "flush", of |-> "actor"]
           q == IF sig.token THEN Append(b.q, m) ELSE b.q
           c == [r |-> r, q |-> q]
<1>1. /\ act.pc = "up" /\ act' = [act EXCEPT !.pc = "closed"]
      /\ rec' = r /\ queue' = q /\ kept' = <<>>
      /\ UNCHANGED <<wr, failed, vol, dur, files, doc>>
  BY DEF Close, Forget
<1>2. /\ TypeOK /\ RecoveryInv /\ act \in ActType /\ Fits(act) /\ Tame(Rec, act, Wanted)
  BY <1>1, TameNow
<1>3. act'.pc = "closed" /\ act'.text = act.text /\ act'.base = act.base
  BY <1>1, <1>2 DEF ActType
<1>4. Tame(b, act, FALSE)
  <2>1. Tame(Rec, act, FALSE) BY <1>2 DEF Tame
  <2> QED BY <1>2, <2>1, RecDiscardTame
<1> HIDE DEF b
<1>5. b \in [r : RecType, q : Seq(Message)] /\ b.r \in RecType /\ b.r.out \in {0, b.r.gen}
  BY <1>4 DEF Tame
<1>6. r \in RecType /\ r.out \in {0, r.gen} /\ r.active = b.r.active
  BY <1>5 DEF RecType
<1> HIDE DEF r
<1>7. m \in Message /\ m.t = "flush"
  BY DEF Message
<1> HIDE DEF m
<1>8. Tame(c, act, FALSE)
  <2>1. CASE sig.token
    <3>1. ~Carries(m) /\ m.t # "switch" /\ m.t # "discard" BY <1>7 DEF Carries
    <3>2. Tame([r |-> r, q |-> Append(b.q, m)], act, FALSE)
      BY <1>2, <1>4, <1>6, <1>7, <3>1, TameAppend
    <3> QED BY <2>1, <3>2
  <2>2. CASE ~sig.token
    <3>1. Tame([r |-> r, q |-> b.q], act, FALSE) BY <1>4, <1>6, TameRec
    <3> QED BY <2>2, <3>1
  <2> QED BY <2>1, <2>2
<1>9. c.r = r /\ c.q = q OBVIOUS
<1> HIDE DEF c, q
<1>10. LogsBacked' /\ Settled' /\ Growing'
  BY <1>1, <1>2, <1>3, <1>8, <1>9, TameNext
<1>11. Cleared' BY <1>3 DEF Cleared, Inactive
<1>12. Based'
  <2>1. Covered(queue', Docs, doc.saves) BY <1>1, <1>8, <1>9 DEF Tame
  <2> QED BY <1>1, <1>3, <2>1, BasedSame DEF DurableInv
<1>13. Holds' BY <1>1, CloseInv, ForgetHolds DEF EInv
<1> QED BY <1>10, <1>11, <1>12, <1>13 DEF DurableInv

LEMMA FlushAskDurable ==
  ASSUME EInv, DurableInv, FlushAsk
  PROVE  DurableInv'
<1> DEFINE m == [t |-> "flush", of |-> "daemon"]
           c == [r |-> rec, q |-> Append(queue, m)]
<1>1. /\ act.pc \in {"up", "saving"} /\ queue' = Append(queue, m)
      /\ UNCHANGED <<act, rec, wr, failed, vol, dur, files, doc, kept>>
  BY DEF FlushAsk
<1>2. /\ TypeOK /\ RecoveryInv /\ act \in ActType /\ Fits(act) /\ Tame(Rec, act, Wanted)
  BY <1>1, TameNow
<1>3. rec \in RecType /\ rec.out \in {0, rec.gen} /\ Rec.r = rec /\ Rec.q = queue
  BY <1>2, TypeParts DEF ActorTypes, Rec
<1>4. m \in Message /\ m.t = "flush"
  BY DEF Message
<1> HIDE DEF m
<1>5. Tame(c, act, Wanted)
  <2>1. ~Carries(m) /\ m.t # "switch" /\ m.t # "discard" BY <1>4 DEF Carries
  <2> QED BY <1>2, <1>3, <1>4, <2>1, TameAppend
<1>6. c.r = rec /\ c.q = Append(queue, m) OBVIOUS
<1> HIDE DEF c
<1>7. /\ LogsBacked' /\ Settled' /\ Growing' /\ (Wanted => Wanted')
      /\ ~rec'.active => Bare(queue', Written')
  BY <1>1, <1>2, <1>5, <1>6, TameNext
<1>8. Cleared' BY <1>1, <1>7 DEF Cleared, Inactive
<1>9. Based'
  <2>1. Covered(queue', Docs, doc.saves) BY <1>1, <1>5, <1>6 DEF Tame
  <2> QED BY <1>1, <2>1, BasedSame DEF DurableInv
<1>10. Holds' BY <1>1, <1>7, HoldsKept DEF DurableInv
<1> QED BY <1>7, <1>8, <1>9, <1>10 DEF DurableInv

LEMMA DurableSame ==
  ASSUME DurableInv, UNCHANGED <<act, rec, queue, wr, failed, vol, dur, files, doc, kept>>
  PROVE  DurableInv'
<1>1. Written' = Written /\ Docs' = Docs /\ Metas' = Metas BY DEF Written, Logged, Docs, Metas
<1>2. LogsBacked' /\ Settled' BY <1>1 DEF DurableInv, LogsBacked, Settled
<1>3. Growing' /\ Cleared' BY <1>1 DEF DurableInv, Growing, Cleared, Inactive
<1>4. Based' BY <1>1 DEF DurableInv, Based
<1>5. Wanted => Wanted' BY DEF Wanted
<1>6. Holds' BY <1>5, HoldsKept DEF DurableInv
<1> QED BY <1>2, <1>3, <1>4, <1>6 DEF DurableInv

-----------------------------------------------------------------------------
(* The writer's steps *)

\* What a step of the writer has to show for the FIFO, the buffer and the bases.
LEMMA WriterLine ==
  ASSUME EInv, DurableInv, UNCHANGED <<act, rec, doc>>,
         \/ queue' = queue /\ Begins(queue, Written, Written')
         \/ queue # <<>> /\ queue' = Tail(queue) /\ Leaves(queue, Written, Written'),
         \A m \in {vol'.meta, dur'.meta} :
           m.gen # 0 => Covers(files'.snap[m.gen].text, m.base, Docs, doc.saves)
  PROVE  Growing' /\ Cleared' /\ Based'
<1>1. queue \in Seq(Message) BY TypeParts DEF EInv, ActorTypes
<1>2. Rises(queue, Written) /\ Under(queue, Len(queue) + 1, Written, act.text)
  BY DEF DurableInv, Growing
<1>3. PICK W2 : W2 = Written' OBVIOUS
<1>4. PICK q2 : q2 = queue' OBVIOUS
<1>5. /\ Rises(q2, W2) /\ Under(q2, Len(q2) + 1, W2, act.text)
      /\ Bare(queue, Written) => Bare(q2, W2)
  <2>1. CASE queue' = queue /\ Begins(queue, Written, Written')
    BY <1>1, <1>2, <1>3, <1>4, <2>1, LineBegun
  <2>2. CASE queue # <<>> /\ queue' = Tail(queue) /\ Leaves(queue, Written, Written')
    BY <1>1, <1>2, <1>3, <1>4, <2>2, LineServed
  <2> QED BY <2>1, <2>2
<1>6. Growing'
  <2>1. Rises(queue', Written') /\ Under(queue', Len(queue') + 1, Written', act'.text)
    BY <1>3, <1>4, <1>5
  <2> QED BY <2>1 DEF Growing
<1>7. Cleared'
  <2>1. Inactive' => Bare(queue, Written) BY DEF DurableInv, Cleared, Inactive
  <2>2. Inactive' => Bare(queue', Written') BY <1>3, <1>4, <1>5, <2>1
  <2> QED BY <2>2 DEF Cleared
<1>8. Covered(q2, Docs, doc.saves)
  <2>1. Covered(queue, Docs, doc.saves) BY DEF DurableInv, Based
  <2>2. CASE q2 = queue BY <2>1, <2>2
  <2>3. CASE queue # <<>> /\ q2 = Tail(queue)
    <3>1. \A i \in 1..Len(q2) : q2[i] = queue[i + 1] /\ i + 1 \in 1..Len(queue)
      BY <1>1, <2>3, TailElements
    <3> QED BY <2>1, <3>1 DEF Covered
  <2> QED BY <1>4, <2>2, <2>3
<1>9. Based'
  <2>1. Docs' = Docs BY DEF Docs
  <2>2. Covered(queue', Docs', doc'.saves) BY <1>4, <1>8, <2>1
  <2> QED BY <2>1, <2>2 DEF DurableInv, Based
<1> QED BY <1>6, <1>7, <1>9

LEMMA WrittenSame ==
  ASSUME wr'.gen = wr.gen, wr.gen # 0 => FilesSame(wr.gen)
  PROVE  /\ Written' = Written /\ \A q : Begins(q, Written, Written')
         /\ \A q : q[1].t # "discard" => Leaves(q, Written, Written')
<1>1. Written' = Written
  BY DEF Written, Logged, FilesSame
<1> QED BY <1>1 DEF Begins, Leaves

LEMMA MetasCovered ==
  ASSUME DurableInv, NEW v, NEW u, v \in {vol.meta, dur.meta}, u \in {vol.meta, dur.meta},
         \A g \in Metas : files'.snap[g] = files.snap[g]
  PROVE  \A m \in {v, u} :
           m.gen # 0 => Covers(files'.snap[m.gen].text, m.base, Docs, doc.saves)
  BY DEF DurableInv, Based, Metas

LEMMA WantedTail ==
  ASSUME EInv, queue # <<>>, queue' = Tail(queue), Wanted
  PROVE  Wanted'
<1>1. queue \in Seq(Message) BY TypeParts DEF EInv, ActorTypes
<1>2. \A i \in 1..Len(Tail(queue)) : Tail(queue)[i] = queue[i + 1] /\ i + 1 \in 1..Len(queue)
  BY <1>1, TailElements
<1> QED BY <1>2 DEF Wanted

\* What is kept stays where it is when the files of the metas keep what is synced.
LEMMA HoldsFrame ==
  ASSUME DurableInv, UNCHANGED <<doc, kept>>, Wanted => Wanted',
         InFiles => wr'.gen # 0 /\ dur'.meta.gen # 0,
         \A g \in Metas' : g \in Metas /\ TextAt(g, files.synced[g])' = TextAt(g, files.synced[g])
  PROVE  Holds'
<1>1. CASE InDocs BY <1>1 DEF Holds, InDocs, Docs
<1>2. CASE InFiles BY <1>2 DEF Holds, InFiles
<1> QED BY <1>1, <1>2 DEF DurableInv, Holds

LEMMA SyncedSame ==
  ASSUME NEW g, FilesSame(g)
  PROVE  TextAt(g, files.synced[g])' = TextAt(g, files.synced[g])
  BY DEF FilesSame, TextAt

LEMMA SwitchSnapDurable ==
  ASSUME EInv, DurableInv, SwitchSnap
  PROVE  DurableInv'
<1> DEFINE m == Head(queue)
           c == [rev |-> m.rev, text |-> m.text]
<1>1. TypeOK /\ RecoveryInv /\ WriterTypes
  BY TypeParts DEF EInv
<1>2. /\ wr.pc = "idle" /\ queue # <<>> /\ m.t = "switch"
      /\ files' = [files EXCEPT !.snap = Store(@, m.gen, c)]
      /\ vol' = [vol EXCEPT !.snaps = @ \cup {m.gen}]
      /\ wr' = [wr EXCEPT !.pc = "snap"]
      /\ UNCHANGED <<act, rec, queue, failed, dur, doc, kept>>
  BY DEF SwitchSnap, Msg
<1>3. \A g \in Gens : g # m.gen
  BY <1>1, <1>2, InHand
<1> HIDE DEF c
<1>4. files'.snap = Store(files.snap, m.gen, c) /\ files'.log = files.log /\ files'.synced = files.synced
  BY <1>1, <1>2 DEF WriterTypes, FilesType
<1>5. wr'.pc = "snap" /\ wr'.gen = wr.gen /\ vol'.meta = vol.meta /\ vol'.logs = vol.logs
  BY <1>1, <1>2 DEF WriterTypes, WrType, Directory
<1>6. \A g \in Gens \ {0} : FilesSame(g)
  BY <1>1, <1>3, <1>4, SoundGen DEF FilesSame, Sound, Store
<1>7. Metas' = Metas /\ Metas \subseteq Gens \ {0}
  BY <1>2, <1>5 DEF Gens, Metas
<1>8. LogsBacked'
  BY <1>2, <1>5, <1>7 DEF DurableInv, LogsBacked
<1>9. Settled'
  BY <1>2, <1>4, <1>5 DEF DurableInv, Settled
<1>10. Growing' /\ Cleared' /\ Based'
  <2>1. Begins(queue, Written, Written') BY <1>5, <1>6, WrittenSame DEF Gens
  <2>2. \A g \in Metas : files'.snap[g] = files.snap[g] BY <1>6, <1>7 DEF FilesSame
  <2>3. \A x \in {vol'.meta, dur'.meta} :
          x.gen # 0 => Covers(files'.snap[x.gen].text, x.base, Docs, doc.saves)
    BY <1>2, <1>5, <2>2, MetasCovered
  <2> QED BY <1>2, <2>1, <2>3, WriterLine
<1>11. Holds'
  <2>1. Wanted => Wanted' BY <1>2 DEF Wanted
  <2>2. InFiles => wr'.gen # 0 /\ dur'.meta.gen # 0 BY <1>2, <1>5 DEF InFiles
  <2> QED BY <1>2, <1>6, <1>7, <2>1, <2>2, HoldsFrame, SyncedSame
<1> QED BY <1>8, <1>9, <1>10, <1>11 DEF DurableInv

LEMMA SwitchLogDurable ==
  ASSUME EInv, DurableInv, SwitchLog
  PROVE  DurableInv'
<1> DEFINE m == Head(queue)
<1>1. TypeOK /\ RecoveryInv /\ WriterTypes
  BY TypeParts DEF EInv
<1>2. /\ wr.pc = "snap"
      /\ files' = [files EXCEPT !.log = Store(@, m.gen, <<>>), !.synced = Store(@, m.gen, 0)]
      /\ vol' = [vol EXCEPT !.logs = @ \cup {m.gen}]
      /\ wr' = [wr EXCEPT !.pc = "log"]
      /\ UNCHANGED <<act, rec, queue, failed, dur, doc, kept>>
  BY DEF SwitchLog
<1>h. queue # <<>> /\ m.t = "switch"
  BY <1>1, <1>2 DEF RecoveryInv, Staged, InSwitch, Msg
<1>3. \A g \in Gens : g # m.gen
  BY <1>1, <1>2, <1>h, InHand
<1>4. /\ files'.snap = files.snap /\ files'.log = Store(files.log, m.gen, <<>>)
      /\ files'.synced = Store(files.synced, m.gen, 0) /\ DOMAIN files.synced = DOMAIN files.log
  BY <1>1, <1>2 DEF WriterTypes, FilesType
<1>5. /\ wr'.pc = "log" /\ wr'.gen = wr.gen /\ vol'.meta = vol.meta
      /\ vol'.logs = vol.logs \cup {m.gen}
  BY <1>1, <1>2 DEF WriterTypes, WrType, Directory
<1>6. \A g \in Gens \ {0} : FilesSame(g)
  BY <1>1, <1>3, <1>4, SoundGen DEF FilesSame, Sound, Store
<1>7. Metas' = Metas /\ Metas \subseteq Gens \ {0}
  BY <1>2, <1>5 DEF Gens, Metas
<1>8. LogsBacked'
  BY <1>2, <1>5, <1>7 DEF DurableInv, LogsBacked
<1>9. Settled'
  <2>1. wr.gen # 0 => files'.log[wr.gen] = files.log[wr.gen] BY <1>6 DEF Gens, FilesSame
  <2> QED BY <1>2, <1>5, <2>1 DEF DurableInv, Settled
<1>10. Growing' /\ Cleared' /\ Based'
  <2>1. Begins(queue, Written, Written') BY <1>5, <1>6, WrittenSame DEF Gens
  <2>2. \A g \in Metas : files'.snap[g] = files.snap[g] BY <1>4
  <2>3. \A x \in {vol'.meta, dur'.meta} :
          x.gen # 0 => Covers(files'.snap[x.gen].text, x.base, Docs, doc.saves)
    BY <1>2, <1>5, <2>2, MetasCovered
  <2> QED BY <1>2, <2>1, <2>3, WriterLine
<1>11. Holds'
  <2>1. Wanted => Wanted' BY <1>2 DEF Wanted
  <2>2. InFiles => wr'.gen # 0 /\ dur'.meta.gen # 0 BY <1>2, <1>5 DEF InFiles
  <2> QED BY <1>2, <1>6, <1>7, <2>1, <2>2, HoldsFrame, SyncedSame
<1> QED BY <1>8, <1>9, <1>10, <1>11 DEF DurableInv

LEMMA SwitchDirDurable ==
  ASSUME EInv, DurableInv, SwitchDir
  PROVE  DurableInv'
<1>1. TypeOK /\ RecoveryInv /\ WriterTypes
  BY TypeParts DEF EInv
<1>2. /\ wr.pc = "log" /\ dur' = vol /\ wr' = [wr EXCEPT !.pc = "dir"]
      /\ UNCHANGED <<act, rec, queue, failed, vol, files, doc, kept>>
  BY DEF SwitchDir
<1>5. wr'.pc = "dir" /\ wr'.gen = wr.gen
  BY <1>1, <1>2 DEF WriterTypes, WrType
<1>6. \A g \in Gens \ {0} : FilesSame(g)
  BY <1>1, <1>2, SoundGen DEF FilesSame, Sound
<1>7. Metas' \subseteq Metas /\ Metas \subseteq Gens \ {0}
  BY <1>2 DEF Gens, Metas
<1>8. LogsBacked'
  BY <1>2, <1>5, <1>7 DEF DurableInv, LogsBacked
<1>9. Settled'
  BY <1>2, <1>5 DEF DurableInv, Settled
<1>10. Growing' /\ Cleared' /\ Based'
  <2>1. Begins(queue, Written, Written') BY <1>5, <1>6, WrittenSame DEF Gens
  <2>2. \A g \in Metas : files'.snap[g] = files.snap[g] BY <1>2
  <2>3. \A x \in {vol'.meta, dur'.meta} :
          x.gen # 0 => Covers(files'.snap[x.gen].text, x.base, Docs, doc.saves)
    BY <1>2, <2>2, MetasCovered
  <2> QED BY <1>2, <2>1, <2>3, WriterLine
<1>11. Holds'
  <2>1. Wanted => Wanted' BY <1>2 DEF Wanted
  <2>2. InFiles => wr'.gen # 0 /\ dur'.meta.gen # 0
    BY <1>2, <1>5 DEF InFiles, DurableInv, Settled
  <2> QED BY <1>2, <1>6, <1>7, <2>1, <2>2, HoldsFrame, SyncedSame
<1> QED BY <1>8, <1>9, <1>10, <1>11 DEF DurableInv

LEMMA SwitchMetaDurable ==
  ASSUME EInv, DurableInv, SwitchMeta
  PROVE  DurableInv'
<1>1. TypeOK /\ RecoveryInv /\ WriterTypes
  BY TypeParts DEF EInv
<1>m. PICK m : m = Head(queue)
  OBVIOUS
<1>2. /\ wr.pc = "dir"
      /\ vol' = [vol EXCEPT !.meta = [gen |-> m.gen, base |-> m.base]]
      /\ wr'.pc = "meta" /\ wr'.gen = m.gen
      /\ UNCHANGED <<act, rec, queue, failed, dur, files, doc, kept>>
  BY <1>1, <1>m DEF SwitchMeta, WriterTypes, WrType
<1>h. queue # <<>> /\ m.t = "switch" /\ Staged
  BY <1>1, <1>2, <1>m DEF RecoveryInv, Staged, InSwitch, Msg
<1>3. m = queue[1] /\ 1 \in 1..Len(queue) /\ m.gen \in Nat /\ m.gen # 0 /\ m.text \in Text
  BY <1>1, <1>h, <1>m, InHand
<1>4. TextAt(m.gen, 0) = m.text /\ files.synced[m.gen] = 0 /\ files.log[m.gen] = <<>>
      /\ files.snap[m.gen].text = m.text /\ Len(files.log[m.gen]) = 0
  <2>1. TextAt(m.gen, Len(files.log[m.gen])) = m.text /\ Len(files.log[m.gen]) = 0
    BY <1>1, <1>2, <1>m, SwitchSound
  <2>2. /\ files.synced[m.gen] = 0 /\ files.log[m.gen] = <<>>
        /\ files.snap[m.gen] = [rev |-> m.rev, text |-> m.text]
    BY <1>2, <1>h, <1>m DEF Staged, InSwitch
  <2> QED BY <2>1, <2>2
<1>5. /\ vol'.meta = [gen |-> m.gen, base |-> m.base] /\ vol'.meta.gen = m.gen
      /\ vol'.meta.base = m.base /\ vol'.logs = vol.logs
  BY <1>1, <1>2 DEF WriterTypes, Directory
<1>7. Metas' \subseteq Metas \cup {m.gen}
  BY <1>2, <1>5 DEF Metas
<1>8. LogsBacked'
  BY <1>2, <1>5, <1>7, <1>m DEF DurableInv, LogsBacked
<1>9. Settled'
  BY <1>2, <1>4, <1>5 DEF Settled
<1>10. Written' = {m.text}
  <2>1. Logged(m.gen)' = TextAt(m.gen, 0) BY <1>2, <1>4 DEF Logged, TextAt
  <2> QED BY <1>2, <1>3, <1>4, <2>1 DEF Written
<1>11. Growing' /\ Cleared' /\ Based'
  <2>1. Begins(queue, Written, Written')
    BY <1>3, <1>10, <1>h DEF Begins, Carries
  <2>2. ASSUME NEW x \in {vol'.meta, dur'.meta}, x.gen # 0
        PROVE  Covers(files'.snap[x.gen].text, x.base, Docs, doc.saves)
    <3>1. CASE x = vol'.meta
      <4>1. Covers(m.text, m.base, Docs, doc.saves) BY <1>3, <1>h DEF DurableInv, Based, Covered
      <4> QED BY <1>2, <1>4, <1>5, <3>1, <4>1
    <3>2. CASE x = dur.meta
      BY <1>2, <2>2, <3>2 DEF DurableInv, Based
    <3> QED BY <1>2, <3>1, <3>2
  <2> QED BY <1>2, <2>1, <2>2, WriterLine
<1>12. Holds'
  <2>1. CASE InDocs BY <1>2, <2>1 DEF Holds, InDocs, Docs
  <2>2. CASE InFiles
    <3>1. IsPrefix(kept, Logged(wr.gen)) /\ Logged(wr.gen) \in Text /\ kept \in Text
      BY <2>2, FilesToBuffer
    <3>2. Logged(wr.gen) \in Reaching(queue, 1, Written)
      <4>1. Unbroken(queue, 1, 1) BY DEF Unbroken
      <4>2. Logged(wr.gen) \in Written BY <2>2 DEF InFiles, Written
      <4> QED BY <4>1, <4>2, ReachIn
    <3>3. IsPrefix(Logged(wr.gen), m.text)
      BY <1>3, <1>h, <3>2 DEF DurableInv, Growing, Rises, Under, Carries
    <3>4. IsPrefix(kept, m.text) BY <1>3, <3>1, <3>3, PrefixTrans
    <3>5. \A g : TextAt(g, files.synced[g])' = TextAt(g, files.synced[g]) BY <1>2 DEF TextAt
    <3>6. \A g \in Metas' : IsPrefix(kept', TextAt(g, files.synced[g])')
      BY <1>2, <1>4, <1>7, <2>2, <3>4, <3>5 DEF InFiles
    <3>7. wr'.gen # 0 /\ dur'.meta.gen # 0 /\ Wanted'
      BY <1>2, <1>3, <2>2 DEF InFiles, Wanted
    <3> QED BY <3>6, <3>7 DEF Holds, InFiles
  <2> QED BY <2>1, <2>2 DEF DurableInv, Holds
<1> QED BY <1>8, <1>9, <1>11, <1>12 DEF DurableInv

\* What the files hold becomes durable, and is kept unless a Discard is queued.
LEMMA HoldsLonger ==
  ASSUME EInv, DurableInv, NEW t \in Text, UNCHANGED doc,
         kept' = IF Wanted THEN Longer(kept, t) ELSE kept,
         Wanted => Wanted', wr'.gen # 0, dur'.meta.gen # 0,
         InFiles => IsPrefix(kept, t),
         \A g \in Metas' : TextAt(g, files.synced[g])' = t
  PROVE  Holds'
<1>1. CASE Wanted /\ IsPrefix(kept, t)
  <2>1. kept' = t BY <1>1 DEF Longer
  <2>2. IsPrefix(t, t) BY PrefixRefl
  <2> QED BY <1>1, <2>1, <2>2 DEF Holds, InFiles
<1>2. CASE ~(Wanted /\ IsPrefix(kept, t))
  <2>1. kept' = kept /\ InDocs BY <1>2 DEF Longer, DurableInv, Holds, InFiles
  <2> QED BY <2>1 DEF Holds, InDocs, Docs
<1> QED BY <1>1, <1>2

LEMMA SwitchDoneDurable ==
  ASSUME EInv, DurableInv, SwitchDone
  PROVE  DurableInv'
<1>1. TypeOK /\ RecoveryInv /\ WriterTypes
  BY TypeParts DEF EInv
<1>m. PICK m : m = Head(queue)
  OBVIOUS
<1>2. /\ wr.pc = "meta" /\ dur' = vol /\ failed' = FALSE
      /\ wr'.pc = "done" /\ wr'.gen = wr.gen
      /\ kept' = IF Wanted THEN Longer(kept, m.text) ELSE kept
      /\ UNCHANGED <<act, rec, queue, vol, files, doc>>
  BY <1>1, <1>m DEF SwitchDone, WriterTypes, WrType
<1>h. queue # <<>> /\ m.t = "switch" /\ Staged /\ vol.meta.gen = m.gen /\ wr.gen = m.gen
  BY <1>1, <1>2, <1>m DEF RecoveryInv, Staged, InSwitch, Msg
<1>3. m.gen # 0 /\ m.gen \in Nat /\ m.text \in Text
  BY <1>1, <1>h, <1>m, InHand
<1>4. TextAt(m.gen, 0) = m.text /\ files.synced[m.gen] = 0 /\ Logged(m.gen) = m.text
  <2>1. TextAt(m.gen, Len(files.log[m.gen])) = m.text /\ Len(files.log[m.gen]) = 0
    BY <1>1, <1>2, <1>m, SwitchSound
  <2>2. files.synced[m.gen] = 0
    BY <1>2, <1>h, <1>m DEF Staged, InSwitch
  <2> QED BY <2>1, <2>2 DEF Logged, TextAt
<1>6. \A g \in Gens \ {0} : FilesSame(g)
  BY <1>1, <1>2, SoundGen DEF FilesSame, Sound
<1>7. Metas' = {m.gen} /\ m.gen \in Metas
  BY <1>2, <1>3, <1>h DEF Metas
<1>8. LogsBacked'
  BY <1>2, <1>7 DEF DurableInv, LogsBacked
<1>9. Settled'
  BY <1>2, <1>h DEF Settled
<1>10. Growing' /\ Cleared' /\ Based'
  <2>1. Begins(queue, Written, Written') BY <1>2, <1>6, WrittenSame DEF Gens
  <2>2. \A g \in Metas : files'.snap[g] = files.snap[g] BY <1>2
  <2>3. \A x \in {vol'.meta, dur'.meta} :
          x.gen # 0 => Covers(files'.snap[x.gen].text, x.base, Docs, doc.saves)
    BY <1>2, <2>2, MetasCovered
  <2> QED BY <1>2, <2>1, <2>3, WriterLine
<1>11. Holds'
  <2>1. Wanted => Wanted' BY <1>2 DEF Wanted
  <2>2. InFiles => IsPrefix(kept, m.text) BY <1>4, <1>h, FilesToBuffer
  <2>3. \A g \in Metas' : TextAt(g, files.synced[g])' = m.text
    BY <1>2, <1>4, <1>7 DEF TextAt
  <2>4. wr'.gen # 0 /\ dur'.meta.gen # 0 BY <1>2, <1>3, <1>h
  <2> QED BY <1>2, <1>3, <2>1, <2>2, <2>3, <2>4, HoldsLonger
<1> QED BY <1>8, <1>9, <1>10, <1>11 DEF DurableInv

LEMMA SwitchRetireDurable ==
  ASSUME EInv, DurableInv, NEW unlinked \in BOOLEAN, NEW synced \in BOOLEAN,
         SwitchRetire(unlinked, synced)
  PROVE  DurableInv'
<1>m. PICK m : m = Head(queue)
  OBVIOUS
<1> DEFINE old == wr.stray \ {m.gen}
           new == IF unlinked THEN [vol EXCEPT !.snaps = @ \ old, !.logs = @ \ old] ELSE vol
<1>1. TypeOK /\ RecoveryInv /\ WriterTypes
  BY TypeParts DEF EInv
<1>2. /\ wr.pc = "done"
      /\ vol' = new /\ dur' = (IF synced /\ old # {} THEN new ELSE dur)
      /\ wr' = [wr EXCEPT !.pc = "idle", !.stray = IF unlinked THEN {} ELSE old]
      /\ queue' = Tail(queue)
      /\ UNCHANGED <<act, rec, failed, files, doc, kept>>
  BY <1>m DEF SwitchRetire
<1>h. /\ queue # <<>> /\ m.t = "switch" /\ vol.meta.gen = m.gen /\ wr.gen = m.gen
      /\ dur.meta.gen = m.gen
  BY <1>m, <1>1, <1>2 DEF RecoveryInv, Staged, InSwitch, Msg
<1>3. m.gen # 0 /\ m.gen \in Nat /\ m = queue[1]
  BY <1>1, <1>h, <1>m, InHand
<1>4. m.gen \in vol.logs /\ m.gen \in dur.logs
  BY <1>2, <1>m DEF DurableInv, LogsBacked
<1>5. new.meta = vol.meta /\ m.gen \in new.logs
  BY <1>1, <1>4 DEF WriterTypes, Directory
<1> HIDE DEF new, old
<1>6. /\ wr'.pc = "idle" /\ wr'.gen = wr.gen /\ vol'.meta = vol.meta
      /\ dur'.meta \in {vol.meta, dur.meta} /\ m.gen \in vol'.logs /\ m.gen \in dur'.logs
  BY <1>1, <1>2, <1>4, <1>5 DEF WriterTypes, WrType
<1>7. Metas' = {m.gen} /\ Metas = {m.gen}
  BY <1>3, <1>6, <1>h DEF Metas
<1>8. LogsBacked'
  BY <1>6, <1>7 DEF LogsBacked
<1>9. Settled'
  BY <1>6, <1>h DEF Settled
<1>10. \A g \in Gens \ {0} : FilesSame(g)
  BY <1>1, <1>2, SoundGen DEF FilesSame, Sound
<1>11. Growing' /\ Cleared' /\ Based'
  <2>1. Leaves(queue, Written, Written')
    BY <1>3, <1>6, <1>10, <1>h, WrittenSame DEF Gens
  <2>2. \A g \in Metas : files'.snap[g] = files.snap[g] BY <1>2
  <2>3. \A x \in {vol'.meta, dur'.meta} :
          x.gen # 0 => Covers(files'.snap[x.gen].text, x.base, Docs, doc.saves)
    BY <1>6, <2>2, MetasCovered
  <2> QED BY <1>2, <1>h, <2>1, <2>3, WriterLine
<1>12. Holds'
  <2>1. Wanted => Wanted' BY <1>2, <1>h, WantedTail
  <2>2. InFiles => wr'.gen # 0 /\ dur'.meta.gen # 0 BY <1>3, <1>6, <1>h
  <2>3. \A g : TextAt(g, files.synced[g])' = TextAt(g, files.synced[g]) BY <1>2 DEF TextAt
  <2> QED BY <1>2, <1>7, <2>1, <2>2, <2>3, HoldsFrame
<1> QED BY <1>8, <1>9, <1>11, <1>12 DEF DurableInv

\* A Switch or an Append leaves the FIFO without a trace.
LEMMA PlainDurable ==
  ASSUME EInv, DurableInv, queue # <<>>, Head(queue).t # "discard", queue' = Tail(queue),
         wr'.pc = "idle", wr'.gen = wr.gen, UNCHANGED <<act, rec, vol, dur, files, doc, kept>>,
         failed \/ wr.pc = "meta" => failed'
  PROVE  DurableInv'
<1>1. TypeOK /\ RecoveryInv BY DEF EInv
<1>2. Head(queue) = queue[1] BY <1>1, InHand
<1>3. Metas' = Metas BY DEF Metas
<1>4. LogsBacked' BY <1>3 DEF DurableInv, LogsBacked
<1>5. Settled' BY DEF DurableInv, Settled
<1>6. \A g \in Gens \ {0} : FilesSame(g)
  BY <1>1, SoundGen DEF FilesSame, Sound
<1>7. Growing' /\ Cleared' /\ Based'
  <2>1. Leaves(queue, Written, Written') BY <1>2, <1>6, WrittenSame DEF Gens
  <2>2. \A x \in {vol'.meta, dur'.meta} :
          x.gen # 0 => Covers(files'.snap[x.gen].text, x.base, Docs, doc.saves)
    BY MetasCovered
  <2> QED BY <2>1, <2>2, WriterLine
<1>8. Holds'
  <2>1. Wanted => Wanted' BY WantedTail
  <2>2. InFiles => wr'.gen # 0 /\ dur'.meta.gen # 0 BY DEF InFiles
  <2>3. \A g : TextAt(g, files.synced[g])' = TextAt(g, files.synced[g]) BY DEF TextAt
  <2> QED BY <1>3, <2>1, <2>2, <2>3, HoldsFrame
<1> QED BY <1>4, <1>5, <1>7, <1>8 DEF DurableInv

LEMMA SwitchFailDurable ==
  ASSUME EInv, DurableInv, SwitchFail
  PROVE  DurableInv'
<1>1. TypeOK /\ RecoveryInv /\ WriterTypes
  BY TypeParts DEF EInv
<1>2. /\ wr.pc \in {"snap", "log", "dir", "meta"} \/ (wr.pc = "idle" /\ Msg("switch"))
      /\ failed' = TRUE /\ queue' = Tail(queue) /\ wr'.pc = "idle" /\ wr'.gen = wr.gen
      /\ UNCHANGED <<act, rec, vol, dur, files, doc, kept>>
  BY <1>1 DEF SwitchFail, WriterTypes, WrType
<1>3. queue # <<>> /\ Head(queue).t = "switch"
  BY <1>1, <1>2 DEF RecoveryInv, Staged, InSwitch, Msg
<1> QED BY <1>2, <1>3, PlainDurable

LEMMA AppendDroppedDurable ==
  ASSUME EInv, DurableInv, AppendDropped
  PROVE  DurableInv'
<1>1. WriterTypes BY TypeParts DEF EInv
<1>2. /\ wr.pc = "idle" /\ queue # <<>> /\ Head(queue).t = "append" /\ queue' = Tail(queue)
      /\ wr'.pc = "idle" /\ wr'.gen = wr.gen
      /\ UNCHANGED <<act, rec, vol, dur, files, doc, kept, failed>>
  BY <1>1 DEF AppendDropped, Msg, WriterTypes, WrType
<1> QED BY <1>2, PlainDurable

LEMMA AppendFailDurable ==
  ASSUME EInv, DurableInv, AppendFail
  PROVE  DurableInv'
<1>1. /\ wr.pc = "idle" /\ queue # <<>> /\ Head(queue).t = "append" /\ queue' = Tail(queue)
      /\ failed' = TRUE /\ UNCHANGED <<act, rec, wr, vol, dur, files, doc, kept>>
  BY DEF AppendFail, Msg
<1> QED BY <1>1, PlainDurable

\* One more record: the log holds the text of the Append, and what it held before.
LEMMA RecordText ==
  ASSUME EInv, NEW m, m = Head(queue), NEW g, g = wr.gen, AppendRecord
  PROVE  /\ queue # <<>> /\ m.t = "append" /\ m = queue[1] /\ ~failed /\ wr.pc = "idle"
         /\ g # 0 /\ files'.snap = files.snap /\ files'.synced = files.synced
         /\ files.synced[g] \in 0..Len(files.log[g])
         /\ TextAt(g, files.synced[g])' = TextAt(g, files.synced[g])
         /\ Logged(g)' = m.text
<1> DEFINE r == [rev |-> m.rev, id |-> m.id]
<1>1. TypeOK /\ RecoveryInv /\ WriterTypes
  BY TypeParts DEF EInv
<1>2. /\ wr.pc = "idle" /\ queue # <<>> /\ m.t = "append" /\ ~failed /\ m.gen = g
      /\ files' = [files EXCEPT !.log[g] = Append(@, r)]
  BY DEF AppendRecord, Msg
<1>3. m.gen \in Nat /\ m.rev \in Nat /\ m.id \in Nat /\ m = queue[1]
  BY <1>1, <1>2, HeadAppend, InHand
<1>4. g # 0 /\ m.text = Append(TextAt(g, Len(files.log[g])), m.id)
  BY <1>1, <1>2, HeadAppend DEF AtWriter
<1>5. Sound(g)
  BY <1>1, <1>4, SoundGen DEF Gens
<1>6. /\ g \in DOMAIN files.snap /\ g \in DOMAIN files.log /\ files.snap[g].text \in Text
      /\ files.log[g] \in Seq(Record) /\ files.synced[g] \in Nat
  BY <1>1, <1>5 DEF Sound, WriterTypes, FilesType
<1>7. /\ files'.snap = files.snap /\ files'.synced = files.synced
      /\ files'.log = [files.log EXCEPT ![g] = Append(@, r)]
  BY <1>1, <1>2 DEF WriterTypes, FilesType
<1>r. r \in Record /\ r.id = m.id
  BY <1>3 DEF Record
<1> HIDE DEF r
<1>8. PICK s \in Text, l \in Seq(Record) : s = files.snap[g].text /\ l = files.log[g]
  BY <1>6
<1>9. files'.log[g] = Append(l, r) /\ files'.snap[g].text = s BY <1>6, <1>7, <1>8
<1>n. PICK n \in Nat : n = Len(l) BY LenProperties
<1>10. /\ Len(Append(l, r)) = n + 1
       /\ \A k \in 0..n : s \o [i \in 1..k |-> Append(l, r)[i].id] = s \o [i \in 1..k |-> l[i].id]
       /\ s \o [i \in 1..(n + 1) |-> Append(l, r)[i].id]
            = Append(s \o [i \in 1..n |-> l[i].id], r.id)
  BY <1>n, <1>r, LogAppend
<1>11. PICK c \in 0..n : c = files.synced[g]
  BY <1>5, <1>6, <1>8, <1>n DEF Sound
<1>12. TextAt(g, c)' = TextAt(g, c)
  <2>1. TextAt(g, c) = s \o [i \in 1..c |-> l[i].id] BY <1>8 DEF TextAt
  <2>2. TextAt(g, c)' = s \o [i \in 1..c |-> Append(l, r)[i].id] BY <1>9 DEF TextAt
  <2> QED BY <1>10, <2>1, <2>2
<1>13. Logged(g)' = m.text
  <2>1. Logged(g)' = s \o [i \in 1..(n + 1) |-> Append(l, r)[i].id]
    BY <1>9, <1>10 DEF Logged
  <2>2. m.text = Append(s \o [i \in 1..n |-> l[i].id], r.id)
    BY <1>4, <1>8, <1>n, <1>r DEF TextAt
  <2> QED BY <1>10, <2>1, <2>2
<1>14. TextAt(g, files.synced[g])' = TextAt(g, files.synced[g])
  BY <1>7, <1>11, <1>12 DEF TextAt
<1> QED BY <1>2, <1>3, <1>4, <1>7, <1>8, <1>n, <1>11, <1>13, <1>14

LEMMA AppendRecordDurable ==
  ASSUME EInv, DurableInv, AppendRecord
  PROVE  DurableInv'
<1>m. PICK m, g : m = Head(queue) /\ g = wr.gen
  OBVIOUS
<1>1. TypeOK /\ RecoveryInv /\ WriterTypes
  BY TypeParts DEF EInv
<1>2. /\ queue # <<>> /\ m.t = "append" /\ m = queue[1] /\ ~failed /\ wr.pc = "idle"
      /\ g # 0 /\ files'.snap = files.snap
      /\ TextAt(g, files.synced[g])' = TextAt(g, files.synced[g])
      /\ Logged(g)' = m.text
  BY <1>m, RecordText
<1>3. queue' = Tail(queue) /\ UNCHANGED <<act, rec, failed, vol, dur, doc, kept>>
  BY DEF AppendRecord
<1>4. wr'.pc = "idle" /\ wr'.gen = g
  BY <1>1, <1>2, <1>m DEF AppendRecord, WriterTypes, WrType
<1>5. vol.meta.gen = g /\ dur.meta.gen = g
  BY <1>2, <1>m DEF DurableInv, Settled
<1>6. Metas = {g} /\ Metas' = {g}
  BY <1>2, <1>3, <1>5 DEF Metas
<1>7. LogsBacked'
  BY <1>3, <1>4, <1>6 DEF DurableInv, LogsBacked
<1>8. Settled'
  BY <1>3, <1>4, <1>5 DEF Settled
<1>9. Growing' /\ Cleared' /\ Based'
  <2>1. Written' = {m.text}
    <3>1. Logged(wr.gen)' = m.text BY <1>2, <1>4 DEF Logged
    <3> QED BY <1>2, <1>4, <3>1 DEF Written
  <2>2. Leaves(queue, Written, Written') BY <1>2, <2>1 DEF Leaves, Carries
  <2>3. \A x \in {vol'.meta, dur'.meta} :
          x.gen # 0 => Covers(files'.snap[x.gen].text, x.base, Docs, doc.saves)
    BY <1>2, <1>3, MetasCovered
  <2> QED BY <1>2, <1>3, <2>2, <2>3, WriterLine
<1>10. Holds'
  <2>1. Wanted => Wanted' BY <1>2, <1>3, WantedTail
  <2>2. wr'.gen # 0 /\ dur'.meta.gen # 0 BY <1>2, <1>3, <1>4, <1>5
  <2> QED BY <1>2, <1>3, <1>6, <2>1, <2>2, HoldsFrame
<1> QED BY <1>7, <1>8, <1>9, <1>10 DEF DurableInv

\* With a Discard at hand what is kept is in the documents.
LEMMA DiscardHolds ==
  ASSUME EInv, DurableInv, queue # <<>>, Head(queue).t = "discard", UNCHANGED <<doc, kept>>
  PROVE  Holds'
<1>1. TypeOK /\ RecoveryInv BY DEF EInv
<1>2. queue[1].t = "discard" /\ 1 \in 1..Len(queue) BY <1>1, InHand
<1>3. ~Wanted BY <1>2 DEF Wanted
<1>4. InDocs BY <1>3 DEF DurableInv, Holds, InFiles
<1> QED BY <1>4 DEF Holds, InDocs, Docs

LEMMA DiscardMetaDurable ==
  ASSUME EInv, DurableInv, DiscardMeta
  PROVE  DurableInv'
<1>1. WriterTypes BY TypeParts DEF EInv
<1>2. /\ queue # <<>> /\ Head(queue).t = "discard"
      /\ vol' = [vol EXCEPT !.meta = NoMeta] /\ dur' = vol'
      /\ wr'.pc = "discard" /\ wr'.gen = 0
      /\ UNCHANGED <<act, rec, queue, files, doc, kept>>
  BY <1>1 DEF DiscardMeta, Msg, WriterTypes, WrType
<1>3. vol'.meta.gen = 0 /\ dur'.meta.gen = 0
  BY <1>1, <1>2 DEF WriterTypes, Directory, NoMeta
<1>4. LogsBacked' /\ Settled' BY <1>2, <1>3 DEF LogsBacked, Settled, Metas
<1>5. Growing' /\ Cleared' /\ Based'
  <2>1. Written' = {} BY <1>2 DEF Written
  <2>2. Begins(queue, Written, Written') BY <2>1 DEF Begins
  <2> QED BY <1>2, <1>3, <2>2, WriterLine
<1>6. Holds' BY <1>2, DiscardHolds
<1> QED BY <1>4, <1>5, <1>6 DEF DurableInv

LEMMA DiscardRestDurable ==
  ASSUME EInv, DurableInv, DiscardRest
  PROVE  DurableInv'
<1>1. WriterTypes /\ RecoveryInv BY TypeParts DEF EInv
<1>2. /\ wr.pc = "discard" /\ vol' = NoDir /\ dur' = NoDir
      /\ wr'.pc = "idle" /\ wr'.gen = wr.gen /\ queue' = Tail(queue)
      /\ UNCHANGED <<act, rec, files, doc, kept>>
  BY <1>1 DEF DiscardRest, WriterTypes, WrType
<1>3. queue # <<>> /\ Head(queue).t = "discard" /\ wr.gen = 0
  BY <1>1, <1>2 DEF RecoveryInv, Staged, Msg, DurableInv, Settled
<1>4. vol'.meta.gen = 0 /\ dur'.meta.gen = 0
  BY <1>2 DEF NoDir, NoMeta
<1>5. LogsBacked' /\ Settled' BY <1>2, <1>3, <1>4 DEF LogsBacked, Settled, Metas
<1>6. Growing' /\ Cleared' /\ Based'
  <2>1. Written' = {} BY <1>2, <1>3 DEF Written
  <2>2. Leaves(queue, Written, Written') BY <2>1 DEF Leaves
  <2> QED BY <1>2, <1>3, <1>4, <2>2, WriterLine
<1>7. Holds' BY <1>2, <1>3, DiscardHolds
<1> QED BY <1>5, <1>6, <1>7 DEF DurableInv

LEMMA DiscardFailDurable ==
  ASSUME EInv, DurableInv, NEW unlinked \in BOOLEAN, DiscardFail(unlinked)
  PROVE  DurableInv'
<1>1. WriterTypes /\ RecoveryInv BY TypeParts DEF EInv
<1>2. /\ wr.pc = "discard" \/ (wr.pc = "idle" /\ Msg("discard"))
      /\ vol' = (IF unlinked THEN [vol EXCEPT !.meta = NoMeta] ELSE vol)
      /\ wr'.pc = "idle" /\ wr'.gen = 0 /\ queue' = Tail(queue)
      /\ UNCHANGED <<act, rec, dur, files, doc, kept>>
  BY <1>1 DEF DiscardFail, WriterTypes, WrType
<1>3. queue # <<>> /\ Head(queue).t = "discard"
  BY <1>1, <1>2 DEF RecoveryInv, Staged, Msg
<1>4. vol'.logs = vol.logs /\ (vol'.meta = vol.meta \/ vol'.meta.gen = 0)
  BY <1>1, <1>2 DEF WriterTypes, Directory, NoMeta
<1>5. Metas' \subseteq Metas BY <1>2, <1>4 DEF Metas
<1>6. LogsBacked' /\ Settled' BY <1>2, <1>4, <1>5 DEF DurableInv, LogsBacked, Settled
<1>7. Growing' /\ Cleared' /\ Based'
  <2>1. Written' = {} BY <1>2 DEF Written
  <2>2. Leaves(queue, Written, Written') BY <2>1 DEF Leaves
  <2>3. \A x \in {vol'.meta, dur'.meta} :
          x.gen # 0 => Covers(files'.snap[x.gen].text, x.base, Docs, doc.saves)
    BY <1>2, <1>4 DEF DurableInv, Based
  <2> QED BY <1>2, <1>3, <2>2, <2>3, WriterLine
<1>8. Holds' BY <1>2, <1>3, DiscardHolds
<1> QED BY <1>6, <1>7, <1>8 DEF DurableInv

\* A sync makes durable what the log holds, or changes nothing.
LEMMA SyncDurable ==
  ASSUME EInv, DurableInv, NEW ok \in BOOLEAN, Sync(ok), wr.pc = "idle",
         UNCHANGED <<act, rec, vol, dur, doc, seen>>, wr'.pc = "idle", wr'.gen = wr.gen,
         queue' = queue \/ (queue # <<>> /\ Head(queue).t = "flush" /\ queue' = Tail(queue))
  PROVE  DurableInv'
<1>1. TypeOK /\ RecoveryInv /\ WriterTypes
  BY TypeParts DEF EInv
<1>2. files'.snap = files.snap /\ files'.log = files.log /\ (failed => failed')
  BY <1>1, SyncFacts
<1>3. Metas' = Metas BY DEF Metas
<1>4. LogsBacked' BY <1>3 DEF DurableInv, LogsBacked
<1>5. Settled' BY <1>2 DEF DurableInv, Settled
<1>6. Growing' /\ Cleared' /\ Based'
  <2>1. Written' = Written BY <1>2 DEF Written, Logged
  <2>2. Begins(queue, Written, Written') BY <2>1 DEF Begins
  <2>3. queue # <<>> /\ Head(queue).t = "flush" => Leaves(queue, Written, Written')
    BY <1>1, <2>1, InHand DEF Leaves
  <2>4. \A x \in {vol'.meta, dur'.meta} :
          x.gen # 0 => Covers(files'.snap[x.gen].text, x.base, Docs, doc.saves)
    BY <1>2, MetasCovered
  <2> QED BY <2>2, <2>3, <2>4, WriterLine
<1>7. Wanted => Wanted'
  <2>1. queue' = queue => (Wanted => Wanted') BY DEF Wanted
  <2> QED BY <2>1, WantedTail
<1>8. Holds'
  <2>1. CASE ok /\ Unsynced
    <3>1. PICK g \in Nat : g = wr.gen BY <1>1 DEF WriterTypes, WrType
    <3>2. /\ files' = [files EXCEPT !.synced[g] = Len(files.log[g])]
          /\ kept' = IF Wanted THEN Longer(kept, Logged(g)) ELSE kept
      BY <2>1, <3>1 DEF Sync
    <3>3. g # 0 /\ files.synced[g] < Len(files.log[g]) BY <2>1, <3>1 DEF Unsynced
    <3>4. Sound(g) BY <1>1, <3>1, <3>3, SoundGen DEF Gens
    <3>5. /\ g \in DOMAIN files.log /\ files.log[g] \in Seq(Record)
          /\ files.synced \in [DOMAIN files.log -> Nat]
      BY <1>1, <3>4 DEF Sound, WriterTypes, FilesType
    <3>6. Len(files.log[g]) \in Nat /\ files.log[g] # <<>>
      <4>1. Len(files.log[g]) \in Nat /\ files.synced[g] \in Nat BY <3>5, LenProperties
      <4>2. Len(files.log[g]) # 0 BY <3>3, <4>1
      <4> QED BY <4>1, <4>2
    <3>7. files'.synced[g] = Len(files.log[g])
      BY <1>1, <3>2, <3>5 DEF WriterTypes, FilesType
    <3>8. Metas' = {g} /\ dur'.meta.gen = g
      BY <3>1, <3>3, <3>6 DEF DurableInv, Settled, Metas
    <3>9. Logged(g) \in Text
      BY <1>1, <3>1, <3>3, WrittenText DEF Written
    <3>10. \A h \in Metas' : TextAt(h, files.synced[h])' = Logged(g)
      BY <1>2, <3>7, <3>8 DEF TextAt, Logged
    <3>11. InFiles => IsPrefix(kept, Logged(g)) BY <3>1, FilesToBuffer
    <3>12. wr'.gen # 0 /\ dur'.meta.gen # 0 BY <3>1, <3>3, <3>8
    <3> QED BY <1>7, <3>2, <3>9, <3>10, <3>11, <3>12, HoldsLonger
  <2>2. CASE ~(ok /\ Unsynced)
    <3>1. UNCHANGED <<files, kept>> BY <2>2 DEF Sync
    <3>2. \A g : TextAt(g, files.synced[g])' = TextAt(g, files.synced[g]) BY <3>1 DEF TextAt
    <3>3. InFiles => wr'.gen # 0 /\ dur'.meta.gen # 0 BY DEF InFiles
    <3> QED BY <1>3, <1>7, <3>1, <3>2, <3>3, HoldsFrame
  <2> QED BY <2>1, <2>2
<1> QED BY <1>4, <1>5, <1>6, <1>8 DEF DurableInv

LEMMA SyncDueDurable ==
  ASSUME EInv, DurableInv, NEW ok \in BOOLEAN, SyncDue(ok)
  PROVE  DurableInv'
<1>1. WriterTypes BY TypeParts DEF EInv
<1>2. /\ wr.pc = "idle" /\ Sync(ok) /\ wr'.pc = "idle" /\ wr'.gen = wr.gen
      /\ UNCHANGED <<act, rec, queue, vol, dur, doc, seen>>
  BY <1>1 DEF SyncDue, WriterTypes, WrType
<1> QED BY <1>2, SyncDurable

LEMMA FlushTokenDurable ==
  ASSUME EInv, DurableInv, NEW ok \in BOOLEAN, FlushToken(ok)
  PROVE  DurableInv'
<1>1. WriterTypes BY TypeParts DEF EInv
<1>2. /\ wr.pc = "idle" /\ Sync(ok) /\ wr'.pc = "idle" /\ wr'.gen = wr.gen
      /\ queue # <<>> /\ Head(queue).t = "flush" /\ queue' = Tail(queue)
      /\ UNCHANGED <<act, rec, vol, dur, doc, seen>>
  BY <1>1 DEF FlushToken, Msg, WriterTypes, WrType
<1> QED BY <1>2, SyncDurable

-----------------------------------------------------------------------------
(* A crash, and restore *)

\* No crash takes a synced record, and one without a power failure takes none.
LEMMA LoadLength ==
  ASSUME EInv, DurableInv, NEW power \in BOOLEAN, NEW m \in {vol.meta, dur.meta},
         NEW l \in Loads(m, power), m.gen # 0
  PROVE  /\ l.kind = "text" /\ Sound(m.gen) /\ m.gen \in vol.logs /\ l.text = TextAt(m.gen, l.len)
         /\ files.synced[m.gen] \in Nat /\ Len(files.log[m.gen]) \in Nat
         /\ l.len \in files.synced[m.gen]..Len(files.log[m.gen])
         /\ ~power => l.len = Len(files.log[m.gen])
<1>1. TypeOK /\ RecoveryInv /\ WriterTypes
  BY TypeParts DEF EInv
<1>2. l.kind = "text" /\ Sound(m.gen) /\ l.text = TextAt(m.gen, l.len)
  BY <1>1, LoadFacts
<1>3. m.gen \in Metas BY DEF Metas
<1>4. m.gen \in vol.logs /\ m.gen \in dur.logs /\ m.gen \in vol.snaps /\ m.gen \in dur.snaps
  BY <1>1, <1>3 DEF DurableInv, LogsBacked, RecoveryInv, Backed
<1>5. PICK n \in Lengths(m.gen, power) :
        l = [kind |-> "text", meta |-> m, text |-> Replay(m.gen, n), len |-> n]
  <2>1. ~Gone(m.gen, vol.snaps, dur.snaps, power) BY <1>4 DEF Gone
  <2> QED BY <2>1 DEF Loads
<1>6. files.synced[m.gen] \in Nat /\ Len(files.log[m.gen]) \in Nat
      /\ files.synced[m.gen] <= Len(files.log[m.gen])
  BY <1>1, <1>2, LenProperties DEF Sound, WriterTypes, FilesType
<1>7. ~Gone(m.gen, vol.logs, dur.logs, power) /\ Here(m.gen, vol.logs, dur.logs, power)
  BY <1>4 DEF Gone, Here
<1>8. n \in IF power THEN files.synced[m.gen]..Len(files.log[m.gen]) ELSE {Len(files.log[m.gen])}
  BY <1>7 DEF Lengths
<1>9. l.len = n BY <1>5
<1> QED BY <1>2, <1>4, <1>6, <1>8, <1>9

\* What is kept in the files, every crash brings back.
LEMMA LoadHolds ==
  ASSUME EInv, DurableInv, NEW power \in BOOLEAN, NEW m \in {vol.meta, dur.meta},
         NEW l \in Loads(m, power), InFiles
  PROVE  m.gen # 0 /\ l.text \in Text /\ IsPrefix(kept, l.text)
<1>1. TypeOK /\ RecoveryInv /\ OtherTypes
  BY TypeParts DEF EInv
<1>2. m.gen # 0 /\ m.gen \in Metas BY DEF InFiles, DurableInv, Settled, Metas
<1>3. PICK g : g = m.gen OBVIOUS
<1>4. /\ Sound(g) /\ l.text = TextAt(g, l.len) /\ files.synced[g] \in Nat
      /\ Len(files.log[g]) \in Nat /\ l.len \in files.synced[g]..Len(files.log[g])
  BY <1>2, <1>3, LoadLength
<1>5. l.len \in 0..Len(files.log[g]) /\ files.synced[g] \in 0..l.len BY <1>4
<1>6. /\ TextAt(g, files.synced[g]) \in Text /\ TextAt(g, l.len) \in Text
      /\ IsPrefix(TextAt(g, files.synced[g]), TextAt(g, l.len))
  BY <1>1, <1>4, <1>5, TextAtGrows
<1>7. IsPrefix(kept, TextAt(g, files.synced[g])) /\ kept \in Text
  BY <1>1, <1>2, <1>3 DEF InFiles, OtherTypes
<1> QED BY <1>2, <1>4, <1>6, <1>7, PrefixTrans

\* The log restore leaves is the one it read.
LEMMA CutText ==
  ASSUME TypeOK, NEW g, Sound(g), Len(files.log[g]) \in Nat,
         NEW n \in 0..Len(files.log[g]), files'.snap = files.snap,
         files'.log[g] = SubSeq(files.log[g], 1, n)
  PROVE  Logged(g)' = TextAt(g, n) /\ TextAt(g, n)' = TextAt(g, n)
<1>1. files.log[g] \in Seq(Record)
  BY TypeParts DEF Sound, WriterTypes, FilesType
<1>2. PICK l \in Seq(Record) : l = files.log[g]
  BY <1>1
<1>3. Len(SubSeq(l, 1, n)) = n /\ \A i \in 1..n : SubSeq(l, 1, n)[i] = l[i]
  <2>1. n \in Nat /\ n <= Len(l) /\ Len(l) \in Nat BY <1>2
  <2>2. \A i \in 1..n : l[i] \in Record BY <2>1, ElementOfSeq
  <2> QED BY <2>1, <2>2, SubSeqProperties
<1>4. PICK k : k = SubSeq(l, 1, n) OBVIOUS
<1>5. [i \in 1..n |-> k[i].id] = [i \in 1..n |-> l[i].id] /\ Len(k) = n
  BY <1>3, <1>4
<1>6. PICK s : s = files.snap[g].text OBVIOUS
<1>7. files'.snap[g].text = s /\ files'.log[g] = k BY <1>2, <1>4, <1>6
<1>8. TextAt(g, n)' = s \o [i \in 1..n |-> k[i].id] BY <1>7 DEF TextAt
<1>9. TextAt(g, n) = s \o [i \in 1..n |-> l[i].id] BY <1>2, <1>6 DEF TextAt
<1>10. Logged(g)' = s \o [i \in 1..n |-> k[i].id] BY <1>5, <1>7 DEF Logged
<1> QED BY <1>5, <1>8, <1>9, <1>10

\* A restored buffer's FIFO: what may reach a place in it is the restored text.
LEMMA RestoreGrowing ==
  ASSUME NEW q, NEW W, NEW text \in Text, NEW base, NEW g, \A w \in W : w = text,
         \/ q = <<>>
         \/ q = <<[t |-> "discard"]>>
         \/ q = <<[t |-> "switch", gen |-> g, rev |-> 0, text |-> text, base |-> base]>>
  PROVE  /\ Rises(q, W) /\ Under(q, Len(q) + 1, W, text)
         /\ q = <<[t |-> "discard"]>> => Bare(q, W)
<1>1. IsPrefix(text, text) BY PrefixRefl
<1>2. CASE q = <<>>
  <2>1. Len(q) = 0 BY <1>2
  <2>2. \A w \in Reaching(q, 1, W) : w = text
    <3>1. 1..(1 - 1) = {} OBVIOUS
    <3> QED BY <3>1, ReachIn
  <2>3. Len(q) + 1 = 1 /\ q # <<[t |-> "discard"]>>
    <3>1. Len(<<[t |-> "discard"]>>) = 1 OBVIOUS
    <3> QED BY <2>1, <3>1
  <2> QED BY <1>1, <2>1, <2>2, <2>3 DEF Rises, Under
<1>3. CASE q = <<[t |-> "discard"]>>
  <2>1. Len(q) = 1 /\ q[1].t = "discard" BY <1>3
  <2>2. ~Unbroken(q, 1, 2) BY <2>1 DEF Unbroken
  <2>3. Reaching(q, 2, W) = {}
    <3>1. \A j \in 1..(2 - 1) : ~Carries(q[j]) BY <2>1 DEF Carries
    <3> QED BY <2>2, <3>1, ReachIn
  <2>4. Len(q) + 1 = 2 BY <2>1
  <2>5. Rises(q, W) BY <2>1 DEF Rises, Carries
  <2> QED BY <2>3, <2>4, <2>5 DEF Under, Bare
<1>4. CASE q = <<[t |-> "switch", gen |-> g, rev |-> 0, text |-> text, base |-> base]>>
  <2>1. Len(q) = 1 /\ q[1].t = "switch" /\ q[1].text = text BY <1>4
  <2>2. \A w \in Reaching(q, 1, W) : w = text
    <3>1. 1..(1 - 1) = {} OBVIOUS
    <3> QED BY <3>1, ReachIn
  <2>3. \A w \in Reaching(q, 2, W) : w = text
    <3>1. \A j \in 1..(2 - 1) : q[j].text = text BY <2>1
    <3> QED BY <3>1, ReachIn
  <2>4. Len(q) + 1 = 2 /\ q # <<[t |-> "discard"]>>
    <3>1. <<[t |-> "discard"]>>[1].t = "discard" OBVIOUS
    <3> QED BY <2>1, <3>1
  <2>5. Rises(q, W) BY <1>1, <2>1, <2>2 DEF Rises, Under
  <2> QED BY <1>1, <2>3, <2>4, <2>5 DEF Under
<1> QED BY <1>2, <1>3, <1>4

LEMMA ImageDoc ==
  ASSUME NEW power \in BOOLEAN, NEW i \in Images(power)
  PROVE  i.doc \in Docs
  BY DEF Images, Docs

LEMMA CrashDurable ==
  ASSUME EInv, DurableInv, NEW power \in BOOLEAN, Crash(power)
  PROVE  DurableInv'
<1>1. TypeOK /\ RecoveryInv /\ WriterTypes /\ OtherTypes
  BY TypeParts DEF EInv
<1>i. PICK i \in Images(power) :
        LET l == i.load
            g == l.meta.gen
            clean == l.text = i.doc.text
            base  == IF clean THEN i.doc.ver ELSE l.meta.base
            image == [meta |-> l.meta, snaps |-> {g} \ {0}, logs |-> {g} \ {0}]
        IN  /\ vol' = (IF power THEN image ELSE Swept(vol, g))
            /\ dur' = (IF power THEN image ELSE vol)
            /\ files' = IF power /\ l.kind = "text"
                          THEN [files EXCEPT !.log[g] = SubSeq(@, 1, l.len), !.synced[g] = l.len]
                          ELSE files
            /\ doc' = [doc EXCEPT !.now = i.doc, !.dur = i.doc]
            /\ act' = [pc |-> IF l.kind = "text" THEN "restoring" ELSE "gone",
                       text |-> l.text, rev |-> 0, saved |-> IF clean THEN 0 ELSE -1,
                       restored |-> ~clean, base |-> base, durable |-> TRUE]
            /\ queue' = IF l.kind # "text" THEN <<>>
                        ELSE IF clean THEN <<[t |-> "discard"]>>
                        ELSE <<RestoreSwitch(l, base)>>
            /\ wr' = [Idle(g) EXCEPT !.stale = wr.stale]
            /\ UNCHANGED kept
  BY DEF Crash
<1>l. PICK l : l = i.load
  OBVIOUS
<1>d. PICK d \in Docs : d = i.doc
  BY ImageDoc
<1>2. PICK m \in {vol.meta, dur.meta} : (power \/ m = vol.meta) /\ l \in Loads(m, power)
  BY <1>1, <1>l, ImageFacts
<1>3. /\ l.meta = m /\ m \in [gen : Nat, base : Nat] /\ l.kind \in {"none", "text"}
      /\ l.text \in Text /\ (l.kind = "none" => m.gen = 0) /\ (l.kind = "text" => m.gen # 0)
  BY <1>1, <1>2, LoadFacts
<1>g. PICK g \in Nat : g = m.gen
  BY <1>3
<1>c. PICK clean \in BOOLEAN : clean = (l.text = d.text)
  OBVIOUS
<1>b. PICK base : base = IF clean THEN d.ver ELSE m.base
  OBVIOUS
<1>4. /\ vol' = (IF power THEN [meta |-> m, snaps |-> {g} \ {0}, logs |-> {g} \ {0}] ELSE Swept(vol, g))
      /\ dur' = (IF power THEN [meta |-> m, snaps |-> {g} \ {0}, logs |-> {g} \ {0}] ELSE vol)
      /\ files' = IF power /\ l.kind = "text"
                    THEN [files EXCEPT !.log[g] = SubSeq(@, 1, l.len), !.synced[g] = l.len]
                    ELSE files
      /\ doc' = [doc EXCEPT !.now = d, !.dur = d]
      /\ act' = [pc |-> IF l.kind = "text" THEN "restoring" ELSE "gone",
                 text |-> l.text, rev |-> 0, saved |-> IF clean THEN 0 ELSE -1,
                 restored |-> ~clean, base |-> base, durable |-> TRUE]
      /\ queue' = IF l.kind # "text" THEN <<>>
                  ELSE IF clean THEN <<[t |-> "discard"]>>
                  ELSE <<RestoreSwitch(l, base)>>
      /\ wr' = [Idle(g) EXCEPT !.stale = wr.stale]
      /\ kept' = kept
  BY <1>i, <1>l, <1>d, <1>3, <1>g, <1>c, <1>b
<1>5. wr'.pc = "idle" /\ wr'.gen = g
  BY <1>4 DEF Idle
<1>6. /\ act'.text = l.text /\ act'.restored = ~clean /\ act'.base = base
      /\ act'.pc = IF l.kind = "text" THEN "restoring" ELSE "gone"
  BY <1>4
<1>7. doc'.now = d /\ doc'.dur = d /\ doc'.saves = doc.saves /\ Docs' = {d}
  BY <1>1, <1>4 DEF OtherTypes, DocType, Docs
<1>8. d \in Document /\ d.text \in Text /\ d.ver \in Nat /\ d.ver <= doc.saves /\ kept \in Text
  BY <1>1 DEF DurableInv, Based, Docs, OtherTypes, DocType, Document
<1>t. ASSUME g # 0
      PROVE  /\ l.kind = "text" /\ Sound(g) /\ g \in vol.logs /\ l.text = TextAt(g, l.len)
             /\ files.synced[g] \in Nat /\ Len(files.log[g]) \in Nat
             /\ l.len \in files.synced[g]..Len(files.log[g])
             /\ ~power => l.len = Len(files.log[g])
  BY <1>2, <1>g, <1>t, LoadLength
<1>9. vol'.meta = m /\ dur'.meta = m /\ (g # 0 => g \in vol'.logs /\ g \in dur'.logs)
  <2>1. CASE power BY <1>4, <2>1
  <2>2. CASE ~power
    <3>1. vol' = [vol EXCEPT !.snaps = @ \cap {g}, !.logs = @ \cap {g}] /\ dur' = vol /\ m = vol.meta
      BY <1>2, <1>4, <2>2 DEF Swept
    <3> QED BY <1>1, <1>t, <3>1 DEF WriterTypes, Directory
  <2> QED BY <2>1, <2>2
<1>10. Metas' = {g} \ {0} BY <1>9, <1>g DEF Metas
<1>11. LogsBacked' BY <1>5, <1>9, <1>10 DEF LogsBacked
<1>12. Settled' BY <1>5, <1>9, <1>g DEF Settled
<1>13. ASSUME g # 0
       PROVE  /\ Logged(g)' = l.text /\ files'.snap = files.snap
              /\ \/ TextAt(g, files.synced[g])' = l.text
                 \/ TextAt(g, files.synced[g])' = TextAt(g, files.synced[g])
  <2>1. CASE power
    <3>1. PICK n \in 0..Len(files.log[g]) : n = l.len BY <1>13, <1>t
    <3>2. files' = [files EXCEPT !.log[g] = SubSeq(@, 1, n), !.synced[g] = n]
      BY <1>4, <1>13, <1>t, <2>1, <3>1
    <3>3. /\ files'.snap = files.snap /\ files'.synced[g] = n
          /\ files'.log[g] = SubSeq(files.log[g], 1, n)
      <4>1. g \in DOMAIN files.log /\ DOMAIN files.synced = DOMAIN files.log
        BY <1>1, <1>13, <1>t DEF Sound, WriterTypes, FilesType
      <4> QED BY <1>1, <3>2, <4>1 DEF WriterTypes, FilesType
    <3>4. Logged(g)' = TextAt(g, n) /\ TextAt(g, n)' = TextAt(g, n)
      BY <1>1, <1>13, <1>t, <3>3, CutText
    <3>5. TextAt(g, files.synced[g])' = TextAt(g, n)' BY <3>3 DEF TextAt
    <3> QED BY <1>13, <1>t, <3>1, <3>3, <3>4, <3>5
  <2>2. CASE ~power
    <3>1. files' = files BY <1>4, <2>2
    <3> QED BY <1>13, <1>t, <2>2, <3>1 DEF Logged, TextAt
  <2> QED BY <2>1, <2>2
<1>14. \A w \in Written' : w = l.text
  <2>1. g # 0 => Logged(wr.gen)' = l.text BY <1>5, <1>13 DEF Logged
  <2> QED BY <1>5, <2>1 DEF Written
<1>15. \/ queue' = <<>> /\ l.kind # "text"
       \/ queue' = <<[t |-> "discard"]>> /\ l.kind = "text" /\ clean
       \/ /\ queue' = <<[t |-> "switch", gen |-> g + 1, rev |-> 0, text |-> l.text, base |-> base]>>
          /\ l.kind = "text" /\ ~clean
  BY <1>3, <1>4, <1>g DEF RestoreSwitch
<1>16. Growing' /\ Cleared'
  <2>1. PICK q, W : q = queue' /\ W = Written' OBVIOUS
  <2>2. /\ Rises(q, W) /\ Under(q, Len(q) + 1, W, l.text)
        /\ q = <<[t |-> "discard"]>> => Bare(q, W)
    BY <1>3, <1>14, <1>15, <2>1, RestoreGrowing
  <2>3. Rises(queue', Written') /\ Under(queue', Len(queue') + 1, Written', act'.text)
    BY <1>6, <2>1, <2>2
  <2>4. Inactive' => clean /\ l.kind = "text" BY <1>6 DEF Inactive
  <2>5. Inactive' => Bare(queue', Written') BY <1>15, <2>1, <2>2, <2>4
  <2> QED BY <2>3, <2>5 DEF Growing, Cleared
<1>17. g # 0 => Covers(files.snap[g].text, m.base, Docs', doc.saves)
  <2>1. g # 0 => Covers(files.snap[g].text, m.base, Docs, doc.saves)
    BY <1>2, <1>g DEF DurableInv, Based
  <2> QED BY <1>7, <2>1 DEF Covers
<1>18. l.kind = "text" => Covers(l.text, base, Docs', doc.saves)
  <2>1. CASE clean
    <3>1. IsPrefix(d.text, l.text) BY <1>8, <1>c, <2>1, PrefixRefl
    <3> QED BY <1>7, <1>8, <1>b, <2>1, <3>1 DEF Covers
  <2>2. CASE ~clean /\ l.kind = "text"
    <3>1. g # 0 BY <1>3, <1>g, <2>2
    <3>2. l.len \in 0..Len(files.log[g]) /\ 0 \in 0..l.len BY <3>1, <1>t
    <3>3. files.snap[g].text \in Text /\ IsPrefix(files.snap[g].text, l.text)
      BY <1>1, <1>t, <3>1, <3>2, TextAtGrows
    <3>4. ASSUME m.base = d.ver PROVE IsPrefix(d.text, l.text)
      <4>1. IsPrefix(d.text, files.snap[g].text) BY <1>7, <1>17, <3>1, <3>4 DEF Covers
      <4> QED BY <1>3, <1>8, <3>3, <4>1, PrefixTrans
    <3>5. m.base <= doc.saves BY <1>17, <3>1 DEF Covers
    <3> QED BY <1>7, <1>b, <2>2, <3>4, <3>5 DEF Covers
  <2> QED BY <2>1, <2>2
<1>19. Based'
  <2>1. Covered(queue', Docs', doc.saves)
    <3>1. PICK q : q = queue' OBVIOUS
    <3>2. CASE q = <<>> BY <3>2, <3>1 DEF Covered
    <3>3. CASE q = <<[t |-> "discard"]>>
      <4>1. Len(q) = 1 /\ q[1].t = "discard" BY <3>3
      <4> QED BY <3>1, <4>1 DEF Covered
    <3>4. CASE /\ q = <<[t |-> "switch", gen |-> g + 1, rev |-> 0, text |-> l.text, base |-> base]>>
               /\ l.kind = "text"
      <4>1. Len(q) = 1 /\ q[1].text = l.text /\ q[1].base = base BY <3>4
      <4> QED BY <1>18, <3>1, <3>4, <4>1 DEF Covered
    <3> QED BY <1>15, <3>1, <3>2, <3>3, <3>4
  <2>2. ASSUME NEW x \in {vol'.meta, dur'.meta}, x.gen # 0
        PROVE  Covers(files'.snap[x.gen].text, x.base, Docs', doc'.saves)
    <3>1. x = m /\ x.gen = g BY <1>9, <1>g
    <3> QED BY <1>7, <1>13, <1>17, <2>2, <3>1
  <2>3. act'.pc # "gone" => Covers(act'.text, act'.base, Docs', doc'.saves)
    BY <1>6, <1>7, <1>18
  <2>4. act'.pc # "saving" BY <1>6
  <2> QED BY <1>7, <1>8, <2>1, <2>2, <2>3, <2>4 DEF Based
<1>20. Holds'
  <2>1. CASE InDocs
    BY <1>4, <1>7, <2>1 DEF Holds, InDocs
  <2>2. CASE InFiles
    <3>1. m.gen # 0 /\ IsPrefix(kept, l.text) BY <1>2, <2>2, LoadHolds
    <3>2. CASE clean
      BY <1>4, <1>7, <1>c, <3>1, <3>2 DEF Holds, InDocs
    <3>3. CASE ~clean
      <4>1. g # 0 /\ l.kind = "text" /\ g \in Metas BY <1>2, <1>3, <1>g, <3>1 DEF Metas
      <4>2. IsPrefix(kept, TextAt(g, files.synced[g])) BY <2>2, <4>1 DEF InFiles
      <4>3. IsPrefix(kept, TextAt(g, files.synced[g])') BY <1>13, <3>1, <4>1, <4>2
      <4>4. Wanted'
        <5>1. PICK q : q = queue' OBVIOUS
        <5>2. Len(q) = 1 /\ q[1].t = "switch" BY <1>15, <3>3, <4>1, <5>1
        <5> QED BY <5>1, <5>2 DEF Wanted
      <4>5. wr'.gen # 0 /\ dur'.meta.gen # 0 BY <1>5, <1>9, <3>1, <4>1
      <4>6. \A h \in Metas' : IsPrefix(kept', TextAt(h, files.synced[h])')
        BY <1>4, <1>10, <4>3
      <4> QED BY <4>4, <4>5, <4>6 DEF Holds, InFiles
    <3> QED BY <3>2, <3>3
  <2> QED BY <2>1, <2>2 DEF DurableInv, Holds
<1> QED BY <1>11, <1>12, <1>16, <1>19, <1>20 DEF DurableInv

-----------------------------------------------------------------------------
(* The theorem *)

LEMMA InitDurable ==
  ASSUME Init
  PROVE  DurableInv
<1>1. /\ act.pc = "up" /\ act.text = <<>> /\ act.base = 0 /\ queue = <<>> /\ Len(queue) = 0
      /\ kept = <<>>
  BY DEF Init
<1>2. wr.pc = "idle" /\ wr.gen = 0 BY DEF Init, Idle
<1>3. vol.meta.gen = 0 /\ dur.meta.gen = 0 BY DEF Init, NoDir, NoMeta
<1>4. doc.now = NewDoc /\ doc.dur = NewDoc /\ doc.saves = 0 /\ Docs = {NewDoc} BY DEF Init, Docs
<1>5. NewDoc.text = <<>> /\ NewDoc.ver = 0 /\ IsPrefix(<<>>, <<>>) BY PrefixEmpty DEF NewDoc
<1>6. Written = {} BY <1>2 DEF Written
<1>7. Reaching(queue, Len(queue) + 1, Written) = {}
  <2>1. 1..((Len(queue) + 1) - 1) = {} BY <1>1
  <2> QED BY <1>6, <2>1, ReachIn
<1>8. LogsBacked /\ Settled BY <1>2, <1>3 DEF LogsBacked, Settled, Metas
<1>9. Growing /\ Cleared BY <1>1, <1>7 DEF Growing, Cleared, Rises, Under, Bare
<1>10. Covers(<<>>, 0, Docs, 0) BY <1>4, <1>5 DEF Covers
<1>11. Covered(queue, Docs, doc.saves) BY <1>1 DEF Covered
<1>12. Based BY <1>1, <1>3, <1>4, <1>5, <1>10, <1>11 DEF Based
<1>13. Holds BY <1>1, <1>4, <1>5 DEF Holds, InDocs
<1> QED BY <1>8, <1>9, <1>12, <1>13 DEF DurableInv

LEMMA NextDurable ==
  ASSUME EInv, DurableInv, [Next]_vars
  PROVE  DurableInv'
<1>1. CASE Actor
  BY <1>1, EditDurable, WakeDurable, SaveDoneDurable, ReloadDurable, RestoredDurable DEF Actor
<1>2. CASE Writer
  BY <1>2, SwitchSnapDurable, SwitchLogDurable, SwitchDirDurable, SwitchMetaDurable,
     SwitchDoneDurable, SwitchRetireDurable, AppendDroppedDurable, AppendRecordDurable,
     AppendFailDurable, DiscardMetaDurable, DiscardRestDurable, SyncDueDurable,
     FlushTokenDurable DEF Writer
<1>3. CASE SwitchFail \/ FlushAsk
  BY <1>3, SwitchFailDurable, FlushAskDurable
<1>4. CASE FlushReply
  BY <1>4, DurableSame DEF FlushReply
<1>5. CASE \E d, f \in BOOLEAN : SaveWrite(d, f)
  BY <1>5, SaveWriteDurable
<1>6. CASE \E f \in BOOLEAN : Close(f) \/ DiscardFail(f) \/ Crash(f)
  BY <1>6, CloseDurable, DiscardFailDurable, CrashDurable
<1>7. CASE UNCHANGED vars
  BY <1>7, DurableSame DEF vars
<1> QED BY <1>1, <1>2, <1>3, <1>4, <1>5, <1>6, <1>7 DEF Next

LEMMA InvDurableSurvives ==
  ASSUME EInv, DurableInv
  PROVE  DurableSurvives
<1> SUFFICES ASSUME NEW i \in Images(TRUE)
             PROVE  IsPrefix(kept, i.load.text) \/ IsPrefix(kept, i.doc.text)
  BY DEF DurableSurvives, Survives
<1>1. CASE InDocs
  <2>1. i.doc \in Docs BY ImageDoc
  <2> QED BY <1>1, <2>1 DEF InDocs
<1>2. CASE InFiles
  <2>1. TypeOK BY DEF EInv
  <2>2. PICK m \in {vol.meta, dur.meta} : i.load \in Loads(m, TRUE) BY <2>1, ImageFacts
  <2> QED BY <1>2, <2>2, LoadHolds
<1> QED BY <1>1, <1>2 DEF DurableInv, Holds

\* Once the writer has made a text durable, by a Switch that is done or by a sync,
\* every image of the disk that any later crash or power failure may leave gives
\* it back, from the recovery files or as the document: no failed Switch or
\* sync, no retirement, no save whose own fsync failed, no discard and no second
\* crash during restore takes it away.  Only the user's own reload or close, and
\* a forced save over a document the buffer is not based on, give it up
\* (switch_done, sync, discard and the save path of the actor).
THEOREM DurableKept == Spec => []DurableSurvives
<1>1. Init => EInv /\ DurableInv
  BY InitInv, InitDurable
<1>2. (EInv /\ DurableInv) /\ [Next]_vars => (EInv /\ DurableInv)'
  BY NextInv, NextDurable
<1>3. EInv /\ DurableInv => DurableSurvives
  BY InvDurableSurvives
<1> QED BY <1>1, <1>2, <1>3, PTL DEF Spec
=============================================================================
