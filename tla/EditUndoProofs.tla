----------------------------- MODULE EditUndoProofs -----------------------------
(***************************************************************************)
(* Proofs about EditUndo, for any lanes, any text, any plan and any        *)
(* LOG_MAX_ENTRIES: what the undo and redo stacks refer to.                *)
(***************************************************************************)
EXTENDS EditUndo, SequenceTheorems, WellFoundedInduction, TLAPS

-----------------------------------------------------------------------------
(* The fold over a stack, round by round *)

\* Induction over a set of naturals.
LEMMA Induction ==
  ASSUME NEW T \in SUBSET Nat, 0 \in T, \A n \in T : n + 1 \in T
  PROVE  T = Nat
<1> DEFINE Out == Nat \ T
<1> SUFFICES ASSUME Out # {} PROVE FALSE
  OBVIOUS
<1>1. PICK x \in Out : \A y \in Out : ~(<<y, x>> \in OpToRel(<, Nat))
  <2> HIDE DEF Out
  <2>1. Out \subseteq Nat
    BY DEF Out
  <2> QED BY <2>1, WFMin, NatLessThanWellFounded
<1>2. x \in Nat /\ x # 0 /\ x \notin T
  OBVIOUS
<1>3. x - 1 \in Nat /\ x - 1 < x /\ (x - 1) + 1 = x
  BY <1>2
<1>4. x - 1 \notin T
  BY <1>2, <1>3
<1>5. <<x - 1, x>> \in OpToRel(<, Nat)
  BY <1>2, <1>3 DEF OpToRel
<1> QED BY <1>1, <1>3, <1>4, <1>5

\* A group that reaches back to oldest or further is dropped.
Keeping(o, kept, g) == IF g.first > o THEN Append(kept, g) ELSE kept

\* g folds q over every set of its first n positions, the last position last.
IsIter(g, o, q, n) ==
  g = [S \in SUBSET (1..n) |->
         IF S = {} THEN <<>> ELSE Keeping(o, g[S \ {Max(S)}], q[Max(S)])]

\* The last of the first n + 1 positions.
LEMMA MaxOf ==
  ASSUME NEW n \in Nat, NEW S \in SUBSET (1..(n + 1)), n + 1 \in S
  PROVE  Max(S) = n + 1 /\ S \ {n + 1} \in SUBSET (1..n)
<1>1. \A y \in S : n + 1 >= y
  OBVIOUS
<1>2. \A x \in S : (\A y \in S : x >= y) => x = n + 1
  OBVIOUS
<1>3. Max(S) \in S /\ \A y \in S : Max(S) >= y
  BY <1>1 DEF Max
<1>4. Max(S) = n + 1
  BY <1>2, <1>3
<1> QED BY <1>4

\* There is such a fold for every number of rounds.
LEMMA IterExists ==
  ASSUME NEW o, NEW q, NEW n \in Nat
  PROVE  \E g : IsIter(g, o, q, n)
<1> DEFINE T == {m0 \in Nat : \E g : IsIter(g, o, q, m0)}
<1>1. 0 \in T
  <2> DEFINE g == [S \in {{}} |-> <<>>]
  <2>1. SUBSET (1..0) = {{}}
    OBVIOUS
  <2>2. IsIter(g, o, q, 0)
    BY <2>1 DEF IsIter
  <2> QED BY <2>2
<1>2. ASSUME NEW k \in T PROVE k + 1 \in T
  <2>1. PICK g : IsIter(g, o, q, k)
    OBVIOUS
  <2> DEFINE h == [S \in SUBSET (1..(k + 1)) |->
                     IF k + 1 \in S THEN Keeping(o, g[S \ {k + 1}], q[k + 1]) ELSE g[S]]
  <2>2. ASSUME NEW S \in SUBSET (1..(k + 1))
        PROVE  h[S] = IF S = {} THEN <<>> ELSE Keeping(o, h[S \ {Max(S)}], q[Max(S)])
    <3>1. CASE k + 1 \in S
      <4>1. Max(S) = k + 1 /\ S \ {k + 1} \in SUBSET (1..k) /\ k + 1 \notin S \ {k + 1}
        BY <3>1, MaxOf
      <4>2. S \ {k + 1} \in SUBSET (1..(k + 1))
        OBVIOUS
      <4>3. h[S \ {k + 1}] = g[S \ {k + 1}]
        BY <4>1, <4>2
      <4>4. h[S] = Keeping(o, g[S \ {k + 1}], q[k + 1])
        BY <3>1
      <4> QED BY <3>1, <4>1, <4>3, <4>4
    <3>2. CASE k + 1 \notin S
      <4>1. S \in SUBSET (1..k)
        BY <3>2
      <4>2. h[S] = g[S]
        BY <3>2
      <4>3. /\ S \ {Max(S)} \in SUBSET (1..(k + 1)) /\ S \ {Max(S)} \in SUBSET (1..k)
            /\ k + 1 \notin S \ {Max(S)}
        BY <3>2, <4>1
      <4>4. h[S \ {Max(S)}] = g[S \ {Max(S)}]
        BY <4>3
      <4>5. g[S] = IF S = {} THEN <<>> ELSE Keeping(o, g[S \ {Max(S)}], q[Max(S)])
        BY <2>1, <4>1 DEF IsIter
      <4> QED BY <4>2, <4>4, <4>5
    <3> QED BY <3>1, <3>2
  <2>3. IsIter(h, o, q, k + 1)
    <3> HIDE DEF h
    <3>1. DOMAIN h = SUBSET (1..(k + 1)) /\ h = [S \in DOMAIN h |-> h[S]]
      BY DEF h
    <3> QED BY <2>2, <3>1 DEF IsIter
  <2> QED BY <2>3
<1>3. T = Nat
  <2> HIDE DEF T
  <2>1. T \in SUBSET Nat BY DEF T
  <2> QED BY <1>1, <1>2, <2>1, Induction
<1> QED BY <1>3

\* it is the fold of the first k elements of q, for every k.
Rounds(it, o, q) ==
  /\ it[{}] = <<>>
  /\ \A k \in 0..(Len(q) - 1) : it[1..(k + 1)] = Keeping(o, it[1..k], q[k + 1])

\* Its rounds, one after the other.
LEMMA IterRounds ==
  ASSUME NEW o, NEW q, Len(q) \in Nat, NEW g, IsIter(g, o, q, Len(q))
  PROVE  Rounds(g, o, q)
<1> DEFINE n == Len(q)
<1>1. g[{}] = <<>>
  BY DEF IsIter
<1>2. ASSUME NEW k \in 0..(n - 1)
      PROVE  g[1..(k + 1)] = Keeping(o, g[1..k], q[k + 1])
  <2>1. k \in Nat /\ 1..(k + 1) \in SUBSET (1..n) /\ k + 1 \in 1..(k + 1)
    OBVIOUS
  <2>2. (1..(k + 1)) \ {k + 1} = 1..k /\ 1..(k + 1) # {} /\ 1..(k + 1) \in SUBSET (1..(k + 1))
    BY <2>1
  <2>3. Max(1..(k + 1)) = k + 1
    BY <2>1, <2>2, MaxOf
  <2> QED BY <2>1, <2>2, <2>3 DEF IsIter
<1> QED BY <1>1, <1>2 DEF Rounds

\* KeepReachable is such a fold.
LEMMA KeepFold ==
  ASSUME NEW S, NEW q \in Seq(S), NEW o
  PROVE  \E it : Rounds(it, o, q) /\ KeepReachable(q, o) = it[1..Len(q)]
<1> DEFINE Th(a, x) == IF x.first > o THEN Append(a, x) ELSE a
           It(g) == g = [s \in SUBSET (DOMAIN q) |->
                           IF s = {} THEN <<>> ELSE Th(g[s \ {Max(s)}], q[Max(s)])]
           it == CHOOSE g : It(g)
<1>1. DOMAIN q = 1..Len(q) /\ Len(q) \in Nat
  BY LenProperties
<1>2. \A a, x : Keeping(o, a, x) = Th(a, x)
  BY DEF Keeping
<1>3. KeepReachable(q, o) = it[DOMAIN q]
  BY DEF KeepReachable, FoldLeft, MapThenFoldSet
<1> HIDE DEF Th
<1>4. \A g : It(g) <=> IsIter(g, o, q, Len(q))
  BY <1>1, <1>2 DEF IsIter
<1>5. It(it)
  <2>1. \E g : It(g)
    <3> HIDE DEF It
    <3> QED BY <1>1, <1>4, IterExists
  <2> HIDE DEF It
  <2> QED BY <2>1
<1> HIDE DEF It, it
<1> QED BY <1>1, <1>3, <1>4, <1>5, IterRounds

GroupType == [first : Nat, last : Nat]

\* k holds groups of q that do not reach back to o.
IsKept(k, q, o) ==
  k \in Seq(GroupType) /\ \A i \in DOMAIN k : k[i].first > o /\ \E j \in DOMAIN q : k[i] = q[j]

\* What KeepReachable leaves.
LEMMA KeepIs ==
  ASSUME NEW q \in Seq(GroupType), NEW o
  PROVE  IsKept(KeepReachable(q, o), q, o)
<1>1. PICK it : Rounds(it, o, q) /\ KeepReachable(q, o) = it[1..Len(q)]
  BY KeepFold
<1>2. Len(q) \in Nat /\ DOMAIN q = 1..Len(q)
  OBVIOUS
<1> DEFINE T == {n \in Nat : n <= Len(q) => IsKept(it[1..n], q, o)}
<1>3. 0 \in T
  <2> DEFINE e == <<>>
  <2>1. 1..0 = {} /\ it[{}] = e
    BY <1>1 DEF Rounds
  <2>2. e \in Seq(GroupType) /\ DOMAIN e = {}
    OBVIOUS
  <2> HIDE DEF e
  <2>3. IsKept(it[1..0], q, o)
    BY <2>1, <2>2 DEF IsKept
  <2> QED  BY <2>3
<1>4. ASSUME NEW n \in T PROVE n + 1 \in T
  <2> SUFFICES ASSUME n + 1 <= Len(q) PROVE IsKept(it[1..(n + 1)], q, o)
    OBVIOUS
  <2> DEFINE k == it[1..n]
             l == it[1..(n + 1)]
             x == q[n + 1]
  <2>1. n \in 0..(Len(q) - 1) /\ n + 1 \in DOMAIN q /\ IsKept(k, q, o)
    BY <1>2
  <2>2. l = IF x.first > o THEN Append(k, x) ELSE k
    BY <1>1, <2>1 DEF Rounds, Keeping
  <2>3. x \in GroupType /\ k \in Seq(GroupType)
    BY <2>1 DEF IsKept
  <2> HIDE DEF k, l
  <2>4. CASE ~(x.first > o)
    BY <2>1, <2>2, <2>4 DEF l
  <2>5. CASE x.first > o
    <3>1. /\ l \in Seq(GroupType) /\ DOMAIN l = 1..(Len(k) + 1) /\ Len(k) \in Nat /\ DOMAIN k = 1..Len(k)
          /\ l[Len(k) + 1] = x /\ \A i \in 1..Len(k) : l[i] = k[i]
      <4> HIDE DEF x
      <4> QED  BY <2>2, <2>3, <2>5
    <3>2. ASSUME NEW i \in DOMAIN l PROVE l[i].first > o /\ \E j \in DOMAIN q : l[i] = q[j]
      <4>1. CASE i = Len(k) + 1
        BY <2>1, <2>5, <3>1, <4>1
      <4>2. CASE i \in 1..Len(k)
        BY <2>1, <3>1, <4>2 DEF IsKept
      <4> QED  BY <3>1, <4>1, <4>2
    <3>3. IsKept(l, q, o)
      BY <3>1, <3>2 DEF IsKept
    <3> QED  BY <3>3 DEF l
  <2> QED  BY <2>4, <2>5
<1>5. T = Nat
  <2> HIDE DEF T
  <2>1. T \in SUBSET Nat BY DEF T
  <2> QED BY <1>3, <1>4, <2>1, Induction
<1> QED BY <1>1, <1>2, <1>5

-----------------------------------------------------------------------------
(* The inductive invariant *)

\* A sequence, whatever its elements.
IsSeq(s) == s \in Seq({s[k] : k \in DOMAIN s})

\* The groups of a stack are runs of lane l in the log lg, whose first rev is b + 1.
Runs(s, lg, b, l) ==
  \A k \in DOMAIN s :
    /\ s[k].first > b /\ s[k].first <= s[k].last /\ s[k].last <= b + Len(lg)
    /\ \A r \in s[k].first..s[k].last : lg[r - b].lane = l

Stacks == [undo : Seq(GroupType), redo : Seq(GroupType)]

LogOK ==
  /\ base \in Nat /\ IsSeq(log) /\ Len(log) <= LogMax
  /\ \A k \in DOMAIN log : log[k].rev = base + k

TextsOK == IsSeq(texts) /\ Len(texts) = rev + 1 /\ text = texts[rev + 1]

LanesOK ==
  /\ lanes \in [Lanes \cup {Disk} -> Stacks]
  /\ \A l \in Lanes \cup {Disk} : Runs(lanes[l].undo, log, base, l) /\ Runs(lanes[l].redo, log, base, l)

Inv == LogOK /\ TextsOK /\ LanesOK

\* One more element.
LEMMA AppendIs ==
  ASSUME NEW s, IsSeq(s), NEW e
  PROVE  /\ Len(s) \in Nat /\ DOMAIN s = 1..Len(s)
         /\ IsSeq(Append(s, e)) /\ Len(Append(s, e)) = Len(s) + 1 /\ DOMAIN Append(s, e) = 1..(Len(s) + 1)
         /\ Append(s, e)[Len(s) + 1] = e /\ \A k \in 1..Len(s) : Append(s, e)[k] = s[k]
<1> DEFINE S == {s[k] : k \in DOMAIN s} \cup {e}
           a == Append(s, e)
<1>1. s \in Seq(S) /\ e \in S
  <2>1. s \in Seq({s[k] : k \in DOMAIN s})
    BY DEF IsSeq
  <2> QED  BY <2>1
<1> HIDE DEF S
<1>2. Len(s) \in Nat /\ DOMAIN s = 1..Len(s)
  BY <1>1
<1>3. a \in Seq(S) /\ Len(a) = Len(s) + 1 /\ a[Len(s) + 1] = e /\ \A k \in 1..Len(s) : a[k] = s[k]
  BY <1>1, AppendProperties
<1> HIDE DEF a
<1>4. DOMAIN a = 1..Len(a)
  BY <1>3
<1>5. IsSeq(a)
  BY <1>3, <1>4 DEF IsSeq
<1> QED  BY <1>2, <1>3, <1>4, <1>5 DEF a

\* All but the first d elements.
LEMMA SuffixIs ==
  ASSUME NEW s, IsSeq(s), NEW d \in Nat, d <= Len(s)
  PROVE  LET t == SubSeq(s, d + 1, Len(s))
         IN /\ Len(s) \in Nat /\ IsSeq(t) /\ Len(t) = Len(s) - d /\ DOMAIN t = 1..(Len(s) - d)
            /\ \A k \in 1..(Len(s) - d) : t[k] = s[k + d]
<1> DEFINE S == {s[k] : k \in DOMAIN s}
           t == SubSeq(s, d + 1, Len(s))
<1>1. s \in Seq(S)
  BY DEF IsSeq
<1> HIDE DEF S
<1>2. Len(s) \in Nat /\ DOMAIN s = 1..Len(s)
  BY <1>1
<1>3. t = [k \in 1..(Len(s) - d) |-> s[k + d]]
  <2>1. /\ Len(s) - (d + 1) + 1 = Len(s) - d /\ Len(s) - d \in Nat
        /\ \A k \in 1..(Len(s) - d) : d + 1 + k - 1 = k + d
    BY <1>2
  <2>2. t = [k \in 1..(Len(s) - (d + 1) + 1) |-> s[d + 1 + k - 1]]
    BY <1>1, <1>2, SubSeqProperties
  <2> QED  BY <2>1, <2>2
<1> HIDE DEF t
<1>4. Len(s) - d \in Nat /\ DOMAIN t = 1..(Len(s) - d) /\ \A k \in 1..(Len(s) - d) : t[k] = s[k + d]
  BY <1>2, <1>3
<1>5. t \in Seq({t[k] : k \in DOMAIN t}) /\ Len(t) = Len(s) - d
  <2> DEFINE R == {t[k] : k \in DOMAIN t}
             n == Len(s) - d
  <2>1. t \in [1..n -> R]
    BY <1>3, <1>4
  <2> HIDE DEF R, n
  <2>2. n \in Nat
    BY <1>4 DEF n
  <2>3. t \in Seq(R) /\ Len(t) = n
    BY <2>1, <2>2
  <2> QED  BY <2>3 DEF R, n
<1> QED  BY <1>2, <1>4, <1>5 DEF IsSeq, t

\* The groups below the top one, and the top one.
LEMMA PopIs ==
  ASSUME NEW s \in Seq(GroupType), s # <<>>
  PROVE  /\ Pop(s) \in Seq(GroupType) /\ Len(s) \in DOMAIN s /\ Top(s) \in GroupType
         /\ \A k \in DOMAIN Pop(s) : k \in DOMAIN s /\ Pop(s)[k] = s[k]
<1>1. Len(s) \in Nat \ {0} /\ DOMAIN s = 1..Len(s)
  BY EmptySeq
<1>2. Pop(s) \in Seq(GroupType) /\ Len(Pop(s)) = Len(s) - 1 /\ \A k \in 1..(Len(s) - 1) : Pop(s)[k] = s[k]
  BY <1>1, SubSeqProperties DEF Pop
<1>3. DOMAIN Pop(s) = 1..(Len(s) - 1)
  <2> DEFINE p == Pop(s)
  <2> HIDE DEF p
  <2>1. p \in Seq(GroupType) /\ Len(p) = Len(s) - 1
    BY <1>2 DEF p
  <2>2. DOMAIN p = 1..(Len(s) - 1)
    BY <2>1
  <2> QED  BY <2>2 DEF p
<1> QED  BY <1>1, <1>2, <1>3 DEF Top

-----------------------------------------------------------------------------
(* Runs of a lane *)

\* g is a run of lane l in the log lg.
IsRun(g, lg, b, l) ==
  /\ g.first > b /\ g.first <= g.last /\ g.last <= b + Len(lg)
  /\ \A r \in g.first..g.last : lg[r - b].lane = l

\* A longer log has the runs of the shorter one.
LEMMA RunsGrow ==
  ASSUME NEW lg, IsSeq(lg), NEW e, NEW b \in Nat, NEW l, NEW s \in Seq(GroupType), Runs(s, lg, b, l)
  PROVE  Runs(s, Append(lg, e), b, l)
<1> DEFINE a == Append(lg, e)
<1>1. /\ Len(lg) \in Nat /\ Len(a) = Len(lg) + 1
      /\ \A k \in 1..Len(lg) : a[k] = lg[k]
  BY AppendIs
<1> HIDE DEF a
<1> SUFFICES ASSUME NEW k \in DOMAIN s PROVE IsRun(s[k], a, b, l)
  BY DEF Runs, IsRun, a
<1> DEFINE g == s[k]
<1>2. g \in GroupType /\ IsRun(g, lg, b, l)
  BY DEF Runs, IsRun
<1> HIDE DEF g
<1>3. g.first \in Nat /\ g.last \in Nat
  BY <1>2 DEF GroupType
<1>4. ASSUME NEW r \in g.first..g.last PROVE a[r - b].lane = l
  <2>1. r - b \in 1..Len(lg)
    BY <1>1, <1>2, <1>3 DEF IsRun
  <2> QED  BY <1>1, <1>2, <2>1 DEF IsRun
<1>5. IsRun(g, a, b, l)
  BY <1>1, <1>2, <1>3, <1>4 DEF IsRun
<1> QED  BY <1>5 DEF g

\* A run on top of runs.
LEMMA RunsPush ==
  ASSUME NEW lg, NEW b, NEW l, NEW s \in Seq(GroupType), Runs(s, lg, b, l),
         NEW g \in GroupType, IsRun(g, lg, b, l)
  PROVE  Append(s, g) \in Seq(GroupType) /\ Runs(Append(s, g), lg, b, l)
<1> DEFINE a == Append(s, g)
<1>1. /\ Len(s) \in Nat /\ DOMAIN s = 1..Len(s) /\ a \in Seq(GroupType) /\ DOMAIN a = 1..(Len(s) + 1)
      /\ a[Len(s) + 1] = g /\ \A k \in 1..Len(s) : a[k] = s[k]
  OBVIOUS
<1> HIDE DEF a
<1>2. ASSUME NEW k \in DOMAIN a PROVE IsRun(a[k], lg, b, l)
  <2>1. CASE k = Len(s) + 1
    BY <1>1, <2>1
  <2>2. CASE k \in 1..Len(s)
    <3>1. a[k] = s[k] /\ k \in DOMAIN s
      BY <1>1, <2>2
    <3>2. IsRun(s[k], lg, b, l)
      BY <3>1 DEF Runs, IsRun
    <3> QED  BY <3>1, <3>2
  <2> QED  BY <1>1, <2>1, <2>2
<1>3. Runs(a, lg, b, l)
  BY <1>2 DEF Runs, IsRun
<1> QED  BY <1>1, <1>3 DEF a

\* Runs without the top one.
LEMMA RunsPop ==
  ASSUME NEW lg, NEW b, NEW l, NEW s \in Seq(GroupType), s # <<>>, Runs(s, lg, b, l)
  PROVE  Runs(Pop(s), lg, b, l) /\ IsRun(Top(s), lg, b, l)
<1>1. Runs(Pop(s), lg, b, l)
  <2>1. \A k \in DOMAIN Pop(s) : k \in DOMAIN s /\ Pop(s)[k] = s[k]
    BY PopIs
  <2> QED  BY <2>1 DEF Runs
<1>2. IsRun(Top(s), lg, b, l)
  BY PopIs DEF Runs, IsRun, Top
<1> QED  BY <1>1, <1>2

\* What the log drops, KeepReachable drops from the stack.
LEMMA RunsKeep ==
  ASSUME NEW lg, IsSeq(lg), NEW b \in Nat, NEW d \in Nat, d <= Len(lg), NEW l,
         NEW s \in Seq(GroupType), Runs(s, lg, b, l)
  PROVE  LET k == KeepReachable(s, b + d)
         IN k \in Seq(GroupType) /\ Runs(k, SubSeq(lg, d + 1, Len(lg)), b + d, l)
<1> DEFINE q == KeepReachable(s, b + d)
           t == SubSeq(lg, d + 1, Len(lg))
<1>1. /\ Len(lg) \in Nat /\ Len(t) = Len(lg) - d
      /\ \A k \in 1..(Len(lg) - d) : t[k] = lg[k + d]
  BY SuffixIs
<1>2. IsKept(q, s, b + d)
  BY KeepIs
<1> HIDE DEF q, t
<1>3. ASSUME NEW k \in DOMAIN q PROVE IsRun(q[k], t, b + d, l)
  <2>1. PICK j \in DOMAIN s : q[k] = s[j]
    BY <1>2 DEF IsKept
  <2> DEFINE g == s[j]
  <2>2. g \in GroupType /\ IsRun(g, lg, b, l) /\ g.first > b + d
    BY <1>2, <2>1 DEF Runs, IsRun, IsKept
  <2> HIDE DEF g
  <2>3. g.first \in Nat /\ g.last \in Nat
    BY <2>2 DEF GroupType
  <2>4. ASSUME NEW r \in g.first..g.last PROVE t[r - (b + d)].lane = l
    <3>1. r - (b + d) \in 1..(Len(lg) - d) /\ r - (b + d) + d = r - b
      BY <1>1, <2>2, <2>3 DEF IsRun
    <3>2. t[r - (b + d)] = lg[r - b]
      BY <1>1, <3>1
    <3> QED  BY <2>2, <3>2 DEF IsRun
  <2>5. IsRun(g, t, b + d, l)
    BY <1>1, <2>2, <2>3, <2>4 DEF IsRun
  <2> QED  BY <2>1, <2>5 DEF g
<1>4. Runs(q, t, b + d, l) /\ q \in Seq(GroupType)
  BY <1>2, <1>3 DEF Runs, IsRun, IsKept
<1> QED  BY <1>4 DEF q, t

-----------------------------------------------------------------------------
(* A commit *)

Kinds == {"edit", "reload", "undo", "redo"}

\* Undo and redo take the top group of their stack.
HasTop(lane, kind) ==
  (kind = "undo" => lanes[lane].undo # <<>>) /\ (kind = "redo" => lanes[lane].redo # <<>>)

\* The lane's new stacks are runs of the log with the new entry.
LEMMA NewStacksRun ==
  ASSUME LogOK, LanesOK, NEW lane \in Lanes \cup {Disk}, NEW kind \in Kinds, HasTop(lane, kind),
         NEW steps, NEW asked \in BOOLEAN, NEW e, e.lane = lane
  PROVE  LET n == NewStacks(lane, kind, steps, asked)
         IN /\ n \in Stacks
            /\ Runs(n.undo, Append(log, e), base, lane) /\ Runs(n.redo, Append(log, e), base, lane)
<1> DEFINE all == Append(log, e)
           u == lanes[lane].undo
           d == lanes[lane].redo
           r == rev + 1
           C == Coalesced(lane, steps, asked /\ kind = "edit")
           n == NewStacks(lane, kind, steps, asked)
           Good(s) == s \in Seq(GroupType) /\ Runs(s, all, base, lane)
<1>1. /\ base \in Nat /\ IsSeq(log) /\ Len(log) \in Nat /\ Len(all) = Len(log) + 1
      /\ all[Len(log) + 1] = e /\ \A k \in 1..Len(log) : all[k] = log[k]
  BY AppendIs DEF LogOK
<1>2. u \in Seq(GroupType) /\ d \in Seq(GroupType) /\ Runs(u, log, base, lane) /\ Runs(d, log, base, lane)
  BY DEF LanesOK, Stacks
<1>3. Good(u) /\ Good(d)
  BY <1>1, <1>2, RunsGrow
<1>4. Good(<<>>)
  <2> DEFINE z == <<>>
  <2>1. z \in Seq(GroupType) /\ DOMAIN z = {}
    OBVIOUS
  <2> HIDE DEF z
  <2>2. Good(z)
    BY <2>1 DEF Runs
  <2> QED  BY <2>2 DEF z
<1>5. r \in Nat /\ r = base + Len(log) + 1
  BY <1>1 DEF rev
<1>6. Group(r, r) \in GroupType /\ IsRun(Group(r, r), all, base, lane)
  <2>1. Group(r, r) \in GroupType /\ Group(r, r).first = r /\ Group(r, r).last = r
    BY <1>5 DEF Group, GroupType
  <2>2. ASSUME NEW x \in r..r PROVE all[x - base].lane = lane
    <3>1. x - base = Len(log) + 1
      BY <1>1, <1>5
    <3> QED  BY <1>1, <3>1
  <2>3. r > base /\ r <= r /\ r <= base + Len(all)
    BY <1>1, <1>5
  <2> HIDE DEF all, r
  <2> QED  BY <2>1, <2>2, <2>3 DEF IsRun
<1> HIDE DEF all, r, C, u, d
<1>7. ASSUME NEW s, Good(s) PROVE Good(Append(s, Group(r, r)))
  BY <1>6, <1>7, RunsPush
<1>8. ASSUME NEW s, Good(s), s # <<>> PROVE Good(Pop(s))
  BY <1>8, PopIs, RunsPop
<1>9. ASSUME C
      PROVE  Good(Append(Pop(u), Group(Top(u).first, r)))
  <2> DEFINE g == Group(Top(u).first, r)
  <2>1. u # <<>> /\ Top(u).last = base + Len(log)
    BY <1>9 DEF C, Coalesced, u, rev
  <2>2. Top(u) \in GroupType /\ IsRun(Top(u), all, base, lane)
    BY <1>3, <2>1, PopIs, RunsPop
  <2>3. Top(u).first \in Nat
    BY <2>2 DEF GroupType
  <2>4. g \in GroupType /\ g.first = Top(u).first /\ g.last = r
    BY <1>5, <2>3 DEF Group, GroupType
  <2>5. ASSUME NEW x \in g.first..g.last PROVE all[x - base].lane = lane
    <3>1. x \in Top(u).first..Top(u).last \/ x - base = Len(log) + 1
      BY <1>1, <1>5, <2>1, <2>3, <2>4
    <3> QED  BY <1>1, <2>2, <3>1 DEF IsRun
  <2>6. g.first > base /\ g.first <= g.last /\ g.last <= base + Len(all)
    BY <1>1, <1>5, <2>1, <2>2, <2>3, <2>4 DEF IsRun
  <2> HIDE DEF g
  <2>7. IsRun(g, all, base, lane)
    BY <2>5, <2>6 DEF IsRun
  <2>8. Good(Pop(u))
    BY <1>3, <1>8, <2>1
  <2>9. Good(Append(Pop(u), g))
    BY <2>4, <2>7, <2>8, RunsPush
  <2> QED  BY <2>9 DEF g
<1> HIDE DEF Good
<1>10. \E p, q : n = [undo |-> p, redo |-> q] /\ Good(p) /\ Good(q)
  <2>1. CASE kind \in {"edit", "reload"} /\ C
    <3>1. n = [undo |-> Append(Pop(u), Group(Top(u).first, r)), redo |-> <<>>]
      BY <2>1 DEF NewStacks, C, u, r
    <3> QED  BY <1>4, <1>9, <2>1, <3>1
  <2>2. CASE kind \in {"edit", "reload"} /\ ~C
    <3>1. n = [undo |-> Append(u, Group(r, r)), redo |-> <<>>]
      BY <2>2 DEF NewStacks, C, u, r
    <3> QED  BY <1>3, <1>4, <1>7, <3>1
  <2>3. CASE kind = "undo"
    <3>1. n = [undo |-> Pop(u), redo |-> Append(d, Group(r, r))]
      BY <2>3 DEF NewStacks, u, d, r
    <3>2. u # <<>>
      BY <2>3 DEF HasTop, u
    <3> QED  BY <1>3, <1>7, <1>8, <3>1, <3>2
  <2>4. CASE kind = "redo"
    <3>1. n = [undo |-> Append(u, Group(r, r)), redo |-> Pop(d)]
      BY <2>4 DEF NewStacks, u, d, r
    <3>2. d # <<>>
      BY <2>4 DEF HasTop, d
    <3> QED  BY <1>3, <1>7, <1>8, <3>1, <3>2
  <2> QED  BY <2>1, <2>2, <2>3, <2>4 DEF Kinds
<1> HIDE DEF n
<1> QED  BY <1>10 DEF Good, Stacks, n, all

\* The invariant after a commit: of its log and its texts, and of every lane's stacks.
LEMMA CommitKeeps ==
  ASSUME Inv, NEW lane \in Lanes \cup {Disk}, NEW kind \in Kinds, HasTop(lane, kind),
         NEW of, NEW steps, NEW asked \in BOOLEAN, CommitSteps(lane, kind, of, steps, asked)
  PROVE  Inv'
<1> DEFINE e == [rev |-> rev + 1, lane |-> lane, kind |-> kind, of |-> of, steps |-> steps,
                 deleted |-> [k \in DOMAIN steps |-> Slice(text, steps[k].s, steps[k].e)]]
           all == Append(log, e)
           d == IF Len(all) > LogMax THEN Len(all) - LogMax ELSE 0
           n == NewStacks(lane, kind, steps, asked)
           stacks == [lanes EXCEPT ![lane] = n]
<1>1. /\ texts' = Append(texts, text')
      /\ log' = SubSeq(all, d + 1, Len(all))
      /\ base' = base + d
      /\ lanes' = [l \in DOMAIN lanes |->
                     [undo |-> KeepReachable(stacks[l].undo, base + d),
                      redo |-> KeepReachable(stacks[l].redo, base + d)]]
  BY DEF CommitSteps
<1>2. e.lane = lane /\ e.rev = rev + 1
  OBVIOUS
<1> HIDE DEF e
<1>3. /\ base \in Nat /\ IsSeq(log) /\ Len(log) \in Nat /\ Len(log) <= LogMax /\ DOMAIN log = 1..Len(log)
      /\ IsSeq(all) /\ Len(all) = Len(log) + 1 /\ DOMAIN all = 1..(Len(log) + 1)
      /\ all[Len(log) + 1] = e /\ \A k \in 1..Len(log) : all[k] = log[k]
  BY AppendIs DEF Inv, LogOK
<1> HIDE DEF all
<1>4. d \in Nat /\ d <= Len(all) /\ Len(all) - d <= LogMax
  BY <1>3, LogMaxAssumption
<1> HIDE DEF d
<1>5. /\ IsSeq(log') /\ Len(log') = Len(all) - d /\ DOMAIN log' = 1..(Len(all) - d)
      /\ \A k \in 1..(Len(all) - d) : log'[k] = all[k + d]
  BY <1>1, <1>3, <1>4, SuffixIs
<1>6. rev = base + Len(log) /\ rev' = rev + 1 /\ rev \in Nat
  <2>1. base' + Len(log') = base + Len(log) + 1
    <3>1. base' = base + d
      BY <1>1
    <3>2. Len(log') = Len(all) - d /\ Len(all) = Len(log) + 1
      BY <1>3, <1>5
    <3> QED  BY <1>3, <1>4, <3>1, <3>2
  <2>2. rev = base + Len(log) /\ rev' = base' + Len(log')
    BY DEF rev
  <2> QED  BY <1>3, <2>1, <2>2
<1>7. \A k \in DOMAIN all : all[k].rev = base + k
  <2> SUFFICES ASSUME NEW k \in DOMAIN all PROVE all[k].rev = base + k
    OBVIOUS
  <2>1. CASE k = Len(log) + 1
    BY <1>2, <1>3, <1>6, <2>1
  <2>2. CASE k \in 1..Len(log)
    BY <1>3, <2>2 DEF Inv, LogOK
  <2> QED  BY <1>3, <2>1, <2>2
<1>8. LogOK'
  <2>1. ASSUME NEW k \in DOMAIN log' PROVE log'[k].rev = base' + k
    <3>1. k \in Nat /\ k + d \in DOMAIN all /\ log'[k] = all[k + d]
      BY <1>3, <1>4, <1>5
    <3>2. all[k + d].rev = base + (k + d)
      BY <1>7, <3>1
    <3>3. base' + k = base + (k + d)
      BY <1>1, <1>3, <1>4, <3>1
    <3> QED  BY <3>1, <3>2, <3>3
  <2>2. base' \in Nat
    BY <1>1, <1>3, <1>4
  <2> QED  BY <1>4, <1>5, <2>1, <2>2 DEF LogOK, IsSeq
<1>9. TextsOK'
  <2>1. IsSeq(texts) /\ Len(texts) = rev + 1
    BY DEF Inv, TextsOK
  <2>2. IsSeq(texts') /\ Len(texts') = rev + 2 /\ texts'[rev + 2] = text'
    BY <1>1, <1>6, <2>1, AppendIs
  <2>3. rev' + 1 = rev + 2
    BY <1>6
  <2>4. Len(texts') = rev' + 1 /\ text' = texts'[rev' + 1]
    BY <2>2, <2>3
  <2> QED  BY <2>2, <2>4 DEF TextsOK, IsSeq
<1>10. ASSUME NEW l \in Lanes \cup {Disk}
       PROVE  /\ stacks[l] \in Stacks
              /\ Runs(stacks[l].undo, all, base, l) /\ Runs(stacks[l].redo, all, base, l)
  <2>1. lanes \in [Lanes \cup {Disk} -> Stacks] /\ lanes[l] \in Stacks
        /\ Runs(lanes[l].undo, log, base, l) /\ Runs(lanes[l].redo, log, base, l)
    BY DEF Inv, LanesOK
  <2>2. CASE l = lane
    <3>1. stacks[l] = n
      BY <2>1, <2>2
    <3>2. n \in Stacks /\ Runs(n.undo, all, base, lane) /\ Runs(n.redo, all, base, lane)
      <4> HIDE DEF n
      <4> QED  BY <1>2, NewStacksRun DEF Inv, all, n
    <3> HIDE DEF n, stacks
    <3> QED  BY <2>2, <3>1, <3>2
  <2>3. CASE l # lane
    <3>1. stacks[l] = lanes[l]
      BY <2>1, <2>3
    <3>2. lanes[l].undo \in Seq(GroupType) /\ lanes[l].redo \in Seq(GroupType)
      BY <2>1 DEF Stacks
    <3> HIDE DEF n, stacks
    <3>3. Runs(lanes[l].undo, all, base, l) /\ Runs(lanes[l].redo, all, base, l)
      BY <1>3, <2>1, <3>2, RunsGrow DEF all
    <3> QED  BY <2>1, <3>1, <3>3
  <2> QED  BY <2>2, <2>3
<1> HIDE DEF n, stacks
<1>11. LanesOK'
  <2>1. DOMAIN lanes = Lanes \cup {Disk}
    BY DEF Inv, LanesOK
  <2>2. ASSUME NEW l \in Lanes \cup {Disk}
        PROVE  /\ lanes'[l] \in Stacks
               /\ Runs(lanes'[l].undo, log', base', l) /\ Runs(lanes'[l].redo, log', base', l)
    <3> DEFINE u == KeepReachable(stacks[l].undo, base + d)
               v == KeepReachable(stacks[l].redo, base + d)
    <3>1. stacks[l].undo \in Seq(GroupType) /\ stacks[l].redo \in Seq(GroupType)
      BY <1>10 DEF Stacks
    <3>2. u \in Seq(GroupType) /\ Runs(u, log', base', l)
      BY <1>1, <1>3, <1>4, <1>10, <3>1, RunsKeep
    <3>3. v \in Seq(GroupType) /\ Runs(v, log', base', l)
      BY <1>1, <1>3, <1>4, <1>10, <3>1, RunsKeep
    <3>4. lanes'[l] = [undo |-> u, redo |-> v]
      BY <1>1, <2>1
    <3> HIDE DEF u, v
    <3> QED  BY <3>2, <3>3, <3>4 DEF Stacks
  <2>3. lanes' \in [Lanes \cup {Disk} -> Stacks]
    BY <1>1, <2>1, <2>2
  <2>4. \A l \in Lanes \cup {Disk} : Runs(lanes'[l].undo, log', base', l) /\ Runs(lanes'[l].redo, log', base', l)
    BY <2>2
  <2> QED  BY <2>3, <2>4 DEF LanesOK, Runs
<1> QED  BY <1>8, <1>9, <1>11 DEF Inv

\* The same for a transaction's items.
LEMMA TxnKeeps ==
  ASSUME Inv, NEW lane \in Lanes \cup {Disk}, NEW kind \in Kinds, HasTop(lane, kind),
         NEW of, NEW items, NEW asked \in BOOLEAN, CommitTxn(lane, kind, of, items, asked)
  PROVE  Inv'
BY CommitKeeps DEF CommitTxn

-----------------------------------------------------------------------------
(* The theorem *)

LEMMA InitInv == Init => Inv
<1> SUFFICES ASSUME Init PROVE Inv
  OBVIOUS
<1>1. log = <<>> /\ base = 0 /\ lanes = [l \in Lanes \cup {Disk} |-> NoLane] /\ texts = <<text>>
  BY DEF Init
<1> DEFINE z == <<>>
<1>2. z \in Seq(GroupType) /\ DOMAIN z = {} /\ Len(z) = 0 /\ IsSeq(z)
  BY DEF IsSeq
<1>3. LogOK
  <2>1. log = z
    BY <1>1
  <2> HIDE DEF z
  <2> QED  BY <1>1, <1>2, <2>1, LogMaxAssumption DEF LogOK
<1>4. TextsOK
  <2>1. rev = 0
    BY <1>1 DEF rev
  <2>2. Len(texts) = 1 /\ DOMAIN texts = 1..1 /\ texts[1] = text /\ texts \in Seq({text})
    BY <1>1
  <2>3. {texts[k] : k \in DOMAIN texts} = {text}
    BY <2>2
  <2> QED  BY <2>1, <2>2, <2>3 DEF TextsOK, IsSeq
<1>5. LanesOK
  <2>1. NoLane = [undo |-> z, redo |-> z]
    BY DEF NoLane
  <2> HIDE DEF z
  <2>2. NoLane \in Stacks /\ NoLane.undo = z /\ NoLane.redo = z
    BY <1>2, <2>1 DEF Stacks
  <2>3. lanes \in [Lanes \cup {Disk} -> Stacks] /\ \A l \in Lanes \cup {Disk} : lanes[l] = NoLane
    BY <1>1, <2>2
  <2>4. \A l : Runs(z, log, base, l)
    BY <1>2 DEF Runs
  <2> QED  BY <2>2, <2>3, <2>4 DEF LanesOK
<1> QED  BY <1>3, <1>4, <1>5 DEF Inv

LEMMA NextInv == Inv /\ [Next]_vars => Inv'
<1> SUFFICES ASSUME Inv, [Next]_vars PROVE Inv'
  OBVIOUS
<1>1. ASSUME NEW l \in Lanes, Apply(l) PROVE Inv'
  <2>1. PICK items \in Txns(plan.items), c \in BOOLEAN : CommitTxn(l, "edit", NoGroup, items, c)
    BY <1>1 DEF Apply
  <2>2. HasTop(l, "edit") /\ "edit" \in Kinds
    BY DEF HasTop, Kinds
  <2> QED  BY <2>1, <2>2, TxnKeeps
<1>2. ASSUME NEW l \in Lanes \cup {Disk}, Undo(l) PROVE Inv'
  <2>1. lanes[l].undo # <<>> /\ \E g, items : CommitTxn(l, "undo", g, items, FALSE)
    BY <1>2 DEF Undo
  <2>2. HasTop(l, "undo") /\ "undo" \in Kinds
    BY <2>1 DEF HasTop, Kinds
  <2> QED  BY <2>1, <2>2, TxnKeeps
<1>3. ASSUME NEW l \in Lanes \cup {Disk}, Redo(l) PROVE Inv'
  <2>1. lanes[l].redo # <<>> /\ \E g, items : CommitTxn(l, "redo", g, items, FALSE)
    BY <1>3 DEF Redo
  <2>2. HasTop(l, "redo") /\ "redo" \in Kinds
    BY <2>1 DEF HasTop, Kinds
  <2> QED  BY <2>1, <2>2, TxnKeeps
<1>4. CASE ReloadMinimal
  <2>1. \E items : CommitTxn(Disk, "reload", NoGroup, items, FALSE)
    BY <1>4 DEF ReloadMinimal
  <2>2. HasTop(Disk, "reload") /\ "reload" \in Kinds
    BY DEF HasTop, Kinds
  <2> QED  BY <2>1, <2>2, TxnKeeps
<1>5. CASE UNCHANGED vars
  BY <1>5 DEF vars, Inv, LogOK, TextsOK, LanesOK, IsSeq, Runs, rev
<1> QED  BY <1>1, <1>2, <1>3, <1>4, <1>5 DEF Next

\* What compose_inverse asserts of the group it is given, and history.rs promises
\* ("Undo reach is exactly the retained suffix"): for any lanes, any text and any
\* retention, however many entries the log has dropped, every group on an undo or
\* redo stack is a run of entries that are still retained and all of its own lane.
THEOREM UndoReach == Spec => []TypeOK
<1>1. Inv => TypeOK
  <2> SUFFICES ASSUME Inv PROVE TypeOK
    OBVIOUS
  <2>1. ASSUME NEW l \in DOMAIN lanes, NEW s \in {lanes[l].undo, lanes[l].redo}, NEW k \in DOMAIN s
        PROVE  /\ s[k].first > base /\ s[k].first <= s[k].last /\ s[k].last <= rev
               /\ \A r \in s[k].first..s[k].last : Entry(r).lane = l
    <3>1. l \in Lanes \cup {Disk}
      BY DEF Inv, LanesOK
    <3>2. Runs(s, log, base, l)
      BY <3>1 DEF Inv, LanesOK
    <3> QED  BY <3>2 DEF Runs, rev, Entry
  <2>2. /\ Len(log) <= LogMax /\ Len(texts) = rev + 1 /\ text = texts[rev + 1]
        /\ \A k \in DOMAIN log : log[k].rev = base + k
    BY DEF Inv, LogOK, TextsOK
  <2> QED  BY <2>1, <2>2 DEF TypeOK
<1> QED  BY <1>1, InitInv, NextInv, PTL DEF Spec
====
