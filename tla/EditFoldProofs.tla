----------------------------- MODULE EditFoldProofs -----------------------------
(***************************************************************************)
(* Proofs about EditFold, for every text, every plan of local and remote   *)
(* transactions, any number of items in each and any width of insertions:  *)
(* the mirror and the server never exchange the result of a transform, yet *)
(* agree on it.                                                            *)
(*                                                                         *)
(* The argument.  A transaction applies its items from right to left       *)
(* (Descent), so a remote step crosses it item by item, and both orders    *)
(* reach one text (Cross, the diamond).  Pending transactions stacked on   *)
(* one another are crossed one after the other (AcrossLemma), an entry's   *)
(* steps too (FoldLemma); and what the fold makes of the first of them is  *)
(* what the server's rebase makes of it.  World is the invariant that      *)
(* follows; one lemma per action preserves it.                             *)
(*                                                                         *)
(* Induction is over sets: the set of the naturals, or of the sequences,   *)
(* for which a fact holds (Induction, SeqInduction).                       *)
(***************************************************************************)
EXTENDS EditFold, TLAPS, SequenceTheorems, FiniteSetTheorems, NaturalsInduction

-----------------------------------------------------------------------------
(* Induction, and folds as functions of the set of positions folded so far *)

\* A set of naturals with 0 and every successor is all of them.
LEMMA Induction ==
  ASSUME NEW T \in SUBSET Nat, 0 \in T, \A n \in T : n + 1 \in T
  PROVE  T = Nat
<1> DEFINE Out == Nat \ T
<1> SUFFICES ASSUME Out # {} PROVE FALSE
  OBVIOUS
<1>1. PICK x \in Out : \A y \in Out : ~(<<y, x>> \in OpToRel(<, Nat))
  <2> HIDE DEF Out
  <2>1. Out \subseteq Nat
    BY DEF Out
  <2> QED BY <2>1, WFMin, NatLessThanWellFounded
<1>2. x \in Nat /\ x # 0 /\ x \notin T
  OBVIOUS
<1>3. x - 1 \in Nat /\ x - 1 < x /\ (x - 1) + 1 = x
  BY <1>2
<1>4. x - 1 \notin T
  BY <1>2, <1>3
<1>5. <<x - 1, x>> \in OpToRel(<, Nat)
  BY <1>2, <1>3 DEF OpToRel
<1> QED BY <1>1, <1>3, <1>4, <1>5

\* A set with <<>> and every append to its sequences holds every sequence.
LEMMA SeqInduction ==
  ASSUME NEW S, NEW Q, <<>> \in Q,
         \A s \in Seq(S), x \in S : s \in Q => Append(s, x) \in Q
  PROVE  \A s \in Seq(S) : s \in Q
<1> DEFINE T == {n \in Nat : \A s \in Seq(S) : Len(s) = n => s \in Q}
<1>1. 0 \in T
  BY EmptySeq
<1>2. ASSUME NEW n \in T PROVE n + 1 \in T
  <2> SUFFICES ASSUME NEW s \in Seq(S), Len(s) = n + 1 PROVE s \in Q
    OBVIOUS
  <2>1. s # <<>>
    BY EmptySeq
  <2>2. PICK r \in Seq(S), x \in S : s = Append(r, x)
    BY <2>1, SequenceEmptyOrAppend
  <2>3. Len(r) = n
    BY <2>2, AppendProperties
  <2> QED BY <2>2, <2>3
<1>3. T = Nat
  <2> HIDE DEF T
  <2>1. T \in SUBSET Nat BY DEF T
  <2> QED BY <1>1, <1>2, <2>1, Induction
<1> QED
  <2> SUFFICES ASSUME NEW s \in Seq(S) PROVE s \in Q
    OBVIOUS
  <2>1. Len(s) \in T
    BY <1>3, LenProperties
  <2> QED BY <2>1

\* What one round of each fold of the model does; the folds are told apart by a name.
Do(c, a, x) ==
  CASE c = "apply" -> ApplyStep(a, x)
    [] c = "ThroughFirst" -> (IF a = Overlap THEN Overlap ELSE TransformRaw(a, x, ThroughFirst))
    [] c = "SelfFirst" -> (IF a = Overlap THEN Overlap ELSE TransformRaw(a, x, SelfFirst))
    [] c = "sum" -> a + x
    [] c = "op" -> ThroughOp(a, x)
    [] c = "step" ->
         (IF a.failed THEN a
          ELSE Outcome(a, FoldLeft(ThroughOp, [x |-> x, ops |-> <<>>, failed |-> FALSE], a.ops)))

\* g folds q over every set of its first n positions, the last position last.
IsIter(g, c, b, q, n) ==
  g = [S \in SUBSET (1..n) |->
         IF S = {} THEN b ELSE Do(c, g[S \ {Max(S)}], q[Max(S)])]

\* The last position of a set.
LEMMA MaxOf ==
  ASSUME NEW n \in Nat, NEW S \in SUBSET (1..(n + 1)), n + 1 \in S
  PROVE  Max(S) = n + 1 /\ S \ {n + 1} \in SUBSET (1..n)
<1>1. \A y \in S : n + 1 >= y
  OBVIOUS
<1>2. \A x \in S : (\A y \in S : x >= y) => x = n + 1
  OBVIOUS
<1>3. Max(S) \in S /\ \A y \in S : Max(S) >= y
  BY <1>1 DEF Max
<1>4. Max(S) = n + 1
  BY <1>2, <1>3
<1> QED BY <1>4

\* Every fold has its function.
LEMMA IterExists ==
  ASSUME NEW c, NEW b, NEW q, NEW n \in Nat
  PROVE  \E g : IsIter(g, c, b, q, n)
<1> DEFINE T == {m \in Nat : \E g : IsIter(g, c, b, q, m)}
<1>1. 0 \in T
  <2> DEFINE g == [S \in {{}} |-> b]
  <2>1. SUBSET (1..0) = {{}}
    OBVIOUS
  <2>2. IsIter(g, c, b, q, 0)
    BY <2>1 DEF IsIter
  <2> QED BY <2>2
<1>2. ASSUME NEW m \in T PROVE m + 1 \in T
  <2>1. PICK g : IsIter(g, c, b, q, m)
    OBVIOUS
  <2> DEFINE h == [S \in SUBSET (1..(m + 1)) |->
                     IF m + 1 \in S THEN Do(c, g[S \ {m + 1}], q[m + 1]) ELSE g[S]]
  <2>2. ASSUME NEW S \in SUBSET (1..(m + 1))
        PROVE  h[S] = IF S = {} THEN b ELSE Do(c, h[S \ {Max(S)}], q[Max(S)])
    <3>1. CASE m + 1 \in S
      <4>1. Max(S) = m + 1 /\ S \ {m + 1} \in SUBSET (1..m) /\ m + 1 \notin S \ {m + 1}
        BY <3>1, MaxOf
      <4>2. S \ {m + 1} \in SUBSET (1..(m + 1))
        OBVIOUS
      <4>3. h[S \ {m + 1}] = g[S \ {m + 1}]
        BY <4>1, <4>2
      <4>4. h[S] = Do(c, g[S \ {m + 1}], q[m + 1])
        BY <3>1
      <4> QED BY <3>1, <4>1, <4>3, <4>4
    <3>2. CASE m + 1 \notin S
      <4>1. S \in SUBSET (1..m)
        BY <3>2
      <4>2. h[S] = g[S]
        BY <3>2
      <4>3. S \ {Max(S)} \in SUBSET (1..(m + 1)) /\ S \ {Max(S)} \in SUBSET (1..m) /\ m + 1 \notin S \ {Max(S)}
        BY <3>2, <4>1
      <4>4. h[S \ {Max(S)}] = g[S \ {Max(S)}]
        BY <4>3
      <4>5. g[S] = IF S = {} THEN b ELSE Do(c, g[S \ {Max(S)}], q[Max(S)])
        BY <2>1, <4>1 DEF IsIter
      <4> QED BY <4>2, <4>4, <4>5
    <3> QED BY <3>1, <3>2
  <2>3. IsIter(h, c, b, q, m + 1)
    <3> HIDE DEF h
    <3>1. DOMAIN h = SUBSET (1..(m + 1)) /\ h = [S \in DOMAIN h |-> h[S]]
      BY DEF h
    <3> QED BY <2>2, <3>1 DEF IsIter
  <2> QED BY <2>3
<1>3. T = Nat
  <2> HIDE DEF T
  <2>1. T \in SUBSET Nat BY DEF T
  <2> QED BY <1>1, <1>2, <2>1, Induction
<1> QED BY <1>3

\* Folds of two sequences agree on a common prefix.
LEMMA IterAgree ==
  ASSUME NEW c, NEW b, NEW q, NEW p, NEW g, NEW h, NEW n \in Nat, NEW k \in Nat,
         k <= n, IsIter(g, c, b, q, n), IsIter(h, c, b, p, k),
         \A i \in 1..k : p[i] = q[i]
  PROVE  \A S \in SUBSET (1..k) : g[S] = h[S]
<1> DEFINE T == {m \in Nat : m <= k => \A S \in SUBSET (1..m) : g[S] = h[S]}
<1>0. ASSUME NEW S \in SUBSET (1..k)
      PROVE /\ g[S] = IF S = {} THEN b ELSE Do(c, g[S \ {Max(S)}], q[Max(S)])
            /\ h[S] = IF S = {} THEN b ELSE Do(c, h[S \ {Max(S)}], p[Max(S)])
  <2>1. S \in SUBSET (1..n)
    OBVIOUS
  <2> QED BY <2>1 DEF IsIter
<1>1. 0 \in T
  <2>1. SUBSET (1..0) = {{}} /\ {} \in SUBSET (1..k)
    OBVIOUS
  <2> QED BY <2>1, <1>0
<1>2. ASSUME NEW m \in T PROVE m + 1 \in T
  <2>1. m \in Nat /\ (m <= k => \A S \in SUBSET (1..m) : g[S] = h[S])
    OBVIOUS
  <2> HIDE DEF T
  <2>2. ASSUME m + 1 <= k, NEW S \in SUBSET (1..(m + 1)) PROVE g[S] = h[S]
    <3>1. S \in SUBSET (1..k) /\ \A R \in SUBSET (1..m) : g[R] = h[R]
      BY <2>1, <2>2
    <3>2. CASE m + 1 \in S
      <4>1. Max(S) = m + 1 /\ S \ {m + 1} \in SUBSET (1..m) /\ S # {}
        BY <2>1, <3>2, MaxOf
      <4>2. g[S \ {m + 1}] = h[S \ {m + 1}] /\ p[m + 1] = q[m + 1]
        BY <2>1, <2>2, <3>1, <4>1
      <4>3. /\ g[S] = Do(c, g[S \ {Max(S)}], q[Max(S)])
            /\ h[S] = Do(c, h[S \ {Max(S)}], p[Max(S)])
        BY <1>0, <3>1, <4>1
      <4> QED BY <4>1, <4>2, <4>3
    <3>3. CASE m + 1 \notin S
      <4>1. S \in SUBSET (1..m)
        BY <2>1, <3>3
      <4> QED BY <3>1, <4>1
    <3> QED BY <3>2, <3>3
  <2>3. m + 1 \in Nat /\ (m + 1 <= k => \A S \in SUBSET (1..(m + 1)) : g[S] = h[S])
    BY <2>1, <2>2
  <2> QED BY <2>3 DEF T
<1>3. T = Nat
  <2> HIDE DEF T
  <2>1. T \in SUBSET Nat BY DEF T
  <2> QED BY <1>1, <1>2, <2>1, Induction
<1> QED BY <1>3

\* The fold of all of q.
Fold(c, b, q) == (CHOOSE g : IsIter(g, c, b, q, Len(q)))[1..Len(q)]

\* A fold is what any of its functions says.
LEMMA FoldIs ==
  ASSUME NEW c, NEW b, NEW q, Len(q) \in Nat, NEW g, IsIter(g, c, b, q, Len(q))
  PROVE  Fold(c, b, q) = g[1..Len(q)]
<1> DEFINE f == CHOOSE h : IsIter(h, c, b, q, Len(q))
<1>1. IsIter(f, c, b, q, Len(q))
  OBVIOUS
<1> HIDE DEF f
<1>2. 1..Len(q) \in SUBSET (1..Len(q)) /\ Len(q) <= Len(q) /\ \A i \in 1..Len(q) : q[i] = q[i]
  OBVIOUS
<1>3. f[1..Len(q)] = g[1..Len(q)]
  BY <1>1, <1>2, IterAgree
<1> QED BY <1>3 DEF Fold, f

\* Nothing to fold.
LEMMA FoldEmpty ==
  ASSUME NEW c, NEW b
  PROVE  Fold(c, b, <<>>) = b
<1>1. PICK g : IsIter(g, c, b, <<>>, 0)
  BY IterExists
<1>2. 1..0 = {} /\ Len(<<>>) = 0
  OBVIOUS
<1>3. g[{}] = b
  BY <1>1, <1>2 DEF IsIter
<1> QED BY <1>1, <1>2, <1>3, FoldIs

\* The last element is folded last.
LEMMA FoldAppend ==
  ASSUME NEW c, NEW b, NEW S, NEW s \in Seq(S), NEW x \in S
  PROVE  Fold(c, b, Append(s, x)) = Do(c, Fold(c, b, s), x)
<1> DEFINE n == Len(s)
           q == Append(s, x)
<1>1. n \in Nat /\ Len(q) = n + 1 /\ q[n + 1] = x /\ \A i \in 1..n : s[i] = q[i]
  BY AppendProperties, LenProperties
<1> HIDE DEF q
<1>2. PICK g : IsIter(g, c, b, q, n + 1)
  BY <1>1, IterExists
<1>3. PICK h : IsIter(h, c, b, s, n)
  BY <1>1, IterExists
<1> HIDE DEF n
<1>4. g[1..n] = h[1..n]
  <2>1. n + 1 \in Nat /\ n <= n + 1 /\ 1..n \in SUBSET (1..n)
    BY <1>1
  <2> QED BY <1>1, <1>2, <1>3, <2>1, IterAgree
<1>5. Max(1..(n + 1)) = n + 1 /\ (1..(n + 1)) \ {n + 1} = 1..n /\ 1..(n + 1) # {}
  <2>1. n + 1 \in 1..(n + 1) /\ (1..(n + 1)) \ {n + 1} = 1..n
    BY <1>1
  <2> QED BY <1>1, <2>1, MaxOf
<1>6. g[1..(n + 1)] = Do(c, g[1..n], x)
  <2>1. 1..(n + 1) \in SUBSET (1..(n + 1))
    OBVIOUS
  <2> QED BY <1>1, <1>2, <1>5, <2>1 DEF IsIter
<1>7. Fold(c, b, q) = g[1..(n + 1)]
  BY <1>1, <1>2, FoldIs
<1>8. Fold(c, b, s) = h[1..n]
  BY <1>1, <1>3, FoldIs DEF n
<1> QED BY <1>4, <1>6, <1>7, <1>8 DEF q

-----------------------------------------------------------------------------
(* The model's folds are such folds *)

\* ApplyAll is a fold.
LEMMA ApplyAllFold ==
  ASSUME NEW b, NEW S, NEW q \in Seq(S)
  PROVE  ApplyAll(b, q) = Fold("apply", b, q)
<1> DEFINE It(g) == g = [s \in SUBSET (DOMAIN q) |->
                           IF s = {} THEN b ELSE ApplyStep(g[s \ {Max(s)}], q[Max(s)])]
           it == CHOOSE g : It(g)
<1>1. DOMAIN q = 1..Len(q) /\ Len(q) \in Nat
  BY LenProperties
<1>2. \A a, x : Do("apply", a, x) = ApplyStep(a, x)
  BY DEF Do
<1>3. \A g : It(g) <=> IsIter(g, "apply", b, q, Len(q))
  BY <1>1, <1>2 DEF IsIter
<1>4. It(it)
  <2>1. \E g : It(g)
    <3> HIDE DEF It
    <3> QED BY <1>1, <1>3, IterExists
  <2> HIDE DEF It
  <2> QED BY <2>1
<1>5. ApplyAll(b, q) = it[DOMAIN q]
  BY DEF ApplyAll, FoldLeft, MapThenFoldSet
<1> HIDE DEF It, it
<1> QED BY <1>1, <1>3, <1>4, <1>5, FoldIs

\* transform_set is a fold, under either priority.
LEMMA TransformStepsFold ==
  ASSUME NEW r, NEW S, NEW q \in Seq(S), NEW prio \in {ThroughFirst, SelfFirst}
  PROVE  TransformSteps(r, q, prio) = Fold(prio, RangeOf(r), q)
<1> DEFINE Th(a, x) == IF a = Overlap THEN Overlap ELSE TransformRaw(a, x, prio)
           It(g) == g = [s \in SUBSET (DOMAIN q) |->
                           IF s = {} THEN RangeOf(r) ELSE Th(g[s \ {Max(s)}], q[Max(s)])]
           it == CHOOSE g : It(g)
<1>1. DOMAIN q = 1..Len(q) /\ Len(q) \in Nat
  BY LenProperties
<1>2. \A a, x : Do(prio, a, x) = Th(a, x)
  BY DEF Do, ThroughFirst, SelfFirst
<1>5. TransformSteps(r, q, prio) = it[DOMAIN q]
  BY DEF TransformSteps, FoldLeft, MapThenFoldSet
<1> HIDE DEF Th
<1>3. \A g : It(g) <=> IsIter(g, prio, RangeOf(r), q, Len(q))
  BY <1>1, <1>2 DEF IsIter
<1>4. It(it)
  <2>1. \E g : It(g)
    <3> HIDE DEF It
    <3> QED BY <1>1, <1>3, IterExists
  <2> HIDE DEF It
  <2> QED BY <2>1
<1> HIDE DEF It, it
<1> QED BY <1>1, <1>3, <1>4, <1>5, FoldIs

\* The pending transactions are passed by a fold.
LEMMA OpFold ==
  ASSUME NEW b, NEW S, NEW q \in Seq(S)
  PROVE  FoldLeft(ThroughOp, b, q) = Fold("op", b, q)
<1> DEFINE It(g) == g = [s \in SUBSET (DOMAIN q) |->
                           IF s = {} THEN b ELSE ThroughOp(g[s \ {Max(s)}], q[Max(s)])]
           it == CHOOSE g : It(g)
<1>1. DOMAIN q = 1..Len(q) /\ Len(q) \in Nat
  BY LenProperties
<1>2. \A a, x : Do("op", a, x) = ThroughOp(a, x)
  BY DEF Do
<1>3. \A g : It(g) <=> IsIter(g, "op", b, q, Len(q))
  BY <1>1, <1>2 DEF IsIter
<1>4. It(it)
  <2>1. \E g : It(g)
    <3> HIDE DEF It
    <3> QED BY <1>1, <1>3, IterExists
  <2> HIDE DEF It
  <2> QED BY <2>1
<1>5. FoldLeft(ThroughOp, b, q) = it[DOMAIN q]
  BY DEF FoldLeft, MapThenFoldSet
<1> HIDE DEF It, it
<1> QED BY <1>1, <1>3, <1>4, <1>5, FoldIs

\* One remote step through all pending transactions.
Across(x, os) == FoldLeft(ThroughOp, [x |-> x, ops |-> <<>>, failed |-> FALSE], os)

\* One round of FoldSteps.
Folded(b, x) == IF b.failed THEN b ELSE Outcome(b, Across(x, b.ops))

\* FoldSteps is a fold.
LEMMA FoldStepsFold ==
  ASSUME NEW os, NEW S, NEW q \in Seq(S)
  PROVE  FoldSteps(os, q) = Fold("step", [ops |-> os, out |-> <<>>, failed |-> FALSE], q)
<1> DEFINE b == [ops |-> os, out |-> <<>>, failed |-> FALSE]
           It(g) == g = [s \in SUBSET (DOMAIN q) |->
                           IF s = {} THEN b ELSE Folded(g[s \ {Max(s)}], q[Max(s)])]
           it == CHOOSE g : It(g)
<1>1. DOMAIN q = 1..Len(q) /\ Len(q) \in Nat
  BY LenProperties
<1>2. \A a, x : Do("step", a, x) = Folded(a, x)
  BY DEF Do, Folded, Across
<1>5. FoldSteps(os, q) = it[DOMAIN q]
  BY DEF FoldSteps, FoldLeft, MapThenFoldSet, Folded, Across
<1> HIDE DEF b
<1>3. \A g : It(g) <=> IsIter(g, "step", b, q, Len(q))
  BY <1>1, <1>2 DEF IsIter
<1>4. It(it)
  <2>1. \E g : It(g)
    <3> HIDE DEF It
    <3> QED BY <1>1, <1>3, IterExists
  <2> HIDE DEF It
  <2> QED BY <2>1
<1>6. FoldSteps(os, q) = Fold("step", b, q)
  <2> HIDE DEF It, it
  <2> QED BY <1>1, <1>3, <1>4, <1>5, FoldIs
<1> QED BY <1>6 DEF b

\* No step leaves the text as it is.
LEMMA ApplyAllEmpty ==
  ASSUME NEW t
  PROVE  ApplyAll(t, <<>>) = t
<1>1. <<>> \in Seq({})
  BY EmptySeq
<1> QED BY <1>1, ApplyAllFold, FoldEmpty

\* A further step is applied last.
LEMMA ApplyAllAppend ==
  ASSUME NEW t, NEW S, NEW q \in Seq(S), NEW x \in S
  PROVE  ApplyAll(t, Append(q, x)) = ApplyStep(ApplyAll(t, q), x)
<1>1. Append(q, x) \in Seq(S)
  BY AppendProperties
<1>2. ApplyAll(t, Append(q, x)) = Fold("apply", t, Append(q, x))
  BY <1>1, ApplyAllFold
<1>3. ApplyAll(t, q) = Fold("apply", t, q)
  BY ApplyAllFold
<1>4. \A a : Do("apply", a, x) = ApplyStep(a, x)
  BY DEF Do
<1> QED BY <1>2, <1>3, <1>4, FoldAppend

\* Through no step a range stays.
LEMMA TransformEmpty ==
  ASSUME NEW r, NEW prio \in {ThroughFirst, SelfFirst}
  PROVE  TransformSteps(r, <<>>, prio) = RangeOf(r)
<1>1. <<>> \in Seq({})
  BY EmptySeq
<1>2. TransformSteps(r, <<>>, prio) = Fold(prio, RangeOf(r), <<>>)
  BY <1>1, TransformStepsFold
<1> QED BY <1>2, FoldEmpty

\* Through a further step the range moves last, unless it overlapped before.
LEMMA TransformAppend ==
  ASSUME NEW r, NEW prio \in {ThroughFirst, SelfFirst}, NEW S, NEW q \in Seq(S), NEW x \in S
  PROVE  TransformSteps(r, Append(q, x), prio) =
           IF TransformSteps(r, q, prio) = Overlap THEN Overlap
           ELSE TransformRaw(TransformSteps(r, q, prio), x, prio)
<1>1. Append(q, x) \in Seq(S)
  BY AppendProperties
<1>2. TransformSteps(r, Append(q, x), prio) = Fold(prio, RangeOf(r), Append(q, x))
  BY <1>1, TransformStepsFold
<1>3. TransformSteps(r, q, prio) = Fold(prio, RangeOf(r), q)
  BY TransformStepsFold
<1>4. \A a : Do(prio, a, x) = IF a = Overlap THEN Overlap ELSE TransformRaw(a, x, prio)
  BY DEF Do, ThroughFirst, SelfFirst
<1> QED BY <1>2, <1>3, <1>4, FoldAppend

\* With nothing pending a step stays.
LEMMA AcrossEmpty ==
  ASSUME NEW x
  PROVE  Across(x, <<>>) = [x |-> x, ops |-> <<>>, failed |-> FALSE]
<1> DEFINE b == [x |-> x, ops |-> <<>>, failed |-> FALSE]
<1>1. Across(x, <<>>) = FoldLeft(ThroughOp, b, <<>>)
  BY DEF Across
<1> HIDE DEF b
<1>2. <<>> \in Seq({})
  BY EmptySeq
<1>3. Across(x, <<>>) = b
  BY <1>1, <1>2, OpFold, FoldEmpty
<1> QED BY <1>3 DEF b

\* The transaction pending last is passed last.
LEMMA AcrossAppend ==
  ASSUME NEW x, NEW S, NEW q \in Seq(S), NEW o \in S
  PROVE  Across(x, Append(q, o)) = ThroughOp(Across(x, q), o)
<1> DEFINE b == [x |-> x, ops |-> <<>>, failed |-> FALSE]
<1>0. Across(x, q) = FoldLeft(ThroughOp, b, q) /\ Across(x, Append(q, o)) = FoldLeft(ThroughOp, b, Append(q, o))
  BY DEF Across
<1> HIDE DEF b
<1>1. Append(q, o) \in Seq(S)
  BY AppendProperties
<1>2. Across(x, Append(q, o)) = Fold("op", b, Append(q, o))
  BY <1>0, <1>1, OpFold
<1>3. Across(x, q) = Fold("op", b, q)
  BY <1>0, OpFold
<1>4. \A a : Do("op", a, o) = ThroughOp(a, o)
  BY DEF Do
<1> QED BY <1>2, <1>3, <1>4, FoldAppend

\* An entry without steps changes nothing.
LEMMA FoldStepsEmpty ==
  ASSUME NEW os
  PROVE  FoldSteps(os, <<>>) = [ops |-> os, out |-> <<>>, failed |-> FALSE]
<1>1. <<>> \in Seq({})
  BY EmptySeq
<1>2. FoldSteps(os, <<>>) = Fold("step", [ops |-> os, out |-> <<>>, failed |-> FALSE], <<>>)
  BY <1>1, FoldStepsFold
<1> QED BY <1>2, FoldEmpty

\* A further step of an entry is folded last.
LEMMA FoldStepsAppend ==
  ASSUME NEW os, NEW S, NEW q \in Seq(S), NEW x \in S
  PROVE  FoldSteps(os, Append(q, x)) = Folded(FoldSteps(os, q), x)
<1> DEFINE b == [ops |-> os, out |-> <<>>, failed |-> FALSE]
<1>1. Append(q, x) \in Seq(S)
  BY AppendProperties
<1>2. FoldSteps(os, Append(q, x)) = Fold("step", b, Append(q, x))
  BY <1>1, FoldStepsFold
<1>3. FoldSteps(os, q) = Fold("step", b, q)
  BY FoldStepsFold
<1> HIDE DEF b
<1>4. \A a : Do("step", a, x) = Folded(a, x)
  BY DEF Do, Folded, Across
<1> QED BY <1>2, <1>3, <1>4, FoldAppend

\* The addition that SumOfShifts folds.
Add(a, x) == a + x

\* The sum of a sequence, as SumOfShifts forms it.
SumOf(q) == FoldLeft(LAMBDA a, x : a + x, 0, q)

\* The sum is a fold.
LEMMA SumFold ==
  ASSUME NEW S, NEW q \in Seq(S)
  PROVE  SumOf(q) = Fold("sum", 0, q)
<1> DEFINE b == 0
           It(g) == g = [s \in SUBSET (DOMAIN q) |->
                           IF s = {} THEN b ELSE Add(g[s \ {Max(s)}], q[Max(s)])]
           it == CHOOSE g : It(g)
<1>1. DOMAIN q = 1..Len(q) /\ Len(q) \in Nat
  BY LenProperties
<1>2. \A a, x : Do("sum", a, x) = Add(a, x)
  BY DEF Do, Add
<1>5. SumOf(q) = it[DOMAIN q]
  BY DEF SumOf, FoldLeft, MapThenFoldSet, Add
<1> HIDE DEF b
<1>3. \A g : It(g) <=> IsIter(g, "sum", b, q, Len(q))
  BY <1>1, <1>2 DEF IsIter
<1>4. It(it)
  <2>1. \E g : It(g)
    <3> HIDE DEF It
    <3> QED BY <1>1, <1>3, IterExists
  <2> HIDE DEF It
  <2> QED BY <2>1
<1>6. SumOf(q) = Fold("sum", b, q)
  <2> HIDE DEF It, it
  <2> QED BY <1>1, <1>3, <1>4, <1>5, FoldIs
<1> QED BY <1>6 DEF b

\* g sums q over sets of positions.
IsSum(g, q, n) ==
  /\ g[{}] = 0
  /\ \A S \in SUBSET (1..n) :
       g[S] \in Int /\ \A a \in S : g[S] = g[S \ {a}] + q[a]

\* A sum over a set of positions does not depend on their order.
LEMMA SumRemove ==
  ASSUME NEW n \in Nat, NEW q \in [1..n -> Int], NEW g, NEW b, b = 0, IsIter(g, "sum", b, q, n)
  PROVE  /\ g[{}] = 0
         /\ \A S \in SUBSET (1..n) :
              g[S] \in Int /\ \A a \in S : g[S] = g[S \ {a}] + q[a]
<1> DEFINE P(S) == g[S] \in Int /\ \A a \in S : g[S] = g[S \ {a}] + q[a]
           T == {m \in Nat : m <= n => \A S \in SUBSET (1..m) : P(S)}
<1>0. ASSUME NEW S \in SUBSET (1..n)
      PROVE g[S] = IF S = {} THEN 0 ELSE g[S \ {Max(S)}] + q[Max(S)]
  <2>1. \A a, x : Do("sum", a, x) = a + x
    BY DEF Do
  <2> QED BY <2>1 DEF IsIter
<1>a. g[{}] = 0
  <2>1. {} \in SUBSET (1..n)
    OBVIOUS
  <2> QED BY <2>1, <1>0
<1>1. 0 \in T
  <2>1. \A S \in SUBSET (1..0) : S = {}
    OBVIOUS
  <2>2. P({})
    BY <1>a
  <2> HIDE DEF P
  <2> QED BY <2>1, <2>2
<1>2. ASSUME NEW m \in T PROVE m + 1 \in T
  <2> SUFFICES ASSUME m + 1 <= n PROVE \A S \in SUBSET (1..(m + 1)) : P(S)
    OBVIOUS
  <2> TAKE S \in SUBSET (1..(m + 1))
  <2>0. /\ S \in SUBSET (1..n) /\ m + 1 \in 1..n /\ m \in Nat
        /\ \A R \in SUBSET (1..m) : P(R)
    OBVIOUS
  <2>1. CASE m + 1 \in S
    <3>1. Max(S) = m + 1 /\ S \ {m + 1} \in SUBSET (1..m) /\ S # {}
      BY <2>1, MaxOf
    <3> DEFINE R == S \ {m + 1}
    <3>2. g[S] = g[R] + q[m + 1] /\ q[m + 1] \in Int
      BY <2>0, <1>0, <3>1
    <3>3. P(R)
      BY <2>0, <3>1
    <3>4. ASSUME NEW a \in S PROVE g[S] = g[S \ {a}] + q[a]
      <4>1. CASE a = m + 1
        BY <3>2, <4>1
      <4>2. CASE a # m + 1
        <5>1. a \in R /\ q[a] \in Int
          BY <4>2, <2>0
        <5>2. g[R] = g[R \ {a}] + q[a]
          BY <3>3, <5>1
        <5> DEFINE A == S \ {a}
        <5>3. A \in SUBSET (1..(m + 1)) /\ A \in SUBSET (1..n) /\ m + 1 \in A /\ A # {} /\ A \ {m + 1} = R \ {a}
          BY <4>2, <2>1, <2>0
        <5>4. Max(A) = m + 1
          BY <5>3, MaxOf
        <5>5. g[A] = g[A \ {m + 1}] + q[m + 1]
          BY <5>3, <5>4, <1>0
        <5>6. g[R \ {a}] \in Int
          <6>1. R \ {a} \in SUBSET (1..m)
            BY <3>1
          <6> QED BY <6>1, <2>0
        <5> HIDE DEF A, R
        <5>7. g[S] = (g[R \ {a}] + q[a]) + q[m + 1] /\ g[A] = g[R \ {a}] + q[m + 1]
          BY <3>2, <5>2, <5>3, <5>5
        <5>8. g[S] = g[A] + q[a]
          BY <5>7, <5>6, <5>1, <3>2
        <5> QED BY <5>8 DEF A
      <4> QED BY <4>1, <4>2
    <3>5. g[S] \in Int
      BY <3>2, <3>3
    <3> QED BY <3>4, <3>5
  <2>2. CASE m + 1 \notin S
    <3>1. S \in SUBSET (1..m)
      BY <2>2
    <3> QED BY <2>0, <3>1
  <2> QED BY <2>1, <2>2
<1>3. T = Nat
  <2> HIDE DEF T
  <2>1. T \in SUBSET Nat BY DEF T
  <2> QED BY <1>1, <1>2, <2>1, Induction
<1>4. \A S \in SUBSET (1..n) : P(S)
  <2> HIDE DEF P
  <2>1. n \in T
    BY <1>3
  <2> QED BY <2>1
<1> QED BY <1>4, <1>a

\* The same, under its name.
LEMMA SumIs ==
  ASSUME NEW n \in Nat, NEW q \in [1..n -> Int], NEW g, NEW b, b = 0, IsIter(g, "sum", b, q, n)
  PROVE  IsSum(g, q, n)
BY SumRemove DEF IsSum

-----------------------------------------------------------------------------
(* Folds over a concatenation, and FlattenSeq *)

\* An append after a concatenation.
LEMMA AppendConcat ==
  ASSUME NEW S, NEW p \in Seq(S), NEW q \in Seq(S), NEW x \in S
  PROVE  p \o Append(q, x) = Append(p \o q, x)
<1>1. Append(q, x) = q \o <<x>> /\ Append(p \o q, x) = (p \o q) \o <<x>>
  BY AppendIsConcat, ConcatProperties
<1>2. <<x>> \in Seq(S)
  OBVIOUS
<1> QED BY <1>1, <1>2, ConcatAssociative

\* Steps applied in two parts.
LEMMA ApplyAllConcat ==
  ASSUME NEW t, NEW S, NEW p \in Seq(S)
  PROVE  \A q \in Seq(S) : ApplyAll(t, p \o q) = ApplyAll(ApplyAll(t, p), q)
<1> DEFINE u == ApplyAll(t, p)
           Q == {q \in Seq(S) : ApplyAll(t, p \o q) = ApplyAll(u, q)}
<1> HIDE DEF u
<1>1. <<>> \in Q
  <2>1. p \o <<>> = p /\ <<>> \in Seq(S)
    BY ConcatEmptySeq
  <2> QED BY <2>1, ApplyAllEmpty DEF u
<1>2. ASSUME NEW q \in Seq(S), NEW x \in S, q \in Q PROVE Append(q, x) \in Q
  <2> DEFINE pq == p \o q
  <2>1. p \o Append(q, x) = Append(pq, x) /\ pq \in Seq(S) /\ Append(q, x) \in Seq(S)
    BY AppendConcat, ConcatProperties, AppendProperties
  <2>2. ApplyAll(t, pq) = ApplyAll(u, q)
    BY <1>2
  <2> HIDE DEF pq
  <2>3. ApplyAll(t, Append(pq, x)) = ApplyStep(ApplyAll(t, pq), x)
    BY <2>1, ApplyAllAppend
  <2>4. ApplyAll(u, Append(q, x)) = ApplyStep(ApplyAll(u, q), x)
    BY ApplyAllAppend
  <2> QED BY <2>1, <2>2, <2>3, <2>4
<1>3. \A q \in Seq(S) : q \in Q
  <2> HIDE DEF Q
  <2> QED BY <1>1, <1>2, SeqInduction
<1> QED BY <1>3 DEF u

\* RangeOf keeps a range.
LEMMA RangeOfRange ==
  ASSUME NEW r
  PROVE  RangeOf(RangeOf(r)) = RangeOf(r) /\ RangeOf(Overlap) = Overlap
BY DEF RangeOf, Overlap

\* What transform_set yields is a bare range.
LEMMA TransformIsRange ==
  ASSUME NEW r, NEW prio \in {ThroughFirst, SelfFirst}, NEW S, NEW p \in Seq(S)
  PROVE  RangeOf(TransformSteps(r, p, prio)) = TransformSteps(r, p, prio)
<1> DEFINE Q == {q \in Seq(S) : RangeOf(TransformSteps(r, q, prio)) = TransformSteps(r, q, prio)}
<1>1. <<>> \in Q
  BY TransformEmpty, RangeOfRange, EmptySeq
<1>2. ASSUME NEW q \in Seq(S), NEW x \in S, q \in Q PROVE Append(q, x) \in Q
  <2> DEFINE m == TransformSteps(r, q, prio)
             n == TransformSteps(r, Append(q, x), prio)
  <2>1. n = IF m = Overlap THEN Overlap ELSE TransformRaw(m, x, prio)
    BY TransformAppend
  <2>2. RangeOf(TransformRaw(m, x, prio)) = TransformRaw(m, x, prio)
    <3> HIDE DEF m
    <3> QED BY RangeOfRange DEF TransformRaw, Shifted, RangeOf
  <2> HIDE DEF m, n
  <2>3. RangeOf(n) = n
    BY <2>1, <2>2, RangeOfRange
  <2> QED BY <2>3, AppendProperties DEF n
<1>3. \A q \in Seq(S) : q \in Q
  <2> HIDE DEF Q
  <2> QED BY <1>1, <1>2, SeqInduction
<1> QED BY <1>3

\* A range moved through steps in two parts.
LEMMA TransformConcat ==
  ASSUME NEW r, NEW S, NEW p \in Seq(S), NEW prio \in {ThroughFirst, SelfFirst}
  PROVE  \A q \in Seq(S) :
           TransformSteps(r, p \o q, prio) = TransformSteps(TransformSteps(r, p, prio), q, prio)
<1> DEFINE m == TransformSteps(r, p, prio)
           Q == {q \in Seq(S) : TransformSteps(r, p \o q, prio) = TransformSteps(m, q, prio)}
<1> HIDE DEF m
<1>1. <<>> \in Q
  <2>1. p \o <<>> = p /\ <<>> \in Seq(S)
    BY ConcatEmptySeq
  <2>2. TransformSteps(m, <<>>, prio) = m
    BY TransformEmpty, TransformIsRange DEF m
  <2> QED BY <2>1, <2>2 DEF m
<1>2. ASSUME NEW q \in Seq(S), NEW x \in S, q \in Q PROVE Append(q, x) \in Q
  <2> DEFINE pq == p \o q
  <2>1. p \o Append(q, x) = Append(pq, x) /\ pq \in Seq(S) /\ Append(q, x) \in Seq(S)
    BY AppendConcat, ConcatProperties, AppendProperties
  <2>2. TransformSteps(r, pq, prio) = TransformSteps(m, q, prio)
    BY <1>2
  <2> HIDE DEF pq
  <2>3. TransformSteps(r, Append(pq, x), prio) =
          IF TransformSteps(r, pq, prio) = Overlap THEN Overlap
          ELSE TransformRaw(TransformSteps(r, pq, prio), x, prio)
    BY <2>1, TransformAppend
  <2>4. TransformSteps(m, Append(q, x), prio) =
          IF TransformSteps(m, q, prio) = Overlap THEN Overlap
          ELSE TransformRaw(TransformSteps(m, q, prio), x, prio)
    BY TransformAppend
  <2> QED BY <2>1, <2>2, <2>3, <2>4
<1>3. \A q \in Seq(S) : q \in Q
  <2> HIDE DEF Q
  <2> QED BY <1>1, <1>2, SeqInduction
<1> QED BY <1>3 DEF m

\* The concatenations of the first sequences of q.
IsFlat(f, q, n) == f = [i \in 1..n |-> IF i = 1 THEN q[i] ELSE f[i - 1] \o q[i]]

\* They exist.
LEMMA FlatExists ==
  ASSUME NEW q, NEW n \in Nat
  PROVE  \E f : IsFlat(f, q, n)
<1> DEFINE T == {m \in Nat : \E f : IsFlat(f, q, m)}
<1>1. 0 \in T
  <2> DEFINE f == [i \in {} |-> <<>>]
  <2>1. 1..0 = {}
    OBVIOUS
  <2>2. IsFlat(f, q, 0)
    BY <2>1 DEF IsFlat
  <2> QED BY <2>2
<1>2. ASSUME NEW m \in T PROVE m + 1 \in T
  <2>1. PICK f : IsFlat(f, q, m)
    OBVIOUS
  <2> DEFINE h == [i \in 1..(m + 1) |->
                     IF i = m + 1 THEN (IF i = 1 THEN q[i] ELSE f[m] \o q[i]) ELSE f[i]]
  <2>2. ASSUME NEW i \in 1..(m + 1)
        PROVE  h[i] = IF i = 1 THEN q[i] ELSE h[i - 1] \o q[i]
    <3>1. CASE i = m + 1
      <4>1. i # 1 => i - 1 = m /\ m \in 1..(m + 1) /\ m # m + 1
        BY <3>1
      <4> QED BY <3>1, <4>1
    <3>2. CASE i # m + 1
      <4>1. i \in 1..m /\ (i # 1 => i - 1 \in 1..(m + 1) /\ i - 1 # m + 1)
        BY <3>2
      <4>2. f[i] = IF i = 1 THEN q[i] ELSE f[i - 1] \o q[i]
        BY <2>1, <4>1 DEF IsFlat
      <4>3. h[i] = f[i] /\ (i # 1 => h[i - 1] = f[i - 1])
        BY <3>2, <4>1
      <4> QED BY <4>2, <4>3
    <3> QED BY <3>1, <3>2
  <2>3. IsFlat(h, q, m + 1)
    <3>1. DOMAIN h = 1..(m + 1) /\ h = [i \in DOMAIN h |-> h[i]]
      OBVIOUS
    <3> HIDE DEF h
    <3> QED BY <2>2, <3>1 DEF IsFlat
  <2> QED BY <2>3
<1>3. T = Nat
  <2> HIDE DEF T
  <2>1. T \in SUBSET Nat BY DEF T
  <2> QED BY <1>1, <1>2, <2>1, Induction
<1> QED BY <1>3

\* p and q agree on the first k positions.
Begins(p, q, k) == \A i \in 1..k : p[i] = q[i]

\* They agree for sequences with a common beginning.
LEMMA FlatAgree ==
  ASSUME NEW q, NEW p, NEW n \in Nat, NEW k \in Nat, k <= n, NEW f, NEW h,
         IsFlat(f, q, n), IsFlat(h, p, k), Begins(p, q, k)
  PROVE  Begins(f, h, k)
<1> USE DEF Begins
<1> DEFINE T == {m \in Nat : m \in 1..k => f[m] = h[m]}
<1>1. 0 \in T
  OBVIOUS
<1>2. ASSUME NEW m \in T PROVE m + 1 \in T
  <2> SUFFICES ASSUME m + 1 \in 1..k PROVE f[m + 1] = h[m + 1]
    OBVIOUS
  <2>1. f[m + 1] = IF m + 1 = 1 THEN q[m + 1] ELSE f[(m + 1) - 1] \o q[m + 1]
    <3>1. m + 1 \in 1..n
      OBVIOUS
    <3> QED BY <3>1 DEF IsFlat
  <2>2. h[m + 1] = IF m + 1 = 1 THEN p[m + 1] ELSE h[(m + 1) - 1] \o p[m + 1]
    BY DEF IsFlat
  <2>3. p[m + 1] = q[m + 1] /\ (m + 1) - 1 = m /\ (m + 1 # 1 => f[m] = h[m])
    OBVIOUS
  <2> QED BY <2>1, <2>2, <2>3
<1>3. T = Nat
  <2> HIDE DEF T
  <2>1. T \in SUBSET Nat BY DEF T
  <2> QED BY <1>1, <1>2, <2>1, Induction
<1> QED BY <1>3

\* FlattenSeq is the last of them.
LEMMA FlattenIs ==
  ASSUME NEW q, Len(q) \in Nat, Len(q) # 0, NEW f, IsFlat(f, q, Len(q))
  PROVE  FlattenSeq(q) = f[Len(q)]
<1> DEFINE It(g) == g = [i \in 1..Len(q) |-> IF i = 1 THEN q[i] ELSE g[i - 1] \o q[i]]
           it == CHOOSE g : It(g)
<1>1. FlattenSeq(q) = it[Len(q)]
  BY DEF FlattenSeq
<1>2. \A g : It(g) <=> IsFlat(g, q, Len(q))
  BY DEF IsFlat
<1> HIDE DEF It
<1>3. It(it)
  BY <1>2
<1> HIDE DEF it
<1>4. Len(q) <= Len(q) /\ Len(q) \in 1..Len(q) /\ Begins(q, q, Len(q))
  BY DEF Begins
<1>5. it[Len(q)] = f[Len(q)]
  <2>1. Begins(it, f, Len(q))
    BY <1>2, <1>3, <1>4, FlatAgree
  <2> QED BY <2>1, <1>4 DEF Begins
<1> QED BY <1>1, <1>5

\* Nothing to flatten.
LEMMA FlattenEmpty == FlattenSeq(<<>>) = <<>>
BY DEF FlattenSeq

\* The last sequence comes last.
LEMMA FlattenAppend ==
  ASSUME NEW S, NEW q \in Seq(Seq(S)), NEW s \in Seq(S)
  PROVE  FlattenSeq(Append(q, s)) = FlattenSeq(q) \o s
<1> DEFINE n == Len(q)
           p == Append(q, s)
<1>2. n \in Nat /\ n + 1 \in Nat /\ Len(p) = n + 1 /\ p[n + 1] = s /\ \A i \in 1..n : q[i] = p[i]
  BY AppendProperties, LenProperties
<1> HIDE DEF p, n
<1>3. PICK f : IsFlat(f, p, n + 1)
  BY <1>2, FlatExists
<1>4. FlattenSeq(p) = f[n + 1]
  BY <1>2, <1>3, FlattenIs
<1>5. f[n + 1] = IF n + 1 = 1 THEN p[n + 1] ELSE f[(n + 1) - 1] \o p[n + 1]
  <2>1. n + 1 \in 1..(n + 1)
    BY <1>2
  <2> QED BY <1>3, <2>1 DEF IsFlat
<1>6. CASE n = 0
  <2>1. q = <<>>
    BY <1>6, EmptySeq DEF n
  <2>2. FlattenSeq(q) = <<>>
    BY FlattenEmpty, <2>1
  <2>3. f[n + 1] = s
    BY <1>2, <1>5, <1>6
  <2>4. <<>> \o s = s
    BY ConcatEmptySeq
  <2> QED BY <1>4, <2>2, <2>3, <2>4 DEF p
<1>7. CASE n # 0
  <2>1. PICK h : IsFlat(h, q, n)
    BY <1>2, FlatExists
  <2>2. FlattenSeq(q) = h[n]
    BY <1>2, <1>7, <2>1, FlattenIs DEF n
  <2>3. f[n] = h[n]
    <3> DEFINE k == n + 1
    <3>1. k \in Nat /\ n <= k /\ n \in 1..n /\ IsFlat(f, p, k) /\ Begins(q, p, n)
      BY <1>2, <1>3, <1>7 DEF Begins
    <3> HIDE DEF k
    <3>2. Begins(f, h, n)
      BY <1>2, <2>1, <3>1, FlatAgree
    <3> QED BY <3>1, <3>2 DEF Begins
  <2>4. f[n + 1] = f[n] \o s
    BY <1>2, <1>5, <1>7
  <2> QED BY <1>4, <2>2, <2>3, <2>4 DEF p
<1> QED BY <1>6, <1>7

\* Flattened sequences hold the same elements.
LEMMA FlattenType ==
  ASSUME NEW S
  PROVE  \A q \in Seq(Seq(S)) : FlattenSeq(q) \in Seq(S)
<1> DEFINE Q == {q \in Seq(Seq(S)) : FlattenSeq(q) \in Seq(S)}
<1>1. <<>> \in Q
  BY FlattenEmpty, EmptySeq
<1>2. ASSUME NEW q \in Seq(Seq(S)), NEW s \in Seq(S), q \in Q PROVE Append(q, s) \in Q
  BY <1>2, FlattenAppend, ConcatProperties, AppendProperties
<1>3. \A q \in Seq(Seq(S)) : q \in Q
  <2> HIDE DEF Q
  <2> QED BY <1>1, <1>2, SeqInduction
<1> QED BY <1>3

-----------------------------------------------------------------------------
(* Texts: a replacement, and two replacements that do not meet *)

\* The text t with [s, e) replaced by ins.
Rep(t, s, e, ins) == Slice(t, 0, s) \o ins \o Slice(t, e, Len(t))

\* z is n characters of t, from offset a.
IsSlice(z, t, a, n) ==
  z \in Seq(Char) /\ Len(z) = n /\ \A i \in 1..n : z[i] = t[a + i]

\* z is a and then b.
IsCat(z, a, b, m, n) ==
  /\ z \in Seq(Char) /\ Len(z) = m + n
  /\ \A i \in 1..m : z[i] = a[i]
  /\ \A i \in 1..n : z[m + i] = b[i]

\* Character by character, what Rep yields.
IsRep(r, t, s, e, ins, L, B) ==
  /\ r \in Seq(Char) /\ Len(r) = (s + B) + (L - e)
  /\ \A i \in 1..s : r[i] = t[i]
  /\ \A i \in 1..B : r[s + i] = ins[i]
  /\ \A i \in 1..(L - e) : r[(s + B) + i] = t[e + i]

\* What a slice holds.
LEMMA SliceIs ==
  ASSUME NEW t \in Seq(Char), NEW a \in Nat, NEW b \in Nat, a <= b, b <= Len(t)
  PROVE  IsSlice(Slice(t, a, b), t, a, b - a)
<1>1. \A i \in (a + 1)..b : t[i] \in Char
  BY LenProperties, ElementOfSeq
<1>2. a + 1 \in Int /\ b \in Int
  OBVIOUS
<1>3. /\ SubSeq(t, a + 1, b) \in Seq(Char)
      /\ Len(SubSeq(t, a + 1, b)) = IF a + 1 <= b THEN b - (a + 1) + 1 ELSE 0
      /\ \A i \in 1..(b - (a + 1) + 1) : SubSeq(t, a + 1, b)[i] = t[(a + 1) + i - 1]
  BY <1>1, <1>2, SubSeqProperties
<1> DEFINE z == SubSeq(t, a + 1, b)
<1> HIDE DEF z
<1>4. z \in Seq(Char) /\ Len(z) = b - a
  BY <1>3 DEF z
<1>5. ASSUME NEW i \in 1..(b - a) PROVE z[i] = t[a + i]
  <2>1. i \in 1..(b - (a + 1) + 1) /\ (a + 1) + i - 1 = a + i
    OBVIOUS
  <2>2. z[i] = t[(a + 1) + i - 1]
    BY <1>3, <2>1 DEF z
  <2> QED BY <2>1, <2>2
<1>6. Slice(t, a, b) = z
  BY DEF Slice, z
<1> QED BY <1>4, <1>5, <1>6 DEF IsSlice

\* What a concatenation holds.
LEMMA CatIs ==
  ASSUME NEW a \in Seq(Char), NEW b \in Seq(Char), NEW m \in Nat, NEW n \in Nat,
         Len(a) = m, Len(b) = n
  PROVE  IsCat(a \o b, a, b, m, n)
<1> DEFINE z == a \o b
<1>1. z \in Seq(Char) /\ Len(z) = m + n
      /\ \A i \in 1..(m + n) : z[i] = IF i <= m THEN a[i] ELSE b[i - m]
  BY ConcatProperties
<1> HIDE DEF z
<1>2. ASSUME NEW i \in 1..m PROVE z[i] = a[i]
  <2>1. i \in 1..(m + n) /\ i <= m
    OBVIOUS
  <2> QED BY <1>1, <2>1
<1>3. ASSUME NEW i \in 1..n PROVE z[m + i] = b[i]
  <2>1. m + i \in 1..(m + n) /\ ~(m + i <= m) /\ (m + i) - m = i
    OBVIOUS
  <2> QED BY <1>1, <2>1
<1>4. IsCat(z, a, b, m, n)
  BY <1>1, <1>2, <1>3 DEF IsCat
<1> QED BY <1>4 DEF z

\* What a replacement yields.
LEMMA RepIs ==
  ASSUME NEW t \in Seq(Char), NEW s \in Nat, NEW e \in Nat, s <= e,
         NEW ins \in Seq(Char), NEW L \in Nat, NEW B \in Nat, Len(t) = L, Len(ins) = B, e <= L
  PROVE  IsRep(Rep(t, s, e, ins), t, s, e, ins, L, B)
<1> DEFINE a == Slice(t, 0, s)
           c == Slice(t, e, L)
           ab == a \o ins
           r == ab \o c
<1>0. 0 \in Nat /\ 0 <= s /\ s <= Len(t) /\ e <= L /\ L <= Len(t) /\ s - 0 = s /\ L - e \in Nat /\ s + B \in Nat
  OBVIOUS
<1>1. IsSlice(a, t, 0, s)
  <2>1. IsSlice(a, t, 0, s - 0)
    BY <1>0, SliceIs
  <2> QED BY <2>1, <1>0
<1>2. IsSlice(c, t, e, L - e)
  BY <1>0, SliceIs
<1>3. IsCat(ab, a, ins, s, B)
  BY <1>0, <1>1, CatIs DEF IsSlice
<1>4. IsCat(r, ab, c, s + B, L - e)
  <2>1. ab \in Seq(Char) /\ Len(ab) = s + B /\ c \in Seq(Char) /\ Len(c) = L - e
    BY <1>2, <1>3 DEF IsCat, IsSlice
  <2> HIDE DEF ab, c
  <2> QED BY <2>1, <1>0, CatIs
<1>5. Rep(t, s, e, ins) = r
  BY DEF Rep
<1> HIDE DEF a, c, ab, r
<1>6. ASSUME NEW i \in 1..s PROVE r[i] = t[i]
  <2>1. i \in 1..(s + B) /\ 0 + i = i
    OBVIOUS
  <2>2. r[i] = ab[i]
    BY <2>1, <1>4 DEF IsCat
  <2>3. ab[i] = a[i]
    BY <1>3 DEF IsCat
  <2>4. a[i] = t[0 + i]
    BY <1>1 DEF IsSlice
  <2> QED BY <2>1, <2>2, <2>3, <2>4
<1>7. ASSUME NEW i \in 1..B PROVE r[s + i] = ins[i]
  <2>1. s + i \in 1..(s + B)
    OBVIOUS
  <2>2. r[s + i] = ab[s + i]
    BY <2>1, <1>4 DEF IsCat
  <2>3. ab[s + i] = ins[i]
    BY <1>3 DEF IsCat
  <2> QED BY <2>2, <2>3
<1>8. ASSUME NEW i \in 1..(L - e) PROVE r[(s + B) + i] = t[e + i]
  <2>2. r[(s + B) + i] = c[i]
    BY <1>4 DEF IsCat
  <2>3. c[i] = t[e + i]
    BY <1>2 DEF IsSlice
  <2> QED BY <2>2, <2>3
<1>9. r \in Seq(Char) /\ Len(r) = (s + B) + (L - e)
  BY <1>4 DEF IsCat
<1>10. IsRep(r, t, s, e, ins, L, B)
  BY <1>6, <1>7, <1>8, <1>9 DEF IsRep
<1> QED BY <1>5, <1>10

\* Texts with the same characters are the same.
LEMMA SameText ==
  ASSUME NEW u \in Seq(Char), NEW v \in Seq(Char), NEW n \in Nat, Len(u) = n, Len(v) = n,
         \A i \in 1..n : u[i] = v[i]
  PROVE  u = v
BY SeqEqual

\* [s, e) and [f, g) of t, the first left of the second, with their insertions p and q;
\* d is what the first adds to the length.
Apart(t, L, s, e, p, P, f, g, q, Q, d) ==
  /\ t \in Seq(Char) /\ L \in Nat /\ Len(t) = L
  /\ s \in Nat /\ e \in Nat /\ p \in Seq(Char) /\ P \in Nat /\ Len(p) = P /\ s <= e
  /\ f \in Nat /\ g \in Nat /\ q \in Seq(Char) /\ Q \in Nat /\ Len(q) = Q /\ f <= g
  /\ e <= f /\ g <= L /\ d \in Int /\ d = P - (e - s)

\* Replacements of ranges that do not meet may change places.
LEMMA CommuteRep ==
  ASSUME NEW t, NEW L, NEW s, NEW e, NEW p, NEW P, NEW f, NEW g, NEW q, NEW Q, NEW d,
         Apart(t, L, s, e, p, P, f, g, q, Q, d)
  PROVE  Rep(Rep(t, s, e, p), f + d, g + d, q) = Rep(Rep(t, f, g, q), s, e, p)
<1> SUFFICES ASSUME t \in Seq(Char), L \in Nat, Len(t) = L,
                    s \in Nat, e \in Nat, p \in Seq(Char), P \in Nat, Len(p) = P, s <= e,
                    f \in Nat, g \in Nat, q \in Seq(Char), Q \in Nat, Len(q) = Q, f <= g,
                    e <= f, g <= L, d \in Int, d = P - (e - s)
             PROVE  Rep(Rep(t, s, e, p), f + d, g + d, q) = Rep(Rep(t, f, g, q), s, e, p)
  BY DEF Apart
<1> DEFINE tp == Rep(t, s, e, p)
           tq == Rep(t, f, g, q)
           F == f + d
           G == g + d
           M == L + d
           R == (f + Q) + (L - g)
           u == Rep(tp, F, G, q)
           v == Rep(tq, s, e, p)
<1>0. /\ F \in Nat /\ G \in Nat /\ M \in Nat /\ R \in Nat /\ F <= G /\ G <= M
      /\ (s + P) + (L - e) = M /\ e <= L /\ e <= R /\ M - G = L - g
  OBVIOUS
<1>1. IsRep(tp, t, s, e, p, L, P)
  BY <1>0, RepIs
<1>2. IsRep(tq, t, f, g, q, L, Q)
  BY <1>0, RepIs
<1> HIDE DEF tp, tq
<1>1a. tp \in Seq(Char) /\ Len(tp) = M
  BY <1>1, <1>0 DEF IsRep
<1>2a. tq \in Seq(Char) /\ Len(tq) = R
  BY <1>2, <1>0 DEF IsRep
<1>f. F = f + d /\ G = g + d /\ M = L + d /\ R = (f + Q) + (L - g)
  OBVIOUS
<1> HIDE DEF F, G, M, R
<1>3. IsRep(u, tp, F, G, q, M, Q)
  BY <1>0, <1>1a, RepIs
<1>4. IsRep(v, tq, s, e, p, R, P)
  BY <1>0, <1>2a, RepIs
<1> DEFINE N == (s + P) + (R - e)
<1> HIDE DEF u, v
<1>5. Len(u) = N /\ Len(v) = N /\ N \in Nat /\ u \in Seq(Char) /\ v \in Seq(Char)
  <2>1. Len(u) = (F + Q) + (M - G) /\ Len(v) = (s + P) + (R - e) /\ u \in Seq(Char) /\ v \in Seq(Char)
    BY <1>3, <1>4 DEF IsRep
  <2> QED BY <2>1, <1>0, <1>f
<1>6. ASSUME NEW i \in 1..N PROVE u[i] = v[i]
  <2>0. i \in Nat /\ i >= 1 /\ i <= (F + Q) + (M - G)
    BY <1>f, <1>0
  <2>1. CASE i <= s
    <3>1. i \in 1..F /\ i \in 1..s /\ i \in 1..f
      BY <2>1, <2>0, <1>f, <1>0
    <3>2. u[i] = tp[i]
      BY <3>1, <1>3 DEF IsRep
    <3>3. v[i] = tq[i]
      BY <3>1, <1>4 DEF IsRep
    <3>4. tp[i] = t[i]
      BY <3>1, <1>1 DEF IsRep
    <3>5. tq[i] = t[i]
      BY <3>1, <1>2 DEF IsRep
    <3> QED BY <3>2, <3>3, <3>4, <3>5
  <2>2. CASE i > s /\ i <= s + P
    <3> DEFINE j == i - s
    <3>1. j \in 1..P /\ i = s + j /\ i \in 1..F
      BY <2>2, <2>0, <1>f, <1>0
    <3> HIDE DEF j
    <3>2. u[i] = tp[i]
      BY <3>1, <1>3 DEF IsRep
    <3>3. v[i] = p[j]
      BY <3>1, <1>4 DEF IsRep
    <3>4. tp[i] = p[j]
      BY <3>1, <1>1 DEF IsRep
    <3> QED BY <3>2, <3>3, <3>4
  <2>3. CASE i > s + P /\ i <= F
    <3> DEFINE j == i - (s + P)
    <3>1. j \in 1..(L - e) /\ j \in 1..(R - e) /\ i = (s + P) + j /\ i \in 1..F /\ e + j \in 1..f
      BY <2>3, <2>0, <1>f, <1>0
    <3> HIDE DEF j
    <3>2. u[i] = tp[i]
      BY <3>1, <1>3 DEF IsRep
    <3>3. v[i] = tq[e + j]
      BY <3>1, <1>4 DEF IsRep
    <3>4. tp[i] = t[e + j]
      BY <3>1, <1>1 DEF IsRep
    <3>5. tq[e + j] = t[e + j]
      BY <3>1, <1>2 DEF IsRep
    <3> QED BY <3>2, <3>3, <3>4, <3>5
  <2>4. CASE i > F /\ i <= F + Q
    <3> DEFINE k == i - F
               j == i - (s + P)
    <3>1. k \in 1..Q /\ i = F + k /\ j \in 1..(R - e) /\ i = (s + P) + j /\ e + j = f + k
      BY <2>4, <2>0, <1>f, <1>0
    <3> HIDE DEF j, k
    <3>2. u[i] = q[k]
      BY <3>1, <1>3 DEF IsRep
    <3>3. v[i] = tq[e + j]
      BY <3>1, <1>4 DEF IsRep
    <3>4. tq[f + k] = q[k]
      BY <3>1, <1>2 DEF IsRep
    <3> QED BY <3>1, <3>2, <3>3, <3>4
  <2>5. CASE i > F + Q
    <3> DEFINE k == i - (F + Q)
               j == i - (s + P)
               m == (G + k) - (s + P)
    <3>1. /\ k \in 1..(M - G) /\ k \in 1..(L - g) /\ i = (F + Q) + k /\ j \in 1..(R - e) /\ i = (s + P) + j
          /\ e + j = (f + Q) + k /\ m \in 1..(L - e) /\ G + k = (s + P) + m /\ e + m = g + k
      BY <2>5, <2>0, <1>f, <1>0
    <3> HIDE DEF j, k, m
    <3>2. u[i] = tp[G + k]
      BY <3>1, <1>3 DEF IsRep
    <3>3. v[i] = tq[e + j]
      BY <3>1, <1>4 DEF IsRep
    <3>4. tq[(f + Q) + k] = t[g + k]
      BY <3>1, <1>2 DEF IsRep
    <3>5. tp[(s + P) + m] = t[e + m]
      BY <3>1, <1>1 DEF IsRep
    <3> QED BY <3>1, <3>2, <3>3, <3>4, <3>5
  <2>6. \/ i <= s \/ (i > s /\ i <= s + P) \/ (i > s + P /\ i <= F) \/ (i > F /\ i <= F + Q) \/ i > F + Q
    BY <2>0, <1>0
  <2> QED BY <2>6, <2>1, <2>2, <2>3, <2>4, <2>5
<1>7. u = v
  <2> HIDE DEF N
  <2> QED BY <1>5, <1>6, SameText
<1> QED BY <1>7 DEF u, v, tp, tq, F, G

-----------------------------------------------------------------------------
(* One step *)

\* x replaces a range of t.
Fits(x, t) ==
  /\ x.s \in Nat /\ x.e \in Nat /\ x.s <= x.e /\ x.e <= Len(t)
  /\ x.ins \in Seq(Char)

\* What x adds to the length of a text.
Grows(x) == Len(x.ins) - (x.e - x.s)

\* What a step that fits yields.
LEMMA StepIs ==
  ASSUME NEW t \in Seq(Char), NEW x, Fits(x, t)
  PROVE  /\ ApplyStep(t, x) = Rep(t, x.s, x.e, x.ins)
         /\ ApplyStep(t, x) \in Seq(Char)
         /\ Grows(x) \in Int
         /\ Len(ApplyStep(t, x)) = Len(t) + Grows(x)
         /\ IsRep(ApplyStep(t, x), t, x.s, x.e, x.ins, Len(t), Len(x.ins))
<1> DEFINE s == x.s
           e == x.e
           ins == x.ins
           B == Len(ins)
           L == Len(t)
           r == ApplyStep(t, x)
<1>1. r = Rep(t, s, e, ins)
  BY DEF ApplyStep, Rep
<1>2. s \in Nat /\ e \in Nat /\ s <= e /\ e <= L /\ ins \in Seq(Char) /\ L \in Nat /\ B \in Nat
  BY LenProperties DEF Fits
<1>3. Len(t) = L /\ Len(ins) = B /\ Grows(x) = B - (e - s)
  BY DEF Grows
<1> HIDE DEF s, e, ins, B, L, r
<1>4. IsRep(r, t, s, e, ins, L, B)
  BY <1>1, <1>2, <1>3, RepIs
<1>5. r \in Seq(Char) /\ Len(r) = (s + B) + (L - e)
  BY <1>4 DEF IsRep
<1>6. Grows(x) \in Int /\ Len(r) = L + Grows(x)
  BY <1>5, <1>2, <1>3
<1> QED BY <1>1, <1>4, <1>5, <1>6 DEF s, e, ins, B, L, r

\* Steps on ranges that do not meet may change places, the right one shifted.
LEMMA Commute ==
  ASSUME NEW t \in Seq(Char), NEW p, NEW q, NEW z, Fits(p, t), Fits(q, t), p.e <= q.s,
         z.s = q.s + Grows(p), z.e = q.e + Grows(p), z.ins = q.ins
  PROVE  /\ Fits(z, ApplyStep(t, p))
         /\ Fits(p, ApplyStep(t, q))
         /\ ApplyStep(ApplyStep(t, p), z) = ApplyStep(ApplyStep(t, q), p)
<1> DEFINE s == p.s
           e == p.e
           pi == p.ins
           P == Len(pi)
           f == q.s
           g == q.e
           qi == q.ins
           Q == Len(qi)
           L == Len(t)
           d == Grows(p)
           dq == Grows(q)
           tp == ApplyStep(t, p)
           tq == ApplyStep(t, q)
<1>1. /\ s \in Nat /\ e \in Nat /\ s <= e /\ e <= L /\ pi \in Seq(Char) /\ L \in Nat /\ P \in Nat
      /\ f \in Nat /\ g \in Nat /\ f <= g /\ g <= L /\ qi \in Seq(Char) /\ Q \in Nat /\ e <= f
  BY LenProperties DEF Fits
<1>2. Len(t) = L /\ Len(pi) = P /\ Len(qi) = Q /\ d = P - (e - s) /\ dq = Q - (g - f)
  BY DEF Grows
<1>3. tp = Rep(t, s, e, pi) /\ tq = Rep(t, f, g, qi)
  BY StepIs
<1>4. tp \in Seq(Char) /\ Len(tp) = L + d /\ tq \in Seq(Char) /\ Len(tq) = L + dq
  BY StepIs
<1>5. z.s = f + d /\ z.e = g + d /\ z.ins = qi
  OBVIOUS
<1>6. ApplyStep(tp, z) = Rep(tp, z.s, z.e, z.ins) /\ ApplyStep(tq, p) = Rep(tq, s, e, pi)
  BY DEF ApplyStep, Rep
<1>7. p.s = s /\ p.e = e /\ p.ins = pi
  OBVIOUS
<1> HIDE DEF s, e, pi, P, f, g, qi, Q, L, d, dq, tp, tq
<1>8. d \in Int /\ dq \in Int
  BY <1>1, <1>2
<1>9. Fits(z, tp)
  <2>1. f + d \in Nat /\ g + d \in Nat /\ f + d <= g + d /\ g + d <= L + d
    BY <1>1, <1>2, <1>8
  <2> QED BY <2>1, <1>1, <1>4, <1>5 DEF Fits
<1>10. Fits(p, tq)
  <2>1. e <= L + dq
    BY <1>1, <1>2, <1>8
  <2> QED BY <2>1, <1>1, <1>4, <1>7 DEF Fits
<1>11. Rep(Rep(t, s, e, pi), f + d, g + d, qi) = Rep(Rep(t, f, g, qi), s, e, pi)
  <2>1. Apart(t, L, s, e, pi, P, f, g, qi, Q, d)
    BY <1>1, <1>2, <1>8 DEF Apart
  <2> QED BY <2>1, CommuteRep
<1> QED BY <1>3, <1>5, <1>6, <1>9, <1>10, <1>11 DEF tp, tq

\* Putting back what a replacement removed restores the text.
LEMMA UndoRep ==
  ASSUME NEW t \in Seq(Char), NEW L \in Nat, Len(t) = L,
         NEW s \in Nat, NEW e \in Nat, NEW ins \in Seq(Char), NEW B \in Nat, Len(ins) = B,
         s <= e, e <= L
  PROVE  Rep(Rep(t, s, e, ins), s, s + B, Slice(t, s, e)) = t
<1> DEFINE z == Slice(t, s, e)
           r == Rep(t, s, e, ins)
           u == Rep(r, s, s + B, z)
           M == (s + B) + (L - e)
           D == e - s
           E == s + B
<1>0. M \in Nat /\ D \in Nat /\ E \in Nat /\ s <= E /\ E <= M
  OBVIOUS
<1>1. IsSlice(z, t, s, D)
  BY SliceIs
<1>2. IsRep(r, t, s, e, ins, L, B)
  BY RepIs
<1>3. IsRep(u, r, s, E, z, M, D)
  <2>1. r \in Seq(Char) /\ Len(r) = M /\ z \in Seq(Char) /\ Len(z) = D
    BY <1>1, <1>2 DEF IsRep, IsSlice
  <2>2. u = Rep(r, s, E, z)
    OBVIOUS
  <2> HIDE DEF r, z, M, D, E, u
  <2> QED BY <2>1, <2>2, <1>0, RepIs
<1>a. M = (s + B) + (L - e) /\ D = e - s /\ E = s + B /\ (s + D) + (M - E) = L
  OBVIOUS
<1> HIDE DEF r, z, u, M, D, E
<1>4. u \in Seq(Char) /\ Len(u) = L
  BY <1>3, <1>a DEF IsRep
<1>5. ASSUME NEW i \in 1..L PROVE u[i] = t[i]
  <2>1. CASE i <= s
    <3>1. i \in 1..s
      BY <2>1
    <3>2. u[i] = r[i]
      BY <3>1, <1>3 DEF IsRep
    <3>3. r[i] = t[i]
      BY <3>1, <1>2 DEF IsRep
    <3> QED BY <3>2, <3>3
  <2>2. CASE i > s /\ i <= e
    <3> DEFINE j == i - s
    <3>1. j \in 1..D /\ s + j = i
      BY <2>2, <1>a
    <3> HIDE DEF j
    <3>2. u[s + j] = z[j]
      BY <3>1, <1>3 DEF IsRep
    <3>3. z[j] = t[s + j]
      BY <3>1, <1>1 DEF IsSlice
    <3> QED BY <3>1, <3>2, <3>3
  <2>3. CASE i > e
    <3> DEFINE j == i - e
    <3>1. j \in 1..(M - E) /\ j \in 1..(L - e) /\ (s + D) + j = i /\ e + j = i /\ E + j = (s + B) + j
      BY <2>3, <1>a
    <3> HIDE DEF j
    <3>2. u[(s + D) + j] = r[E + j]
      BY <3>1, <1>3 DEF IsRep
    <3>3. r[(s + B) + j] = t[e + j]
      BY <3>1, <1>2 DEF IsRep
    <3> QED BY <3>1, <3>2, <3>3
  <2> QED BY <2>1, <2>2, <2>3
<1>6. u = t
  BY <1>4, <1>5, SameText
<1> QED BY <1>6 DEF u, r, z

\* Text outside a replaced range is found left where it was, right shifted.
LEMMA SliceMoves ==
  ASSUME NEW t \in Seq(Char), NEW L \in Nat, Len(t) = L,
         NEW s \in Nat, NEW e \in Nat, NEW ins \in Seq(Char), NEW B \in Nat, Len(ins) = B,
         s <= e, e <= L, NEW a \in Nat, NEW b \in Nat, a <= b, b <= L
  PROVE  /\ b <= s => Slice(Rep(t, s, e, ins), a, b) = Slice(t, a, b)
         /\ e <= a => Slice(Rep(t, s, e, ins), a + (B - (e - s)), b + (B - (e - s))) = Slice(t, a, b)
<1> DEFINE r == Rep(t, s, e, ins)
           M == (s + B) + (L - e)
           D == b - a
           z == Slice(t, a, b)
<1>0. M \in Nat /\ D \in Nat
  OBVIOUS
<1>1. IsSlice(z, t, a, D)
  BY SliceIs
<1>2. IsRep(r, t, s, e, ins, L, B)
  BY RepIs
<1>3. r \in Seq(Char) /\ Len(r) = M
  BY <1>2 DEF IsRep
<1>m. M = (s + B) + (L - e) /\ D = b - a
  OBVIOUS
<1> HIDE DEF r, M, D, z
<1>4. z \in Seq(Char) /\ Len(z) = D
  BY <1>1 DEF IsSlice
<1>5. ASSUME b <= s PROVE Slice(r, a, b) = z
  <2> DEFINE y == Slice(r, a, b)
  <2>1. IsSlice(y, r, a, b - a)
    <3>1. b <= Len(r)
      BY <1>3, <1>m, <1>5
    <3> QED BY <3>1, <1>3, SliceIs
  <2>2. y \in Seq(Char) /\ Len(y) = D
    BY <2>1, <1>m DEF IsSlice
  <2> HIDE DEF y
  <2>3. ASSUME NEW i \in 1..D PROVE y[i] = z[i]
    <3>1. i \in 1..(b - a) /\ a + i \in 1..s
      BY <1>m, <1>5
    <3>2. y[i] = r[a + i]
      BY <3>1, <2>1 DEF IsSlice
    <3>3. r[a + i] = t[a + i]
      BY <3>1, <1>2 DEF IsRep
    <3>4. z[i] = t[a + i]
      BY <1>1 DEF IsSlice
    <3> QED BY <3>2, <3>3, <3>4
  <2>4. y = z
    BY <1>0, <1>4, <2>2, <2>3, SameText
  <2> QED BY <2>4 DEF y
<1>6. ASSUME e <= a PROVE Slice(r, a + (B - (e - s)), b + (B - (e - s))) = z
  <2> DEFINE A == a + (B - (e - s))
             C == b + (B - (e - s))
             y == Slice(r, A, C)
  <2>0. A \in Nat /\ C \in Nat /\ A <= C /\ C <= M /\ C - A = D
    BY <1>6, <1>m
  <2>a. A = a + (B - (e - s))
    OBVIOUS
  <2> HIDE DEF A, C
  <2>1. IsSlice(y, r, A, D)
    <3>1. IsSlice(y, r, A, C - A)
      BY <2>0, <1>3, SliceIs
    <3> QED BY <3>1, <2>0
  <2>2. y \in Seq(Char) /\ Len(y) = D
    BY <2>1 DEF IsSlice
  <2> HIDE DEF y
  <2>3. ASSUME NEW i \in 1..D PROVE y[i] = z[i]
    <3> DEFINE j == (a - e) + i
    <3>1. j \in 1..(L - e) /\ A + i = (s + B) + j /\ a + i = e + j
      BY <1>m, <1>6, <2>a
    <3> HIDE DEF j
    <3>2. y[i] = r[A + i]
      BY <2>1 DEF IsSlice
    <3>3. r[(s + B) + j] = t[e + j]
      BY <3>1, <1>2 DEF IsRep
    <3>4. z[i] = t[a + i]
      BY <1>1 DEF IsSlice
    <3> QED BY <3>1, <3>2, <3>3, <3>4
  <2>4. y = z
    BY <1>0, <1>4, <2>2, <2>3, SameText
  <2> QED BY <2>4 DEF y, A, C
<1> QED BY <1>5, <1>6 DEF r, z

-----------------------------------------------------------------------------
(* The canonical order of a transaction exists and is unique *)

\* R is a strict total order of 1..n.
IsOrder(R, n) ==
  /\ \A a \in 1..n : <<a, a>> \notin R
  /\ \A a, b, c \in 1..n : <<a, b>> \in R /\ <<b, c>> \in R => <<a, c>> \in R
  /\ \A a, b \in 1..n : a # b => <<a, b>> \in R \/ <<b, a>> \in R

\* 1..n has n elements.
LEMMA Places ==
  ASSUME NEW n \in Nat
  PROVE  IsFiniteSet(1..n) /\ Cardinality(1..n) = n
<1>1. n = 0 \/ 1 <= n
  OBVIOUS
<1>2. 1 \in Int /\ n \in Int
  OBVIOUS
<1> QED BY <1>1, <1>2, FS_Interval

\* Different places for n items fill all n places.
LEMMA OntoPlaces ==
  ASSUME NEW n \in Nat, NEW f \in [1..n -> 1..n], \A a, b \in 1..n : f[a] = f[b] => a = b
  PROVE  \A k \in 1..n : \E a \in 1..n : f[a] = k
<1>1. f \in Injection(1..n, 1..n)
  BY DEF Injection, IsInjective
<1>2. IsFiniteSet(1..n)
  BY Places
<1>3. f \in Surjection(1..n, 1..n)
  <2> DEFINE S == 1..n
  <2> HIDE DEF S
  <2>1. f \in Injection(S, S) /\ IsFiniteSet(S)
    BY <1>1, <1>2 DEF S
  <2>2. f \in Surjection(S, S)
    BY <2>1, FS_Injection
  <2> QED BY <2>2 DEF S
<1> QED BY <1>3 DEF Surjection

\* Any strict total order of 1..n lists it.
LEMMA SortExists ==
  ASSUME NEW n \in Nat, NEW R, IsOrder(R, n)
  PROVE  \E p \in [1..n -> 1..n] : \A i, j \in 1..n : i < j => <<p[i], p[j]>> \in R
<1> DEFINE Pre(a) == {b \in 1..n : <<b, a>> \in R}
           r == [a \in 1..n |-> Cardinality(Pre(a)) + 1]
           p == [k \in 1..n |-> CHOOSE a \in 1..n : r[a] = k]
<1>0. ASSUME NEW a \in 1..n PROVE IsFiniteSet(Pre(a)) /\ Cardinality(Pre(a)) \in Nat /\ Cardinality(Pre(a)) < n
  <2> DEFINE S == 1..n
             T == Pre(a)
  <2>1. IsFiniteSet(S) /\ Cardinality(S) = n /\ T \in SUBSET S
    BY Places
  <2>2. S # T
    BY DEF IsOrder
  <2> HIDE DEF S, T
  <2>3. IsFiniteSet(T) /\ Cardinality(T) <= n /\ Cardinality(T) # n
    BY <2>1, <2>2, FS_Subset
  <2>4. Cardinality(T) \in Nat
    BY <2>3, FS_CardinalityType
  <2> QED BY <2>3, <2>4 DEF T
<1>1. r \in [1..n -> 1..n]
  <2> SUFFICES ASSUME NEW a \in 1..n PROVE Cardinality(Pre(a)) + 1 \in 1..n
    OBVIOUS
  <2> DEFINE c == Cardinality(Pre(a))
  <2>1. c \in Nat /\ c < n
    BY <1>0
  <2> HIDE DEF c
  <2>2. c + 1 \in 1..n
    BY <2>1
  <2> QED BY <2>2 DEF c
<1>2. ASSUME NEW a \in 1..n, NEW b \in 1..n, <<a, b>> \in R PROVE r[a] < r[b]
  <2> DEFINE A == Pre(a)
             B == Pre(b)
  <2>1. A \in SUBSET B /\ a \in B /\ a \notin A
    BY <1>2 DEF IsOrder
  <2>2. IsFiniteSet(B) /\ Cardinality(A) \in Nat /\ Cardinality(B) \in Nat
    BY <1>0
  <2>3. r[a] = Cardinality(A) + 1 /\ r[b] = Cardinality(B) + 1
    OBVIOUS
  <2> HIDE DEF A, B, r
  <2>4. Cardinality(A) <= Cardinality(B) /\ Cardinality(A) # Cardinality(B)
    BY <2>1, <2>2, FS_Subset
  <2> QED BY <2>2, <2>3, <2>4
<1> HIDE DEF r
<1>3. ASSUME NEW a \in 1..n, NEW b \in 1..n, r[a] = r[b] PROVE a = b
  <2>1. ~(r[a] < r[b]) /\ ~(r[b] < r[a])
    BY <1>1, <1>3
  <2>2. <<a, b>> \notin R /\ <<b, a>> \notin R
    BY <2>1, <1>2
  <2> QED BY <2>2 DEF IsOrder
<1>4. \A k \in 1..n : \E a \in 1..n : r[a] = k
  BY <1>1, <1>3, OntoPlaces
<1>5. \A k \in 1..n : p[k] \in 1..n /\ r[p[k]] = k
  BY <1>4
<1>6. p \in [1..n -> 1..n]
  BY <1>5
<1> HIDE DEF p
<1>7. ASSUME NEW i \in 1..n, NEW j \in 1..n, i < j PROVE <<p[i], p[j]>> \in R
  <2>1. p[i] \in 1..n /\ p[j] \in 1..n /\ r[p[i]] = i /\ r[p[j]] = j
    BY <1>5
  <2>2. p[i] # p[j] /\ ~(r[p[j]] < r[p[i]])
    BY <2>1, <1>7
  <2>3. <<p[j], p[i]>> \notin R
    BY <2>1, <2>2, <1>2
  <2> QED BY <2>1, <2>2, <2>3 DEF IsOrder
<1> QED BY <1>6, <1>7

\* Items with ranges, whatever else they hold.
Ranges(items, n) ==
  /\ DOMAIN items = 1..n
  /\ \A k \in 1..n : items[k].s \in Nat /\ items[k].e \in Nat /\ items[k].s <= items[k].e

\* canonical_cmp as a relation.
BeforeIn(items, n) == {ab \in (1..n) \X (1..n) : CanonicalBefore(items, ab[1], ab[2])}

\* canonical_cmp is a strict total order of the items.
LEMMA CanonicalIsOrder ==
  ASSUME NEW n \in Nat, NEW items, Ranges(items, n)
  PROVE  IsOrder(BeforeIn(items, n), n)
<1> DEFINE R == BeforeIn(items, n)
           st == [k \in 1..n |-> items[k].s]
           em == [k \in 1..n |-> IF IsEmpty(items[k]) THEN 1 ELSE 0]
<1>1. st \in [1..n -> Nat] /\ em \in [1..n -> {0, 1}]
  BY DEF Ranges
<1>2. \A a, b \in 1..n : <<a, b>> \in R <=>
        \/ st[a] > st[b]
        \/ st[a] = st[b] /\ (em[a] < em[b] \/ (em[a] = em[b] /\ a > b))
  BY DEF BeforeIn, CanonicalBefore
<1> HIDE DEF R, st, em
<1>3. \A a \in 1..n : <<a, a>> \notin R
  BY <1>1, <1>2
<1>4. ASSUME NEW a \in 1..n, NEW b \in 1..n, NEW c \in 1..n, <<a, b>> \in R, <<b, c>> \in R
      PROVE  <<a, c>> \in R
  <2>1. /\ st[a] \in Nat /\ st[b] \in Nat /\ st[c] \in Nat
        /\ em[a] \in Nat /\ em[b] \in Nat /\ em[c] \in Nat
    BY <1>1
  <2>2. /\ \/ st[a] > st[b]
           \/ st[a] = st[b] /\ (em[a] < em[b] \/ (em[a] = em[b] /\ a > b))
        /\ \/ st[b] > st[c]
           \/ st[b] = st[c] /\ (em[b] < em[c] \/ (em[b] = em[c] /\ b > c))
    BY <1>2, <1>4
  <2>3. \/ st[a] > st[c]
        \/ st[a] = st[c] /\ (em[a] < em[c] \/ (em[a] = em[c] /\ a > c))
    BY <2>1, <2>2
  <2> QED BY <2>3, <1>2
<1>5. ASSUME NEW a \in 1..n, NEW b \in 1..n, a # b
      PROVE  <<a, b>> \in R \/ <<b, a>> \in R
  <2>1. st[a] \in Nat /\ st[b] \in Nat /\ em[a] \in Nat /\ em[b] \in Nat
    BY <1>1
  <2>2. \/ \/ st[a] > st[b]
           \/ st[a] = st[b] /\ (em[a] < em[b] \/ (em[a] = em[b] /\ a > b))
        \/ \/ st[b] > st[a]
           \/ st[b] = st[a] /\ (em[b] < em[a] \/ (em[b] = em[a] /\ b > a))
    BY <2>1, <1>5
  <2> QED BY <2>2, <1>2
<1> QED BY <1>3, <1>4, <1>5 DEF IsOrder, R

\* C lists the items in canonical order.
ListsInOrder(C, items, n) ==
  /\ C \in [1..n -> 1..n]
  /\ \A i, j \in 1..n : i < j => CanonicalBefore(items, C[i], C[j])

\* Canonical lists every item once, in canonical order.
LEMMA CanonicalIs ==
  ASSUME NEW n \in Nat, NEW items, Ranges(items, n)
  PROVE  /\ ListsInOrder(Canonical(items), items, n)
         /\ \A i, j \in 1..n : Canonical(items)[i] = Canonical(items)[j] => i = j
         /\ \A k \in 1..n : \E i \in 1..n : Canonical(items)[i] = k
<1> DEFINE C == Canonical(items)
           R == BeforeIn(items, n)
<1>0. DOMAIN items = 1..n
  BY DEF Ranges
<1>r. IsOrder(R, n)
  BY CanonicalIsOrder
<1>1. PICK p \in [1..n -> 1..n] : \A i, j \in 1..n : i < j => <<p[i], p[j]>> \in R
  <2> HIDE DEF R
  <2> QED BY <1>r, SortExists
<1>2. \A i, j \in 1..n : i < j => CanonicalBefore(items, p[i], p[j])
  BY <1>1 DEF BeforeIn
<1>3. ListsInOrder(C, items, n)
  <2>1. C = CHOOSE order \in [1..n -> 1..n] :
              \A i, j \in 1..n : i < j => CanonicalBefore(items, order[i], order[j])
    BY <1>0 DEF Canonical
  <2> HIDE DEF C
  <2> QED BY <1>2, <2>1 DEF ListsInOrder
<1> HIDE DEF C
<1>4. ASSUME NEW i \in 1..n, NEW j \in 1..n, C[i] = C[j] PROVE i = j
  <2>1. C[i] \in 1..n /\ C[j] \in 1..n
    BY <1>3 DEF ListsInOrder
  <2>2. ~CanonicalBefore(items, C[i], C[i])
    BY <2>1, <1>r DEF IsOrder, BeforeIn
  <2>3. ~(i < j) /\ ~(j < i)
    BY <2>2, <1>3, <1>4 DEF ListsInOrder
  <2> QED BY <2>3
<1>5. \A k \in 1..n : \E i \in 1..n : C[i] = k
  BY <1>3, <1>4, OntoPlaces DEF ListsInOrder
<1> QED BY <1>3, <1>4, <1>5 DEF C

\* Items that compare alike are listed alike.
LEMMA SameCanonical ==
  ASSUME NEW n \in Nat, NEW items, NEW moved, DOMAIN items = 1..n, DOMAIN moved = 1..n,
         \A a, b \in 1..n : CanonicalBefore(items, a, b) <=> CanonicalBefore(moved, a, b)
  PROVE  Canonical(items) = Canonical(moved)
<1> DEFINE P(o) == \A i, j \in 1..n : i < j => CanonicalBefore(items, o[i], o[j])
           Q(o) == \A i, j \in 1..n : i < j => CanonicalBefore(moved, o[i], o[j])
<1>1. \A o \in [1..n -> 1..n] : P(o) <=> Q(o)
  OBVIOUS
<1>2. /\ Canonical(items) = CHOOSE o \in [1..n -> 1..n] : P(o)
      /\ Canonical(moved) = CHOOSE o \in [1..n -> 1..n] : Q(o)
  BY DEF Canonical
<1> HIDE DEF P, Q
<1>3. (CHOOSE o \in [1..n -> 1..n] : P(o)) = (CHOOSE o \in [1..n -> 1..n] : Q(o))
  BY <1>1
<1> QED BY <1>2, <1>3

-----------------------------------------------------------------------------
(* Two ranges and a step, in numbers *)

\* A range of some text.
IsRange(r) == r.s \in Nat /\ r.e \in Nat /\ r.s <= r.e

\* [s, e) goes to [s2, e2) through a step on [xs, xe) that adds d.
Moves(s, e, s2, e2, xs, xe, d) ==
  \/ xe <= s /\ s2 = s + d /\ e2 = e + d
  \/ ~(xe <= s) /\ e <= xs /\ s2 = s /\ e2 = e

\* A range that moves keeps its width.
LEMMA MoveOne ==
  ASSUME NEW xs \in Nat, NEW xe \in Nat, xs <= xe, NEW d \in Int, xs - xe <= d,
         NEW s \in Nat, NEW e \in Nat, s <= e, NEW s2, NEW e2, Moves(s, e, s2, e2, xs, xe, d)
  PROVE  s2 \in Nat /\ e2 \in Nat /\ s2 <= e2 /\ (s2 = e2 <=> s = e) /\ e2 - s2 = e - s
BY DEF Moves

\* CanonicalBefore for two ranges of items a and b, in numbers.
BeforeNum(s, e, t, f, a, b) ==
  s > t \/ (s = t /\ ((s # e /\ t = f) \/ ((s = e <=> t = f) /\ a > b)))

\* The overlap of HasOverlap for two ranges, in numbers.
OverNum(s, e, t, f) == s # e /\ t < e /\ (s < t \/ (s = t /\ t # f))

\* Two items in the order of their starts.
Listed(s, t, a, b) == (a <= b => s <= t) /\ (b <= a => t <= s)

\* Two items of a transaction, disjoint and in order, and where they move.
PairIn(xs, xe, d, s, e, s2, e2, t, f, t2, f2, a, b) ==
  /\ xs \in Nat /\ xe \in Nat /\ xs <= xe /\ d \in Int /\ xs - xe <= d
  /\ s \in Nat /\ e \in Nat /\ s <= e /\ s2 \in Nat /\ e2 \in Nat /\ Moves(s, e, s2, e2, xs, xe, d)
  /\ t \in Nat /\ f \in Nat /\ t <= f /\ t2 \in Nat /\ f2 \in Nat /\ Moves(t, f, t2, f2, xs, xe, d)
  /\ a \in Nat /\ b \in Nat /\ Listed(s, t, a, b)
  /\ ~OverNum(s, e, t, f) /\ ~OverNum(t, f, s, e)

\* Two disjoint items that pass a step stay disjoint and in order, and compare as before.
LEMMA MovePair ==
  ASSUME NEW xs, NEW xe, NEW d, NEW s, NEW e, NEW s2, NEW e2, NEW t, NEW f, NEW t2, NEW f2, NEW a, NEW b,
         PairIn(xs, xe, d, s, e, s2, e2, t, f, t2, f2, a, b)
  PROVE  /\ a < b => s2 <= t2
         /\ ~OverNum(s2, e2, t2, f2)
         /\ BeforeNum(s, e, t, f, a, b) <=> BeforeNum(s2, e2, t2, f2, a, b)
<1>0. /\ xs \in Nat /\ xe \in Nat /\ xs <= xe /\ d \in Int /\ xs - xe <= d
      /\ s \in Nat /\ e \in Nat /\ s <= e /\ s2 \in Nat /\ e2 \in Nat /\ Moves(s, e, s2, e2, xs, xe, d)
      /\ t \in Nat /\ f \in Nat /\ t <= f /\ t2 \in Nat /\ f2 \in Nat /\ Moves(t, f, t2, f2, xs, xe, d)
      /\ a \in Nat /\ b \in Nat /\ (a <= b => s <= t) /\ (b <= a => t <= s)
      /\ ~OverNum(s, e, t, f) /\ ~OverNum(t, f, s, e)
  BY DEF PairIn, Listed
<1> USE <1>0
<1>1. CASE xe <= s /\ xe <= t
  <2>1. s2 = s + d /\ e2 = e + d /\ t2 = t + d /\ f2 = f + d
    BY <1>1 DEF Moves
  <2> QED BY <2>1 DEF OverNum, BeforeNum
<1>2. CASE ~(xe <= s) /\ ~(xe <= t)
  <2>1. s2 = s /\ e2 = e /\ t2 = t /\ f2 = f
    BY <1>2 DEF Moves
  <2> QED BY <2>1 DEF OverNum, BeforeNum
<1>3. CASE xe <= s /\ ~(xe <= t)
  <2>1. s2 = s + d /\ e2 = e + d /\ t2 = t /\ f2 = f /\ f <= xs
    BY <1>3 DEF Moves
  <2>2. s > t /\ ~(a < b)
    BY <1>3
  <2>3. s2 >= xs /\ t <= f
    BY <1>3, <2>1
  <2>4. ~OverNum(s2, e2, t2, f2)
    BY <2>1, <2>3 DEF OverNum
  <2>5. BeforeNum(s, e, t, f, a, b)
    BY <2>2 DEF BeforeNum
  <2>6. BeforeNum(s2, e2, t2, f2, a, b)
    <3>1. CASE s2 > t2
      BY <3>1 DEF BeforeNum
    <3>2. CASE s2 = t2
      <4>1. t >= xs
        BY <3>2, <2>1, <2>3
      <4>2. t = f /\ t2 = f2
        BY <4>1, <2>1
      <4>3. a > b
        BY <2>2
      <4> QED BY <3>2, <4>2, <4>3 DEF BeforeNum
    <3> QED BY <3>1, <3>2, <2>1, <2>3
  <2> QED BY <2>2, <2>4, <2>5, <2>6
<1>4. CASE ~(xe <= s) /\ xe <= t
  <2>1. s2 = s /\ e2 = e /\ t2 = t + d /\ f2 = f + d /\ e <= xs
    BY <1>4 DEF Moves
  <2>2. s < t /\ ~(b < a)
    BY <1>4
  <2>3. t2 >= xs /\ s <= e
    BY <1>4, <2>1
  <2>4. ~OverNum(s2, e2, t2, f2)
    BY <2>1, <2>3 DEF OverNum
  <2>5. ~BeforeNum(s, e, t, f, a, b)
    BY <2>2 DEF BeforeNum
  <2>6. ~BeforeNum(s2, e2, t2, f2, a, b)
    BY <2>1, <2>2, <2>3 DEF BeforeNum
  <2> QED BY <2>1, <2>2, <2>3, <2>4, <2>5, <2>6
<1> QED BY <1>1, <1>2, <1>3, <1>4

\* A range and a step that do not overlap: the one moves, from the other's side the other.
LEMMA CrossOne ==
  ASSUME NEW y, NEW x, IsRange(y), IsRange(x), Len(y.ins) \in Nat, Len(x.ins) \in Nat,
         TransformRaw(y, x, ThroughFirst) # Overlap
  PROVE  \/ /\ x.e <= y.s
            /\ TransformRaw(y, x, ThroughFirst) = [s |-> y.s + Grows(x), e |-> y.e + Grows(x)]
            /\ TransformRaw(x, y, SelfFirst) = [s |-> x.s, e |-> x.e]
         \/ /\ ~(x.e <= y.s)
            /\ y.e <= x.s
            /\ TransformRaw(y, x, ThroughFirst) = [s |-> y.s, e |-> y.e]
            /\ TransformRaw(x, y, SelfFirst) = [s |-> x.s + Grows(y), e |-> x.e + Grows(y)]
<1> DEFINE xs == x.s
           xe == x.e
           ys == y.s
           ye == y.e
<1>0. xs \in Nat /\ xe \in Nat /\ xs <= xe /\ ys \in Nat /\ ye \in Nat /\ ys <= ye
  BY DEF IsRange
<1>1. LiesLeft(y, x, ThroughFirst) <=> xe < ys \/ (xe = ys /\ xs # xe) \/ (xs = xe /\ xs = ys)
  BY DEF LiesLeft, IsEmpty, ThroughFirst
<1>2. LiesRight(y, x, ThroughFirst) <=>
        xs > ye \/ (xs = ye /\ xs # xe) \/ (xs = xe /\ xs = ye /\ ys # ye)
  BY DEF LiesRight, IsEmpty, ThroughFirst, SelfFirst
<1>3. LiesLeft(x, y, SelfFirst) <=> ye < xs \/ (ye = xs /\ ys # ye) \/ (ys = ye /\ ys = xs /\ xs # xe)
  BY DEF LiesLeft, IsEmpty, ThroughFirst, SelfFirst
<1>4. LiesRight(x, y, SelfFirst) <=> ys > xe \/ (ys = xe /\ ys # ye) \/ (ys = ye /\ ys = xe)
  BY DEF LiesRight, IsEmpty, ThroughFirst, SelfFirst
<1>5. Shifted(y, x) = [s |-> ys + Grows(x), e |-> ye + Grows(x)] /\ Shifted(x, y) = [s |-> xs + Grows(y), e |-> xe + Grows(y)]
  BY DEF Shifted, Grows
<1>6. RangeOf(x) = [s |-> xs, e |-> xe] /\ RangeOf(y) = [s |-> ys, e |-> ye]
  BY DEF RangeOf
<1>7. LiesLeft(y, x, ThroughFirst) \/ LiesRight(y, x, ThroughFirst)
  BY DEF TransformRaw
<1>8. CASE LiesLeft(y, x, ThroughFirst)
  <2>0. xe <= ys /\ ~LiesRight(y, x, ThroughFirst)
    BY <1>0, <1>1, <1>2, <1>8
  <2>1. TransformRaw(y, x, ThroughFirst) = Shifted(y, x) /\ xe <= ys
    BY <2>0, <1>8 DEF TransformRaw
  <2>2. ~LiesLeft(x, y, SelfFirst) /\ LiesRight(x, y, SelfFirst)
    BY <1>0, <1>3, <1>4, <2>1
  <2>3. TransformRaw(x, y, SelfFirst) = RangeOf(x)
    BY <2>2 DEF TransformRaw
  <2> QED BY <2>1, <2>3, <1>5, <1>6
<1>9. CASE ~LiesLeft(y, x, ThroughFirst)
  <2>1. TransformRaw(y, x, ThroughFirst) = RangeOf(y)
    BY <1>7, <1>9 DEF TransformRaw
  <2>2. ~(xe <= ys) /\ ye <= xs
    BY <1>0, <1>1, <1>2, <1>7, <1>9
  <2>3. LiesLeft(x, y, SelfFirst) /\ ~LiesRight(x, y, SelfFirst)
    BY <1>0, <1>2, <1>3, <1>4, <1>7, <1>9
  <2>4. TransformRaw(x, y, SelfFirst) = Shifted(x, y)
    BY <2>3 DEF TransformRaw
  <2> QED BY <2>1, <2>2, <2>4, <1>5, <1>6
<1> QED BY <1>8, <1>9

-----------------------------------------------------------------------------
(* A transaction's steps descend, so each finds its text where the base has it *)

\* Edit: a replacement in the text that the steps before it leave.
Step == [s : Int, e : Int, ins : Seq(Char)]

\* The text after the first m steps.
Upto(t, y, m) == ApplyAll(t, SubSeq(y, 1, m))

\* A prefix of steps, and the next.
LEMMA PrefixAppend ==
  ASSUME NEW S, NEW y \in Seq(S), NEW n \in Nat, Len(y) = n, NEW m \in Nat, m < n
  PROVE  /\ SubSeq(y, 1, m) \in Seq(S)
         /\ y[m + 1] \in S
         /\ SubSeq(y, 1, m + 1) = Append(SubSeq(y, 1, m), y[m + 1])
         /\ SubSeq(y, 1, 0) = <<>>
         /\ SubSeq(y, 1, n) = y
<1>1. y \in [1..n -> S]
  BY LenProperties
<1>2. /\ SubSeq(y, 1, m) = [i \in 1..m |-> y[i]]
      /\ SubSeq(y, 1, m + 1) = [i \in 1..(m + 1) |-> y[i]]
      /\ SubSeq(y, 1, n) = [i \in 1..n |-> y[i]]
      /\ SubSeq(y, 1, 0) = [i \in 1..0 |-> y[i]]
  BY <1>1
<1>3. SubSeq(y, 1, m) \in Seq(S) /\ Len(SubSeq(y, 1, m)) = m /\ y[m + 1] \in S
  BY <1>1, <1>2
<1> QED BY <1>1, <1>2, <1>3

\* The text before the first and after the last step.
LEMMA UptoEnds ==
  ASSUME NEW t, NEW S, NEW y \in Seq(S), NEW n \in Nat, Len(y) = n
  PROVE  Upto(t, y, 0) = t /\ Upto(t, y, n) = ApplyAll(t, y)
<1>1. SubSeq(y, 1, 0) = <<>> /\ SubSeq(y, 1, n) = y
  OBVIOUS
<1> QED BY <1>1, ApplyAllEmpty DEF Upto

\* The text after one more step.
LEMMA UptoStep ==
  ASSUME NEW t, NEW S, NEW y \in Seq(S), NEW n \in Nat, Len(y) = n, NEW m \in Nat, m < n
  PROVE  Upto(t, y, m + 1) = ApplyStep(Upto(t, y, m), y[m + 1])
<1> DEFINE p == SubSeq(y, 1, m)
           x == y[m + 1]
<1>1. p \in Seq(S) /\ x \in S /\ SubSeq(y, 1, m + 1) = Append(p, x)
  BY PrefixAppend
<1> HIDE DEF p, x
<1>2. ApplyAll(t, Append(p, x)) = ApplyStep(ApplyAll(t, p), x)
  BY <1>1, ApplyAllAppend
<1> QED BY <1>1, <1>2 DEF Upto, p, x

\* Steps from right to left, none reaching into an earlier one.
Descends(y, n, t) ==
  /\ \A j \in 1..n : Fits(y[j], t)
  /\ \A i, j \in 1..n : i < j => y[j].e <= y[i].s

\* Texts that agree on their first k characters.
SameUpTo(u, t, k) == \A i \in 1..k : u[i] = t[i]

\* Descending steps find the text left of them untouched.
LEMMA Descent ==
  ASSUME NEW t \in Seq(Char), NEW y \in Seq(Step), NEW n \in Nat, Len(y) = n, Descends(y, n, t)
  PROVE  \A m \in 0..n : /\ Upto(t, y, m) \in Seq(Char)
                         /\ \A j \in (m + 1)..n : /\ Fits(y[j], Upto(t, y, m))
                                                  /\ SameUpTo(Upto(t, y, m), t, y[j].e)
<1> DEFINE u(m) == Upto(t, y, m)
           P(m) == u(m) \in Seq(Char) /\ \A j \in (m + 1)..n : Fits(y[j], u(m)) /\ SameUpTo(u(m), t, y[j].e)
           T == {m \in Nat : m <= n => P(m)}
<1>0. T \in SUBSET Nat
  OBVIOUS
<1>1. 0 \in T
  <2>1. u(0) = t
    BY UptoEnds
  <2>2. 0 + 1 = 1
    OBVIOUS
  <2> QED BY <2>1, <2>2 DEF Descends, SameUpTo
<1>2. ASSUME NEW m \in T PROVE m + 1 \in T
  <2>1. SUFFICES ASSUME m + 1 <= n PROVE P(m + 1)
    OBVIOUS
  <2>2. m \in Nat /\ m < n /\ m + 1 \in 1..n /\ m + 1 \in (m + 1)..n
    BY <2>1
  <2>3. P(m)
    BY <2>2
  <2>4. u(m + 1) = ApplyStep(u(m), y[m + 1])
    BY <2>2, UptoStep
  <2> DEFINE a == u(m)
             b == u(m + 1)
             x == y[m + 1]
             s == x.s
             e == x.e
             ins == x.ins
             L == Len(a)
             B == Len(ins)
  <2>5. a \in Seq(Char) /\ Fits(x, a)
    BY <2>2, <2>3
  <2>6. b \in Seq(Char) /\ IsRep(b, a, s, e, ins, L, B)
    BY <2>4, <2>5, StepIs
  <2>7. s \in Nat /\ e \in Nat /\ s <= e /\ e <= L /\ L \in Nat /\ B \in Nat
    BY <2>5, LenProperties DEF Fits
  <2>8. ASSUME NEW j \in (m + 1 + 1)..n PROVE Fits(y[j], b) /\ SameUpTo(b, t, y[j].e)
    <3>1. j \in 1..n /\ j \in (m + 1)..n /\ m + 1 < j
      BY <2>2
    <3> DEFINE z == y[j]
               k == z.e
    <3>2. k <= s
      BY <3>1, <2>2 DEF Descends
    <3>3. Fits(z, a) /\ SameUpTo(a, t, k)
      BY <3>1, <2>3
    <3>4. z.s \in Nat /\ k \in Nat /\ z.s <= k /\ z.ins \in Seq(Char)
      BY <3>3 DEF Fits
    <3>5. Len(b) = (s + B) + (L - e) /\ \A i \in 1..s : b[i] = a[i]
      BY <2>6 DEF IsRep
    <3> HIDE DEF a, b, s, e, ins, L, B, u
    <3>6. k <= Len(b)
      BY <3>2, <3>4, <3>5, <2>7
    <3>7. Fits(z, b)
      BY <3>4, <3>6 DEF Fits
    <3> HIDE DEF z, k
    <3>8. ASSUME NEW i \in 1..k PROVE b[i] = t[i]
      <4>1. i \in 1..s
        BY <3>2, <3>4, <2>7
      <4> QED BY <4>1, <3>3, <3>5 DEF SameUpTo
    <3>9. SameUpTo(b, t, k)
      BY <3>8 DEF SameUpTo
    <3> QED BY <3>7, <3>9 DEF z, k
  <2> QED BY <2>6, <2>8
<1> HIDE DEF T
<1>3. T = Nat
  BY <1>0, <1>1, <1>2, Induction
<1> QED BY <1>3 DEF T

-----------------------------------------------------------------------------
(* A step against a descending sequence *)

\* x with its range moved by d.
ShiftedBy(x, d) == [s |-> x.s + d, e |-> x.e + d, ins |-> x.ins]

\* The k-th steps y and y2 of a transaction before and after it crosses x; d and d2 are
\* what the steps up to y have shifted x by.
Passes(x, y, y2, d, d2) ==
  /\ y2.ins = y.ins
  /\ \/ /\ x.e <= y.s
        /\ y2.s = y.s + Grows(x) /\ y2.e = y.e + Grows(x) /\ d2 = d
     \/ /\ ~(x.e <= y.s)
        /\ y.e <= x.s /\ y2.s = y.s /\ y2.e = y.e /\ d2 = d + Grows(y)

\* x stays clear of the steps still to come.
Room(x, y, n, D, m) ==
  /\ (\A i \in 1..m : x.e <= y[i].s) => D[m] = 0
  /\ \A j \in (m + 1)..n : y[j].e <= x.s => y[j].e <= x.s + D[m]

\* It does so after each of them.
LEMMA RoomStep ==
  ASSUME NEW t \in Seq(Char), NEW x, Fits(x, t), NEW y \in Seq(Step), NEW y2 \in Seq(Step),
         NEW n \in Nat, Len(y) = n, Len(y2) = n, Descends(y, n, t),
         NEW D \in [0..n -> Int], D[0] = 0,
         \A k \in 1..n : Passes(x, y[k], y2[k], D[k - 1], D[k]),
         NEW m \in Nat, m < n, Room(x, y, n, D, m)
  PROVE  Room(x, y, n, D, m + 1)
<1> DEFINE k == m + 1
           a == y[k].s
           b == y[k].e
           B == Len(y[k].ins)
           xs == x.s
           xe == x.e
           d == D[m]
           d2 == D[k]
<1>1. k \in 1..n /\ k - 1 = m /\ k \in (m + 1)..n /\ m \in 0..n /\ k \in 0..n
  OBVIOUS
<1>2. Fits(y[k], t)
  BY <1>1 DEF Descends
<1>3. a \in Nat /\ b \in Nat /\ a <= b /\ B \in Nat /\ xs \in Nat /\ xe \in Nat /\ xs <= xe /\ d \in Int /\ d2 \in Int
  BY <1>1, <1>2, LenProperties DEF Fits
<1>4. Grows(y[k]) = B - (b - a)
  BY DEF Grows
<1>5. \/ xe <= a /\ d2 = d
      \/ ~(xe <= a) /\ b <= xs /\ d2 = d + (B - (b - a))
  <2>1. Passes(x, y[k], y2[k], D[k - 1], D[k])
    BY <1>1
  <2> QED BY <2>1, <1>1, <1>4 DEF Passes
<1>6. b <= xs => b <= xs + d
  BY <1>1 DEF Room
<1>7. ASSUME \A i \in 1..k : x.e <= y[i].s PROVE D[k] = 0
  <2>1. \A i \in 1..m : i \in 1..k
    OBVIOUS
  <2>2. d = 0
    BY <1>7, <2>1 DEF Room
  <2>3. xe <= a
    BY <1>7, <1>1
  <2> QED BY <2>2, <2>3, <1>5
<1>8. ASSUME NEW j \in (k + 1)..n, y[j].e <= x.s PROVE y[j].e <= x.s + D[k]
  <2> DEFINE c == y[j].e
  <2>1. j \in 1..n /\ k < j /\ j \in (m + 1)..n
    BY <1>1
  <2>2. c \in Nat /\ c <= a
    BY <2>1, <1>1 DEF Descends, Fits
  <2>3. c <= xs + d
    BY <1>8, <2>1 DEF Room
  <2> HIDE DEF c, a, b, B, xs, xe, d, d2
  <2>4. c <= xs + d2
    BY <2>2, <2>3, <1>3, <1>5, <1>6
  <2> QED BY <2>4 DEF c, xs, d2
<1> QED BY <1>7, <1>8 DEF Room

\* Steps are equal when their fields are.
LEMMA SameStep ==
  ASSUME NEW a \in Step, NEW b \in Step, a.s = b.s, a.e = b.e, a.ins = b.ins
  PROVE  a = b
BY DEF Step

\* One step of a transaction and x change places.
LEMMA CrossSeqStep ==
  ASSUME NEW u \in Seq(Char), NEW x, NEW y \in Step, NEW y2 \in Step, NEW d \in Int, NEW d2 \in Int,
         IsRange(x), x.ins \in Seq(Char),
         Fits(y, u), Fits(ShiftedBy(x, d), u), Passes(x, y, y2, d, d2),
         x.e <= y.s => d = 0, y.e <= x.s => y.e <= x.s + d
  PROVE  /\ Fits(ShiftedBy(x, d2), ApplyStep(u, y))
         /\ ApplyStep(ApplyStep(u, y), ShiftedBy(x, d2)) = ApplyStep(ApplyStep(u, ShiftedBy(x, d)), y2)
<1> DEFINE X == ShiftedBy(x, d)
           X2 == ShiftedBy(x, d2)
<1>0. x.s \in Nat /\ x.e \in Nat /\ Len(x.ins) \in Nat /\ Grows(y) \in Int
  BY StepIs, LenProperties DEF IsRange
<1>1. Grows(X) = Grows(x)
  BY <1>0 DEF Grows, ShiftedBy
<1>2. CASE x.e <= y.s
  <2>1. d = 0 /\ d2 = 0 /\ y2.ins = y.ins /\ y2.s = y.s + Grows(X) /\ y2.e = y.e + Grows(X)
    BY <1>0, <1>1, <1>2 DEF Passes
  <2>2. X.e <= y.s
    BY <2>1, <1>0, <1>2 DEF ShiftedBy
  <2>3. X2 = X
    BY <2>1
  <2> HIDE DEF X, X2
  <2>4. Fits(X, u)
    BY DEF X
  <2>5. Fits(X, ApplyStep(u, y)) /\ ApplyStep(ApplyStep(u, X), y2) = ApplyStep(ApplyStep(u, y), X)
    BY <2>1, <2>2, <2>4, Commute
  <2> QED BY <2>3, <2>5 DEF X, X2
<1>3. CASE ~(x.e <= y.s)
  <2>0. y.e <= x.s /\ d2 = d + Grows(y) /\ y2.s = y.s /\ y2.e = y.e /\ y2.ins = y.ins
    BY <1>3 DEF Passes
  <2>9. y2 = y
    BY <2>0, SameStep
  <2>8. y.e <= x.s + d
    BY <2>0
  <2>2. X.s = x.s + d /\ X.e = x.e + d /\ X2.s = x.s + d2 /\ X2.e = x.e + d2 /\ X2.ins = X.ins
    BY DEF ShiftedBy
  <2>3. y.e <= X.s /\ X2.s = X.s + Grows(y) /\ X2.e = X.e + Grows(y)
    BY <2>0, <2>8, <2>2, <1>0
  <2> HIDE DEF X, X2
  <2>4. Fits(X, u)
    BY DEF X
  <2>5. Fits(X2, ApplyStep(u, y)) /\ ApplyStep(ApplyStep(u, y), X2) = ApplyStep(ApplyStep(u, X), y)
    BY <2>2, <2>3, <2>4, Commute
  <2> QED BY <2>9, <2>5 DEF X, X2
<1> QED BY <1>2, <1>3

\* All of them, and x shifted by the sum.
LEMMA CrossSeq ==
  ASSUME NEW t \in Seq(Char), NEW x, Fits(x, t), NEW y \in Seq(Step), NEW y2 \in Seq(Step),
         NEW n \in Nat, Len(y) = n, Len(y2) = n, Descends(y, n, t),
         NEW D \in [0..n -> Int], D[0] = 0,
         \A k \in 1..n : Passes(x, y[k], y2[k], D[k - 1], D[k])
  PROVE  /\ ApplyAll(t, y) \in Seq(Char)
         /\ Fits(ShiftedBy(x, D[n]), ApplyAll(t, y))
         /\ ApplyStep(ApplyAll(t, y), ShiftedBy(x, D[n])) = ApplyAll(ApplyStep(t, x), y2)
<1> DEFINE u(m) == Upto(t, y, m)
           w(m) == Upto(ApplyStep(t, x), y2, m)
           X(m) == ShiftedBy(x, D[m])
           P(m) == Room(x, y, n, D, m) /\ Fits(X(m), u(m)) /\ ApplyStep(u(m), X(m)) = w(m)
           T == {m \in Nat : m <= n => P(m)}
<1>0. T \in SUBSET Nat
  OBVIOUS
<1>a. IsRange(x) /\ x.ins \in Seq(Char)
  BY DEF Fits, IsRange
<1>d. \A m \in 0..n : u(m) \in Seq(Char) /\ \A j \in (m + 1)..n : Fits(y[j], u(m))
  BY Descent
<1>1. 0 \in T
  <2>1. u(0) = t /\ w(0) = ApplyStep(t, x)
    BY UptoEnds
  <2>2. X(0).s = x.s /\ X(0).e = x.e /\ X(0).ins = x.ins
    BY <1>a DEF ShiftedBy, IsRange
  <2>3. Fits(X(0), t) /\ ApplyStep(t, X(0)) = ApplyStep(t, x)
    BY <2>2 DEF Fits, ApplyStep
  <2>4. Room(x, y, n, D, 0)
    BY <1>a DEF Room, IsRange
  <2> QED BY <2>1, <2>3, <2>4
<1>2. ASSUME NEW m \in T PROVE m + 1 \in T
  <2>1. SUFFICES ASSUME m + 1 <= n PROVE P(m + 1)
    OBVIOUS
  <2>2. m \in Nat /\ m < n /\ m + 1 \in 1..n /\ m + 1 \in (m + 1)..n /\ m \in 0..n /\ (m + 1) - 1 = m /\ m + 1 \in 0..n
    BY <2>1
  <2>3. P(m)
    BY <2>2
  <2>4. u(m + 1) = ApplyStep(u(m), y[m + 1]) /\ w(m + 1) = ApplyStep(w(m), y2[m + 1])
    BY <2>2, UptoStep
  <2>5. Room(x, y, n, D, m + 1)
    BY <2>2, <2>3, RoomStep
  <2> DEFINE a == y[m + 1]
             a2 == y2[m + 1]
             d == D[m]
             d2 == D[m + 1]
             U == u(m)
  <2>6. /\ a \in Step /\ a2 \in Step /\ d \in Int /\ d2 \in Int /\ Passes(x, a, a2, d, d2)
        /\ U \in Seq(Char) /\ Fits(a, U) /\ Fits(ShiftedBy(x, d), U)
    BY <2>2, <2>3, <1>d, LenProperties, ElementOfSeq
  <2>7. x.e <= a.s => d = 0
    <3> SUFFICES ASSUME x.e <= a.s PROVE \A i \in 1..m : x.e <= y[i].s
      BY <2>3 DEF Room
    <3> TAKE i \in 1..m
    <3>1. i \in 1..n /\ i < m + 1
      BY <2>2
    <3>2. a.e <= y[i].s /\ Fits(a, t) /\ Fits(y[i], t)
      BY <3>1, <2>2 DEF Descends
    <3>3. a.e \in Nat /\ a.s \in Nat /\ a.s <= a.e /\ y[i].s \in Nat /\ x.e \in Nat
      BY <3>2, <1>a DEF Fits, IsRange
    <3> HIDE DEF a
    <3> QED BY <3>2, <3>3
  <2>8. a.e <= x.s => a.e <= x.s + d
    BY <2>2, <2>3 DEF Room
  <2> HIDE DEF a, a2, d, d2, U
  <2>9. /\ Fits(ShiftedBy(x, d2), ApplyStep(U, a))
        /\ ApplyStep(ApplyStep(U, a), ShiftedBy(x, d2)) = ApplyStep(ApplyStep(U, ShiftedBy(x, d)), a2)
    BY <2>6, <2>7, <2>8, <1>a, CrossSeqStep
  <2> QED BY <2>3, <2>4, <2>5, <2>9 DEF a, a2, d, d2, U
<1> HIDE DEF T
<1>3. T = Nat
  BY <1>0, <1>1, <1>2, Induction
<1>4. P(n) /\ u(n) \in Seq(Char)
  <2>1. n \in 0..n /\ n <= n
    OBVIOUS
  <2>2. u(n) \in Seq(Char)
    BY <2>1, <1>d
  <2>3. n \in T
    BY <1>3
  <2>4. P(n)
    BY <2>1, <2>3 DEF T
  <2> QED BY <2>2, <2>4
<1>5. u(n) = ApplyAll(t, y) /\ w(n) = ApplyAll(ApplyStep(t, x), y2)
  BY UptoEnds
<1> QED BY <1>4, <1>5

-----------------------------------------------------------------------------
(* Tidy transactions and what txn_sequence makes of them *)

\* Items on t: fitting, listed by their starts, disjoint.
Tidy(items, n, t) ==
  /\ DOMAIN items = 1..n
  /\ \A k \in 1..n : Fits(items[k], t)
  /\ Ascending(items)
  /\ ~HasOverlap(items)

\* y is the items in the order C, as steps.
IsSequenceOf(y, C, items, n) ==
  /\ y \in Seq(Step) /\ Len(y) = n
  /\ \A k \in 1..n : /\ C[k] \in 1..n
                     /\ y[k].s = items[C[k]].s /\ y[k].e = items[C[k]].e /\ y[k].ins = items[C[k]].ins

\* Tidy items have ranges.
LEMMA TidyRanges ==
  ASSUME NEW t, NEW n \in Nat, NEW items, Tidy(items, n, t)
  PROVE  Ranges(items, n)
BY DEF Tidy, Ranges, Fits

\* txn_sequence yields the items in canonical order, as steps that descend.
LEMMA SequenceIs ==
  ASSUME NEW t \in Seq(Char), NEW n \in Nat, NEW items, Tidy(items, n, t)
  PROVE  /\ IsSequenceOf(TxnSequence(items), Canonical(items), items, n)
         /\ Descends(TxnSequence(items), n, t)
<1> DEFINE C == Canonical(items)
           y == TxnSequence(items)
<1>1. Ranges(items, n)
  BY TidyRanges
<1>2. C \in [1..n -> 1..n] /\ \A i, j \in 1..n : i < j => CanonicalBefore(items, C[i], C[j])
  BY <1>1, CanonicalIs DEF ListsInOrder
<1>3. y = [k \in 1..n |-> [s |-> items[C[k]].s, e |-> items[C[k]].e, ins |-> items[C[k]].ins]]
  BY <1>2 DEF TxnSequence, InOrder
<1> HIDE DEF C, y
<1>4. \A k \in 1..n : Fits(items[C[k]], t)
  BY <1>2 DEF Tidy
<1>5. \A k \in 1..n : items[C[k]].s \in Nat /\ items[C[k]].e \in Nat /\ items[C[k]].s <= items[C[k]].e /\ items[C[k]].ins \in Seq(Char)
  BY <1>4 DEF Fits
<1>6. \A k \in 1..n : /\ y[k] \in Step
                      /\ y[k].s = items[C[k]].s /\ y[k].e = items[C[k]].e /\ y[k].ins = items[C[k]].ins
  BY <1>3, <1>5 DEF Step
<1>7. y \in Seq(Step) /\ Len(y) = n
  BY <1>3, <1>6
<1>8. IsSequenceOf(y, C, items, n)
  BY <1>2, <1>6, <1>7 DEF IsSequenceOf
<1>9. ASSUME NEW j \in 1..n PROVE Fits(y[j], t)
  BY <1>4, <1>6 DEF Fits
<1>10. ASSUME NEW i \in 1..n, NEW j \in 1..n, i < j PROVE y[j].e <= y[i].s
  <2> DEFINE a == C[i]
             b == C[j]
  <2>1. a \in 1..n /\ b \in 1..n /\ CanonicalBefore(items, a, b)
    BY <1>2, <1>10
  <2>2. /\ items[a].s \in Nat /\ items[a].e \in Nat /\ items[a].s <= items[a].e
        /\ items[b].s \in Nat /\ items[b].e \in Nat /\ items[b].s <= items[b].e
    BY <1>5
  <2> HIDE DEF a, b
  <2>3. a \in DOMAIN items /\ b \in DOMAIN items /\ ~HasOverlap(items)
    BY <2>1 DEF Tidy
  <2>4. CASE items[a].s > items[b].s
    <3>1. a # b
      BY <2>4, <2>2
    <3>2. ~(~IsEmpty(items[b]) /\ items[a].s < items[b].e /\ items[b].s < items[a].s)
      BY <2>3, <3>1 DEF HasOverlap
    <3> QED BY <3>2, <2>2, <2>4, <1>6 DEF IsEmpty, a, b
  <2>5. CASE items[a].s = items[b].s /\ IsEmpty(items[b])
    BY <2>5, <2>2, <1>6 DEF IsEmpty, a, b
  <2>6. CASE items[a].s = items[b].s /\ ~IsEmpty(items[b])
    <3>1. ~IsEmpty(items[a]) /\ a > b
      BY <2>6, <2>1, <2>2 DEF CanonicalBefore, IsEmpty
    <3>2. a # b
      BY <3>1, <2>1
    <3>3. items[b].s < items[a].e
      BY <3>1, <2>2, <2>6 DEF IsEmpty
    <3> QED BY <3>1, <3>2, <3>3, <2>3, <2>6 DEF HasOverlap
  <2> QED BY <2>1, <2>4, <2>5, <2>6 DEF CanonicalBefore
<1> QED BY <1>8, <1>9, <1>10 DEF Descends, C, y

\* SumOfShifts in terms of SumOf.
LEMMA SumShiftsIs ==
  ASSUME NEW r, NEW at
  PROVE  SumOfShifts(r, at) =
           LET s == r.s + SumOf([k \in DOMAIN at |-> at[k].s - r.s])
               e == r.e + SumOf([k \in DOMAIN at |-> at[k].e - r.e])
           IN IF Overlap \in {at[k] : k \in DOMAIN at} \/ s < 0 \/ e < s
              THEN Overlap ELSE [s |-> s, e |-> e]
BY DEF SumOfShifts, SumOf, FoldLeft, MapThenFoldSet

\* A sum of one number.
LEMMA SumOne ==
  ASSUME NEW v \in Int
  PROVE  SumOf([k \in 1..1 |-> v]) = v
<1>1. [k \in 1..1 |-> v] = Append(<<>>, v)
  OBVIOUS
<1>2. <<>> \in Seq(Int) /\ Append(<<>>, v) \in Seq(Int)
  OBVIOUS
<1> DEFINE b == 0
<1>3. SumOf(Append(<<>>, v)) = Fold("sum", b, Append(<<>>, v))
  BY <1>2, SumFold
<1>7. b + v = v
  OBVIOUS
<1> HIDE DEF b
<1> DEFINE s0 == <<>>
<1>8. s0 \in Seq(Int)
  BY <1>2
<1>4. Fold("sum", b, Append(<<>>, v)) = Do("sum", Fold("sum", b, <<>>), v)
  <2> HIDE DEF s0
  <2>1. Fold("sum", b, Append(s0, v)) = Do("sum", Fold("sum", b, s0), v)
    BY <1>8, FoldAppend
  <2> QED BY <2>1 DEF s0
<1>5. Fold("sum", b, <<>>) = b
  BY FoldEmpty
<1>6. Do("sum", b, v) = b + v
  BY DEF Do
<1> QED BY <1>1, <1>3, <1>4, <1>5, <1>6, <1>7

\* transform_through_set through one step is transform_raw.
LEMMA ThroughOne ==
  ASSUME NEW y, NEW x, IsRange(y), IsRange(x), Len(y.ins) \in Nat, Len(x.ins) \in Nat
  PROVE  ThroughSet(y, <<x>>, ThroughFirst) = TransformRaw(y, x, ThroughFirst)
<1> DEFINE r == TransformRaw(y, x, ThroughFirst)
           at == [k \in 1..1 |-> r]
<1>1. ThroughSet(y, <<x>>, ThroughFirst) = SumOfShifts(y, at)
  BY DEF ThroughSet
<1>2. y.s \in Nat /\ y.e \in Nat /\ x.s \in Nat /\ x.e \in Nat /\ x.s <= x.e /\ y.s <= y.e
  BY DEF IsRange
<1>3. CASE r = Overlap
  <2> HIDE DEF r
  <2>1. DOMAIN at = 1..1 /\ at[1] = Overlap /\ 1 \in 1..1
    BY <1>3
  <2>2. Overlap \in {at[k] : k \in DOMAIN at}
    BY <2>1
  <2> QED BY <1>1, <1>3, <2>2, SumShiftsIs DEF r
<1>4. CASE r # Overlap
  <2>1. r.s \in Nat /\ r.e \in Nat /\ r.s <= r.e /\ r = [s |-> r.s, e |-> r.e]
    <3>1. \/ x.e <= y.s /\ r = [s |-> y.s + Grows(x), e |-> y.e + Grows(x)]
          \/ r = [s |-> y.s, e |-> y.e]
      BY <1>4, CrossOne
    <3>2. Grows(x) = Len(x.ins) - (x.e - x.s)
      BY DEF Grows
    <3> HIDE DEF r
    <3>3. CASE x.e <= y.s /\ r = [s |-> y.s + Grows(x), e |-> y.e + Grows(x)]
      <4>1. r.s = y.s + Grows(x) /\ r.e = y.e + Grows(x) /\ r = [s |-> r.s, e |-> r.e]
        BY <3>3
      <4> QED BY <3>2, <3>3, <4>1, <1>2
    <3>4. CASE r = [s |-> y.s, e |-> y.e]
      BY <3>4, <1>2
    <3> QED BY <3>1, <3>3, <3>4
  <2> HIDE DEF r
  <2> DEFINE a == r.s - y.s
             b == r.e - y.e
  <2>2. a \in Int /\ b \in Int /\ y.s + a = r.s /\ y.e + b = r.e
    BY <2>1, <1>2
  <2>3. /\ [k \in DOMAIN at |-> at[k].s - y.s] = [k \in 1..1 |-> a]
        /\ [k \in DOMAIN at |-> at[k].e - y.e] = [k \in 1..1 |-> b]
    OBVIOUS
  <2> HIDE DEF a, b
  <2>4. SumOf([k \in 1..1 |-> a]) = a /\ SumOf([k \in 1..1 |-> b]) = b
    BY <2>2, SumOne
  <2>5. Overlap \notin {at[k] : k \in DOMAIN at}
    BY <1>4
  <2> DEFINE fa == [k \in DOMAIN at |-> at[k].s - y.s]
             fb == [k \in DOMAIN at |-> at[k].e - y.e]
  <2>8. SumOfShifts(y, at) =
          IF Overlap \in {at[k] : k \in DOMAIN at} \/ y.s + SumOf(fa) < 0 \/ y.e + SumOf(fb) < y.s + SumOf(fa)
          THEN Overlap ELSE [s |-> y.s + SumOf(fa), e |-> y.e + SumOf(fb)]
    BY SumShiftsIs, Zenon
  <2>9. y.s + SumOf(fa) = r.s /\ y.e + SumOf(fb) = r.e
    BY <2>2, <2>3, <2>4
  <2>6. SumOfShifts(y, at) = IF Overlap \in {at[k] : k \in DOMAIN at} \/ r.s < 0 \/ r.e < r.s
              THEN Overlap ELSE [s |-> r.s, e |-> r.e]
    <3> HIDE DEF fa, fb, at
    <3> QED BY <2>8, <2>9
  <2>7. ~(r.s < 0) /\ ~(r.e < r.s)
    BY <2>1
  <2> HIDE DEF at
  <2> QED BY <1>1, <2>1, <2>5, <2>6, <2>7 DEF r
<1> QED BY <1>3, <1>4

-----------------------------------------------------------------------------
(* A step against the items of a transaction *)

\* An item of a pending transaction, with what it removed.
Item == [s : Int, e : Int, ins : Seq(Char), deleted : Seq(Char)]

\* A transaction moved through one step, as fold_remote moves it.
MovedBy(x, items) ==
  [k \in DOMAIN items |-> Moved(items[k], ThroughSet(items[k], <<x>>, ThroughFirst))]

\* Every item holds what it removes from t.
Remembers(items, n, t) == \A k \in 1..n : items[k].deleted = Slice(t, items[k].s, items[k].e)

\* What the item y shifts x by.
ShiftOf(x, y) == IF x.e <= y.s THEN 0 ELSE Grows(y)

\* What crossing x makes of an item y, and y of x.
CrossesTo(x, y, z) ==
  /\ z \in Item /\ z.ins = y.ins /\ z.deleted = y.deleted
  /\ Moves(y.s, y.e, z.s, z.e, x.s, x.e, Grows(x))
  /\ ShiftOf(x, y) \in Int
  /\ TransformRaw(x, y, SelfFirst) = [s |-> x.s + ShiftOf(x, y), e |-> x.e + ShiftOf(x, y)]

\* A moved item keeps its texts.
LEMMA MovedItem ==
  ASSUME NEW c \in Item, NEW r, r.s \in Int, r.e \in Int
  PROVE  /\ Moved(c, r) \in Item
         /\ Moved(c, r).s = r.s /\ Moved(c, r).e = r.e
         /\ Moved(c, r).ins = c.ins /\ Moved(c, r).deleted = c.deleted
BY DEF Item, Moved

\* An item and a step that do not overlap move one another.
LEMMA CrossItem ==
  ASSUME NEW t \in Seq(Char), NEW x, Fits(x, t), NEW y \in Item, Fits(y, t),
         RangeOf(Moved(y, ThroughSet(y, <<x>>, ThroughFirst))) # Overlap
  PROVE  CrossesTo(x, y, Moved(y, ThroughSet(y, <<x>>, ThroughFirst)))
<1> DEFINE r == TransformRaw(y, x, ThroughFirst)
           z == Moved(y, r)
           w == TransformRaw(x, y, SelfFirst)
<1>1. IsRange(y) /\ IsRange(x) /\ Len(y.ins) \in Nat /\ Len(x.ins) \in Nat
  BY LenProperties DEF Fits, IsRange
<1>2. ThroughSet(y, <<x>>, ThroughFirst) = r
  BY <1>1, ThroughOne
<1>3. Grows(x) \in Int /\ Grows(y) \in Int /\ x.s \in Nat /\ x.e \in Nat /\ y.s \in Nat /\ y.e \in Nat
  BY <1>1 DEF Grows, IsRange
<1>4. r # Overlap
  <2>1. RangeOf(z) # Overlap
    BY <1>2
  <2>2. ASSUME r = Overlap PROVE FALSE
    <3>1. r.s = -1 /\ r.e = -1 /\ r.s \in Int /\ r.e \in Int
      BY <2>2 DEF Overlap
    <3> HIDE DEF r
    <3>2. z.s = -1 /\ z.e = -1
      BY <3>1, MovedItem
    <3> QED BY <2>1, <3>2 DEF RangeOf, Overlap
  <2> QED BY <2>2
<1>5. \/ /\ x.e <= y.s
         /\ r = [s |-> y.s + Grows(x), e |-> y.e + Grows(x)]
         /\ w = [s |-> x.s, e |-> x.e]
      \/ /\ ~(x.e <= y.s)
         /\ y.e <= x.s
         /\ r = [s |-> y.s, e |-> y.e]
         /\ w = [s |-> x.s + Grows(y), e |-> x.e + Grows(y)]
  BY <1>1, <1>4, CrossOne
<1> HIDE DEF r, w
<1>6. r.s \in Int /\ r.e \in Int
  BY <1>3, <1>5
<1>7. z \in Item /\ z.s = r.s /\ z.e = r.e /\ z.ins = y.ins /\ z.deleted = y.deleted
  BY <1>6, MovedItem
<1> HIDE DEF z
<1>8. CASE x.e <= y.s
  <2>1. r = [s |-> y.s + Grows(x), e |-> y.e + Grows(x)] /\ w = [s |-> x.s, e |-> x.e]
    BY <1>5, <1>8
  <2>2. z.s = y.s + Grows(x) /\ z.e = y.e + Grows(x)
    BY <2>1, <1>7
  <2>3. ShiftOf(x, y) = 0 /\ x.s + 0 = x.s /\ x.e + 0 = x.e
    BY <1>8, <1>3 DEF ShiftOf
  <2>4. w = [s |-> x.s + ShiftOf(x, y), e |-> x.e + ShiftOf(x, y)]
    BY <2>1, <2>3
  <2>5. Moves(y.s, y.e, z.s, z.e, x.s, x.e, Grows(x))
    BY <1>8, <2>2 DEF Moves
  <2> QED BY <1>2, <1>7, <2>3, <2>4, <2>5 DEF CrossesTo, z, w
<1>9. CASE ~(x.e <= y.s)
  <2>1. y.e <= x.s /\ r = [s |-> y.s, e |-> y.e] /\ w = [s |-> x.s + Grows(y), e |-> x.e + Grows(y)]
    BY <1>5, <1>9
  <2>2. z.s = y.s /\ z.e = y.e
    BY <2>1, <1>7
  <2>3. ShiftOf(x, y) = Grows(y)
    BY <1>9 DEF ShiftOf
  <2>4. w = [s |-> x.s + ShiftOf(x, y), e |-> x.e + ShiftOf(x, y)] /\ ShiftOf(x, y) \in Int
    BY <2>1, <2>3, <1>3
  <2>5. Moves(y.s, y.e, z.s, z.e, x.s, x.e, Grows(x))
    BY <1>9, <2>1, <2>2 DEF Moves
  <2> QED BY <1>2, <1>7, <2>4, <2>5 DEF CrossesTo, z, w
<1> QED BY <1>8, <1>9

\* The item fits after the step, and removes the same text there.
LEMMA CrossFits ==
  ASSUME NEW t \in Seq(Char), NEW x, Fits(x, t), NEW y \in Item, Fits(y, t), NEW z, CrossesTo(x, y, z)
  PROVE  /\ Fits(z, ApplyStep(t, x))
         /\ Slice(ApplyStep(t, x), z.s, z.e) = Slice(t, y.s, y.e)
<1> DEFINE L == Len(t)
           xs == x.s
           xe == x.e
           xi == x.ins
           B == Len(xi)
           ys == y.s
           ye == y.e
<1>1. /\ xs \in Nat /\ xe \in Nat /\ xs <= xe /\ xe <= L /\ xi \in Seq(Char) /\ B \in Nat /\ L \in Nat
      /\ ys \in Nat /\ ye \in Nat /\ ys <= ye /\ ye <= L
  BY LenProperties DEF Fits
<1>2. Grows(x) = B - (xe - xs) /\ Len(t) = L /\ Len(xi) = B
  BY DEF Grows
<1>3. ApplyStep(t, x) = Rep(t, xs, xe, xi)
  BY StepIs
<1>4. /\ ye <= xs => Slice(Rep(t, xs, xe, xi), ys, ye) = Slice(t, ys, ye)
      /\ xe <= ys => Slice(Rep(t, xs, xe, xi), ys + (B - (xe - xs)), ye + (B - (xe - xs))) = Slice(t, ys, ye)
  <2> HIDE DEF L, xs, xe, xi, B, ys, ye
  <2> QED BY <1>1, <1>2, SliceMoves
<1>5. CASE xe <= ys /\ z.s = ys + Grows(x) /\ z.e = ye + Grows(x)
  <2>1. Fits(z, ApplyStep(t, x))
    BY <1>5, Commute DEF CrossesTo
  <2> HIDE DEF L, xs, xe, xi, B, ys, ye
  <2>2. Slice(ApplyStep(t, x), z.s, z.e) = Slice(t, ys, ye)
    BY <1>2, <1>3, <1>4, <1>5
  <2> QED BY <2>1, <2>2 DEF ys, ye
<1>6. CASE ye <= xs /\ z.s = ys /\ z.e = ye
  <2> DEFINE X == ShiftedBy(x, Grows(y))
  <2>1. X.s = x.s + Grows(y) /\ X.e = x.e + Grows(y) /\ X.ins = x.ins
    BY DEF ShiftedBy
  <2> HIDE DEF X
  <2>2. Fits(y, ApplyStep(t, x))
    BY <2>1, <1>6, Commute
  <2>3. Fits(z, ApplyStep(t, x))
    BY <2>2, <1>6 DEF Fits, CrossesTo
  <2> HIDE DEF L, xs, xe, xi, B, ys, ye
  <2>4. Slice(ApplyStep(t, x), z.s, z.e) = Slice(t, ys, ye)
    BY <1>3, <1>4, <1>6
  <2> QED BY <2>3, <2>4 DEF ys, ye
<1>7. Moves(ys, ye, z.s, z.e, xs, xe, Grows(x))
  BY DEF CrossesTo
<1> QED BY <1>5, <1>6, <1>7 DEF Moves

-----------------------------------------------------------------------------
(* A transaction that crossed a step is tidy again, in the same order *)

\* Two items of a transaction that crossed a step.
LEMMA MovedPair ==
  ASSUME NEW t \in Seq(Char), NEW x, Fits(x, t), NEW n \in Nat, NEW items \in [1..n -> Item], Tidy(items, n, t),
         NEW moved, DOMAIN moved = 1..n, \A k \in 1..n : CrossesTo(x, items[k], moved[k]),
         NEW a \in 1..n, NEW b \in 1..n, a # b
  PROVE  /\ a < b => moved[a].s <= moved[b].s
         /\ ~OverNum(moved[a].s, moved[a].e, moved[b].s, moved[b].e)
         /\ CanonicalBefore(items, a, b) <=> CanonicalBefore(moved, a, b)
<1> DEFINE s == items[a].s
           e == items[a].e
           f == items[b].s
           g == items[b].e
           s2 == moved[a].s
           e2 == moved[a].e
           f2 == moved[b].s
           g2 == moved[b].e
           xs == x.s
           xe == x.e
           B == Len(x.ins)
           d == Grows(x)
<1>1. /\ s \in Nat /\ e \in Nat /\ s <= e /\ f \in Nat /\ g \in Nat /\ f <= g
      /\ xs \in Nat /\ xe \in Nat /\ xs <= xe /\ B \in Nat
  BY LenProperties DEF Tidy, Fits
<1>2. d = B - (xe - xs) /\ d \in Int
  BY <1>1 DEF Grows
<1>3. Moves(s, e, s2, e2, xs, xe, d) /\ Moves(f, g, f2, g2, xs, xe, d)
  BY DEF CrossesTo
<1>4. Listed(s, f, a, b)
  <2>1. a < b => s <= f
    BY DEF Tidy, Ascending
  <2>2. b < a => f <= s
    BY DEF Tidy, Ascending
  <2> QED BY <2>1, <2>2 DEF Listed
<1>5. ~OverNum(s, e, f, g) /\ ~OverNum(f, g, s, e)
  <2>1. a \in DOMAIN items /\ b \in DOMAIN items /\ ~HasOverlap(items)
    BY DEF Tidy
  <2> QED BY <2>1 DEF HasOverlap, OverNum, IsEmpty
<1>6. /\ CanonicalBefore(items, a, b) <=> BeforeNum(s, e, f, g, a, b)
      /\ CanonicalBefore(moved, a, b) <=> BeforeNum(s2, e2, f2, g2, a, b)
  BY DEF CanonicalBefore, BeforeNum, IsEmpty
<1> HIDE DEF s, e, f, g, s2, e2, f2, g2, xs, xe, B, d
<1>9. xs - xe <= d
  BY <1>1, <1>2
<1>7. s2 \in Nat /\ e2 \in Nat /\ f2 \in Nat /\ g2 \in Nat
  BY <1>1, <1>2, <1>3, <1>9, MoveOne
<1>8. /\ a < b => s2 <= f2
      /\ ~OverNum(s2, e2, f2, g2)
      /\ BeforeNum(s, e, f, g, a, b) <=> BeforeNum(s2, e2, f2, g2, a, b)
  <2>1. a \in Nat /\ b \in Nat
    OBVIOUS
  <2>2. PairIn(xs, xe, d, s, e, s2, e2, f, g, f2, g2, a, b)
    BY <2>1, <1>1, <1>2, <1>3, <1>4, <1>5, <1>7, <1>9 DEF PairIn
  <2> QED BY <2>2, MovePair
<1> QED BY <1>6, <1>8 DEF s2, e2, f2, g2

\* The transaction that crossed a step: tidy, in the same order, remembering the same
\* (mirror.rs Pending::seq, "transforms keep them disjoint").
LEMMA MovedTidy ==
  ASSUME NEW t \in Seq(Char), NEW x, Fits(x, t), NEW n \in Nat, NEW items \in [1..n -> Item], Tidy(items, n, t),
         NEW moved, DOMAIN moved = 1..n, \A k \in 1..n : CrossesTo(x, items[k], moved[k])
  PROVE  /\ Tidy(moved, n, ApplyStep(t, x))
         /\ Canonical(items) = Canonical(moved)
         /\ Remembers(items, n, t) => Remembers(moved, n, ApplyStep(t, x))
<1>1. \A k \in 1..n : /\ Fits(moved[k], ApplyStep(t, x))
                      /\ Slice(ApplyStep(t, x), moved[k].s, moved[k].e) = Slice(t, items[k].s, items[k].e)
  BY CrossFits DEF Tidy
<1>2. Ascending(moved)
  BY MovedPair DEF Ascending
<1>3. ~HasOverlap(moved)
  <2> SUFFICES ASSUME NEW i \in 1..n, NEW j \in 1..n, i # j
               PROVE  ~(~IsEmpty(moved[i]) /\ moved[j].s < moved[i].e
                        /\ (moved[i].s < moved[j].s \/ (moved[i].s = moved[j].s /\ ~IsEmpty(moved[j]))))
    BY DEF HasOverlap
  <2>1. ~OverNum(moved[i].s, moved[i].e, moved[j].s, moved[j].e)
    BY MovedPair
  <2> QED BY <2>1 DEF OverNum, IsEmpty
<1>4. Tidy(moved, n, ApplyStep(t, x))
  BY <1>1, <1>2, <1>3 DEF Tidy
<1>5. ASSUME NEW a \in 1..n, NEW b \in 1..n PROVE CanonicalBefore(items, a, b) <=> CanonicalBefore(moved, a, b)
  <2>1. CASE a # b
    BY <2>1, MovedPair
  <2>2. CASE a = b
    <3>1. items[a].s \in Nat /\ moved[a].s \in Nat
      BY <1>1 DEF Tidy, Fits
    <3>2. ~CanonicalBefore(items, a, b) /\ ~CanonicalBefore(moved, a, b)
      BY <2>2, <3>1 DEF CanonicalBefore
    <3> QED BY <3>2
  <2> QED BY <2>1, <2>2
<1>6. Canonical(items) = Canonical(moved)
  BY <1>5, SameCanonical DEF Tidy
<1>7. Remembers(items, n, t) => Remembers(moved, n, ApplyStep(t, x))
  BY <1>1 DEF Remembers, CrossesTo
<1> QED BY <1>4, <1>6, <1>7

\* The sum of the shifts of a transaction's items, added up in the order C.
IsRunningSum(D, C, q, n) ==
  /\ D \in [0..n -> Int] /\ D[0] = 0
  /\ \A k \in 1..n : D[k] = D[k - 1] + q[C[k]]
  /\ D[n] = SumOf(q)

\* Added up in any order the shifts have the same sum.
LEMMA SumInOrder ==
  ASSUME NEW n \in Nat, NEW q \in [1..n -> Int], NEW C \in [1..n -> 1..n],
         \A i, j \in 1..n : C[i] = C[j] => i = j,
         \A k \in 1..n : \E i \in 1..n : C[i] = k
  PROVE  \E D : IsRunningSum(D, C, q, n)
<1> DEFINE b == 0
<1>1. \E g : IsIter(g, "sum", b, q, n)
  <2> HIDE DEF b
  <2> QED BY IterExists
<1> DEFINE g == CHOOSE h : IsIter(h, "sum", b, q, n)
<1>11. IsIter(g, "sum", b, q, n)
  <2> HIDE DEF b
  <2> QED BY <1>1
<1> HIDE DEF g
<1>2. /\ g[{}] = 0
      /\ \A S \in SUBSET (1..n) : g[S] \in Int /\ \A a \in S : g[S] = g[S \ {a}] + q[a]
  <2>1. b = 0
    OBVIOUS
  <2> HIDE DEF b
  <2>2. IsSum(g, q, n)
    BY <2>1, <1>11, SumIs
  <2> QED BY <2>2 DEF IsSum
<1>3. q \in Seq(Int) /\ Len(q) = n
  OBVIOUS
<1>4. SumOf(q) = g[1..n]
  <2>1. SumOf(q) = Fold("sum", b, q)
    BY <1>3, SumFold
  <2> HIDE DEF b
  <2>2. Fold("sum", b, q) = g[1..Len(q)]
    <3>1. IsIter(g, "sum", b, q, Len(q)) /\ Len(q) \in Nat
      BY <1>11, <1>3
    <3> QED BY <3>1, FoldIs
  <2> QED BY <2>1, <2>2, <1>3
<1> DEFINE P(m) == {C[i] : i \in 1..m}
           D == [m \in 0..n |-> g[P(m)]]
<1>5. \A m \in 0..n : P(m) \in SUBSET (1..n)
  OBVIOUS
<1>6. D \in [0..n -> Int]
  BY <1>2, <1>5
<1>7. D[0] = 0
  <2>1. P(0) = {}
    OBVIOUS
  <2>2. 0 \in 0..n
    OBVIOUS
  <2> HIDE DEF P
  <2> QED BY <2>1, <2>2, <1>2
<1>8. ASSUME NEW k \in 1..n PROVE D[k] = D[k - 1] + q[C[k]]
  <2>1. k \in 0..n /\ k - 1 \in 0..n /\ C[k] \in P(k)
    OBVIOUS
  <2>2. P(k) \ {C[k]} = P(k - 1)
    <3>1. \A i \in 1..(k - 1) : i \in 1..k /\ i \in 1..n /\ i # k
      OBVIOUS
    <3>2. \A i \in 1..k : i # k => i \in 1..(k - 1)
      OBVIOUS
    <3>3. \A i \in 1..(k - 1) : C[i] # C[k]
      BY <3>1
    <3>4. ASSUME NEW c \in P(k), c # C[k] PROVE c \in P(k - 1)
      <4>1. PICK i \in 1..k : c = C[i]
        OBVIOUS
      <4>2. i \in 1..(k - 1)
        BY <4>1, <3>4, <3>2
      <4> QED BY <4>1, <4>2
    <3>5. ASSUME NEW c \in P(k - 1) PROVE c \in P(k) /\ c # C[k]
      <4>1. PICK i \in 1..(k - 1) : c = C[i]
        OBVIOUS
      <4> QED BY <4>1, <3>1, <3>3
    <3> HIDE DEF P
    <3> QED BY <3>4, <3>5
  <2>3. g[P(k)] = g[P(k) \ {C[k]}] + q[C[k]]
    <3> HIDE DEF P
    <3> QED BY <2>1, <1>2, <1>5
  <2> QED BY <2>1, <2>2, <2>3
<1>9. D[n] = SumOf(q)
  <2>1. P(n) = 1..n
    OBVIOUS
  <2>2. n \in 0..n
    OBVIOUS
  <2> HIDE DEF P
  <2> QED BY <2>1, <2>2, <1>4
<1>10. IsRunningSum(D, C, q, n)
  <2> HIDE DEF D
  <2> QED BY <1>6, <1>7, <1>8, <1>9 DEF IsRunningSum
<1> QED BY <1>10

-----------------------------------------------------------------------------
(* The diamond: a step and a transaction, in either order *)

\* A step x of one side and a transaction of the other, both on t: what each becomes when
\* the other one goes first.
Meets(t, x, items, moved, z, n) ==
  /\ moved \in [1..n -> Item]
  /\ Tidy(moved, n, ApplyStep(t, x))
  /\ Remembers(items, n, t) => Remembers(moved, n, ApplyStep(t, x))
  /\ \A k \in 1..n : moved[k].ins = items[k].ins
  /\ z \in Step /\ RangeOf(z) # Overlap /\ z.ins = x.ins
  /\ ApplyAll(t, TxnSequence(items)) \in Seq(Char)
  /\ Fits(z, ApplyAll(t, TxnSequence(items)))
  /\ ApplyStep(ApplyAll(t, TxnSequence(items)), z) = ApplyAll(ApplyStep(t, x), TxnSequence(moved))

\* What SumOfShifts yields when every item shifts both ends alike.
LEMMA SumOfEqual ==
  ASSUME NEW n \in Nat, NEW x, NEW v \in Int, NEW at, NEW q \in [1..n -> Int], DOMAIN at = 1..n,
         x.s \in Nat, x.e \in Nat, x.s <= x.e,
         \A k \in 1..n : at[k] = [s |-> x.s + q[k], e |-> x.e + q[k]] /\ at[k] # Overlap,
         SumOf(q) = v, x.s + v \in Nat
  PROVE  SumOfShifts(x, at) = [s |-> x.s + v, e |-> x.e + v]
<1> DEFINE fa == [k \in DOMAIN at |-> at[k].s - x.s]
           fb == [k \in DOMAIN at |-> at[k].e - x.e]
<1>1. fa = q /\ fb = q
  <2>1. \A k \in 1..n : at[k].s - x.s = q[k] /\ at[k].e - x.e = q[k]
    <3> TAKE k \in 1..n
    <3>1. at[k].s = x.s + q[k] /\ at[k].e = x.e + q[k] /\ q[k] \in Int
      OBVIOUS
    <3> QED BY <3>1
  <2> QED BY <2>1
<1>2. Overlap \notin {at[k] : k \in DOMAIN at}
  OBVIOUS
<1>3. SumOfShifts(x, at) =
        IF Overlap \in {at[k] : k \in DOMAIN at} \/ x.s + SumOf(fa) < 0 \/ x.e + SumOf(fb) < x.s + SumOf(fa)
        THEN Overlap ELSE [s |-> x.s + SumOf(fa), e |-> x.e + SumOf(fb)]
  BY SumShiftsIs, Zenon
<1>4. SumOf(fa) = v /\ SumOf(fb) = v
  BY <1>1
<1> HIDE DEF fa, fb
<1>5. ~(x.s + v < 0) /\ ~(x.e + v < x.s + v)
  OBVIOUS
<1> QED BY <1>2, <1>3, <1>4, <1>5

\* A moved step keeps its insertion.
LEMMA MovedStep ==
  ASSUME NEW x \in Step, NEW r, r.s \in Int, r.e \in Int
  PROVE  /\ Moved(x, r) \in Step
         /\ Moved(x, r) = [s |-> r.s, e |-> r.e, ins |-> x.ins]
<1> DEFINE m == Moved(x, r)
           k == [s |-> r.s, e |-> r.e, ins |-> x.ins]
<1>1. m \in Step /\ m.s = r.s /\ m.e = r.e /\ m.ins = x.ins
  BY DEF Step, Moved
<1>2. x.ins \in Seq(Char)
  BY DEF Step
<1>3. k \in Step /\ k.s = r.s /\ k.e = r.e /\ k.ins = x.ins
  BY <1>2 DEF Step
<1> HIDE DEF m, k
<1>4. m = k
  BY <1>1, <1>3, SameStep
<1> QED BY <1>1, <1>4 DEF m, k

\* The diamond.  Unless they overlap, a step and a transaction on one text reach the same
\* text in either order, each moved through the other: the step judged first at a tie by the
\* one side (SelfFirst), second by the other (ThroughFirst).
LEMMA Cross ==
  ASSUME NEW t \in Seq(Char), NEW x \in Step, Fits(x, t), NEW n \in Nat, NEW items \in [1..n -> Item],
         Tidy(items, n, t), ~Refused(MovedBy(x, items))
  PROVE  Meets(t, x, items, MovedBy(x, items), Moved(x, ThroughSet(x, items, SelfFirst)), n)
<1> DEFINE moved == MovedBy(x, items)
           C == Canonical(items)
           y == TxnSequence(items)
           y2 == TxnSequence(moved)
           T == ApplyStep(t, x)
           q == [k \in 1..n |-> ShiftOf(x, items[k])]
           at == [k \in DOMAIN items |-> TransformRaw(x, items[k], SelfFirst)]
<1>1. DOMAIN moved = 1..n
  BY DEF MovedBy
<1>2. ASSUME NEW k \in 1..n PROVE CrossesTo(x, items[k], moved[k])
  <2>1. moved[k] = Moved(items[k], ThroughSet(items[k], <<x>>, ThroughFirst))
    BY DEF MovedBy
  <2>2. RangeOf(moved[k]) # Overlap
    BY <1>1 DEF Refused
  <2>3. Fits(items[k], t) /\ items[k] \in Item
    BY DEF Tidy
  <2> HIDE DEF moved
  <2> QED BY <2>1, <2>2, <2>3, CrossItem
<1> HIDE DEF moved
<1>3. Tidy(moved, n, T) /\ Canonical(moved) = C /\ (Remembers(items, n, t) => Remembers(moved, n, T))
  BY <1>1, <1>2, MovedTidy
<1>4. T \in Seq(Char) /\ Grows(x) \in Int
  BY StepIs
<1>5. IsSequenceOf(y, C, items, n) /\ Descends(y, n, t)
  BY SequenceIs
<1>6. IsSequenceOf(y2, C, moved, n)
  BY <1>3, <1>4, SequenceIs
<1>7. /\ C \in [1..n -> 1..n]
      /\ \A i, j \in 1..n : C[i] = C[j] => i = j
      /\ \A k \in 1..n : \E i \in 1..n : C[i] = k
  BY TidyRanges, CanonicalIs DEF ListsInOrder
<1>8. q \in [1..n -> Int]
  BY <1>2 DEF CrossesTo
<1>q. \A k \in 1..n : q[k] = ShiftOf(x, items[k])
  OBVIOUS
<1> HIDE DEF C, y, y2, T, q
<1>9. PICK D : IsRunningSum(D, C, q, n)
  BY <1>7, <1>8, SumInOrder
<1>10. /\ D \in [0..n -> Int] /\ D[0] = 0 /\ D[n] = SumOf(q) /\ D[n] \in Int
       /\ \A k \in 1..n : D[k] = D[k - 1] + q[C[k]]
  BY <1>9 DEF IsRunningSum
<1>11. ASSUME NEW k \in 1..n PROVE Passes(x, y[k], y2[k], D[k - 1], D[k])
  <2> DEFINE a == items[C[k]]
             b == moved[C[k]]
  <2>1. /\ C[k] \in 1..n
        /\ y[k].s = a.s /\ y[k].e = a.e /\ y[k].ins = a.ins
        /\ y2[k].s = b.s /\ y2[k].e = b.e /\ y2[k].ins = b.ins
    BY <1>5, <1>6 DEF IsSequenceOf
  <2>2. CrossesTo(x, a, b) /\ D[k] = D[k - 1] + ShiftOf(x, a) /\ D[k - 1] \in Int
    <3>1. k - 1 \in 0..n
      OBVIOUS
    <3>2. D[k] = D[k - 1] + q[C[k]] /\ D[k - 1] \in Int
      BY <3>1, <1>10
    <3>3. q[C[k]] = ShiftOf(x, a)
      BY <2>1, <1>q
    <3>4. CrossesTo(x, a, b)
      BY <2>1, <1>2
    <3> QED BY <3>2, <3>3, <3>4
  <2>3. Grows(y[k]) = Grows(a)
    BY <2>1 DEF Grows
  <2> HIDE DEF a, b
  <2>4. b.ins = a.ins /\ Moves(a.s, a.e, b.s, b.e, x.s, x.e, Grows(x))
    BY <2>2 DEF CrossesTo
  <2>5. CASE x.e <= a.s
    <3>1. D[k] = D[k - 1]
      BY <2>2, <2>5 DEF ShiftOf
    <3>2. b.s = a.s + Grows(x) /\ b.e = a.e + Grows(x)
      BY <2>4, <2>5 DEF Moves
    <3> QED BY <2>1, <2>4, <2>5, <3>1, <3>2 DEF Passes
  <2>6. CASE ~(x.e <= a.s)
    <3>1. D[k] = D[k - 1] + Grows(y[k])
      BY <2>2, <2>3, <2>6 DEF ShiftOf
    <3>2. b.s = a.s /\ b.e = a.e /\ a.e <= x.s
      BY <2>4, <2>6 DEF Moves
    <3> QED BY <2>1, <2>4, <2>6, <3>1, <3>2 DEF Passes
  <2> QED BY <2>5, <2>6
<1> DEFINE U == ApplyAll(t, y)
           v == D[n]
           X == ShiftedBy(x, v)
<1>12. U \in Seq(Char) /\ Fits(X, U) /\ ApplyStep(U, X) = ApplyAll(T, y2)
  <2>1. y \in Seq(Step) /\ Len(y) = n /\ y2 \in Seq(Step) /\ Len(y2) = n
    BY <1>5, <1>6 DEF IsSequenceOf
  <2> QED BY <2>1, <1>5, <1>10, <1>11, CrossSeq DEF T
<1>13. X = [s |-> x.s + v, e |-> x.e + v, ins |-> x.ins] /\ x.s + v \in Nat
  BY <1>12 DEF ShiftedBy, Fits
<1>14. x.s \in Nat /\ x.e \in Nat /\ x.s <= x.e
  BY DEF Fits
<1>15. DOMAIN at = 1..n /\ \A k \in 1..n : at[k] = [s |-> x.s + q[k], e |-> x.e + q[k]] /\ at[k] # Overlap
  <2> SUFFICES ASSUME NEW k \in 1..n PROVE at[k] = [s |-> x.s + q[k], e |-> x.e + q[k]] /\ at[k] # Overlap
    OBVIOUS
  <2> DEFINE a == items[k]
             Y == ShiftedBy(x, Grows(a))
  <2>1. at[k] = [s |-> x.s + q[k], e |-> x.e + q[k]]
    BY <1>2, <1>q DEF CrossesTo
  <2>2. x.s + q[k] \in Nat
    <3>1. Fits(a, t)
      BY DEF Tidy
    <3>2. /\ a.s \in Nat /\ a.e \in Nat /\ a.s <= a.e /\ Len(a.ins) \in Nat
      BY <3>1, LenProperties DEF Fits
    <3>3. q[k] = ShiftOf(x, a) /\ Moves(a.s, a.e, moved[k].s, moved[k].e, x.s, x.e, Grows(x))
      BY <1>2, <1>q DEF CrossesTo
    <3>4. Grows(a) = Len(a.ins) - (a.e - a.s)
      BY DEF Grows
    <3> HIDE DEF a
    <3>5. q[k] = 0 \/ (q[k] = Grows(a) /\ a.e <= x.s)
      BY <3>3 DEF ShiftOf, Moves
    <3>6. CASE q[k] = 0
      BY <3>6, <1>14
    <3>7. CASE q[k] = Grows(a) /\ a.e <= x.s
      <4>1. x.s + (Len(a.ins) - (a.e - a.s)) \in Nat
        BY <3>2, <3>7, <1>14
      <4> QED BY <4>1, <3>4, <3>7
    <3> QED BY <3>5, <3>6, <3>7
  <2>3. at[k].s \in Nat
    BY <2>1, <2>2
  <2> HIDE DEF at
  <2> QED BY <2>1, <2>3 DEF Overlap
<1>16. ThroughSet(x, items, SelfFirst) = [s |-> x.s + v, e |-> x.e + v]
  <2>1. ThroughSet(x, items, SelfFirst) = SumOfShifts(x, at)
    BY DEF ThroughSet
  <2>2. v \in Int /\ SumOf(q) = v
    BY <1>10
  <2> HIDE DEF at, v
  <2> QED BY <2>1, <2>2, <1>8, <1>13, <1>14, <1>15, SumOfEqual
<1> DEFINE z == Moved(x, ThroughSet(x, items, SelfFirst))
<1>17. z \in Step /\ z = X /\ RangeOf(z) # Overlap /\ z.ins = x.ins
  <2> DEFINE r == [s |-> x.s + v, e |-> x.e + v]
  <2>1. r.s \in Int /\ r.e \in Int /\ r.s = x.s + v /\ r.e = x.e + v
    BY <1>10, <1>13, <1>14
  <2>2. z \in Step /\ z = [s |-> x.s + v, e |-> x.e + v, ins |-> x.ins]
    <3> HIDE DEF r
    <3>1. z = Moved(x, r)
      BY <1>16 DEF r
    <3> QED BY <2>1, <3>1, MovedStep
  <2>3. z.s \in Nat
    BY <2>2, <1>13
  <2>4. RangeOf(z).s \in Nat
    BY <2>3 DEF RangeOf
  <2>5. RangeOf(z) # Overlap
    BY <2>4 DEF Overlap
  <2>6. z.ins = x.ins
    BY <2>2
  <2>7. z = X
    BY <2>2, <1>13
  <2> HIDE DEF z
  <2> QED BY <2>2, <2>5, <2>6, <2>7
<1>18. moved \in [1..n -> Item] /\ \A k \in 1..n : moved[k].ins = items[k].ins
  <2>1. \A k \in 1..n : moved[k] \in Item /\ moved[k].ins = items[k].ins
    BY <1>2 DEF CrossesTo
  <2>2. moved = [k \in 1..n |-> moved[k]]
    BY <1>1 DEF moved, MovedBy
  <2> QED BY <2>1, <2>2
<1> HIDE DEF z, X
<1>19. Fits(z, U) /\ ApplyStep(U, z) = ApplyAll(T, y2)
  BY <1>12, <1>17
<1>20. Meets(t, x, items, moved, z, n)
  BY <1>3, <1>12, <1>17, <1>18, <1>19 DEF Meets, T, y, y2
<1> QED BY <1>20 DEF moved, z

-----------------------------------------------------------------------------
(* Pending::inverse undoes a transaction *)

\* Texts that agree up to e have the same slices there.
LEMMA SliceSame ==
  ASSUME NEW t \in Seq(Char), NEW u \in Seq(Char), NEW s \in Nat, NEW e \in Nat, s <= e,
         e <= Len(t), e <= Len(u), SameUpTo(u, t, e)
  PROVE  Slice(u, s, e) = Slice(t, s, e)
<1> DEFINE a == Slice(t, s, e)
           b == Slice(u, s, e)
           n == e - s
<1>1. IsSlice(a, t, s, n) /\ IsSlice(b, u, s, n)
  BY SliceIs
<1>0. n \in Nat /\ n = e - s
  OBVIOUS
<1> HIDE DEF a, b, n
<1>2. ASSUME NEW i \in 1..n PROVE b[i] = a[i]
  <2>1. s + i \in 1..e
    BY <1>0
  <2>2. u[s + i] = t[s + i]
    BY <2>1 DEF SameUpTo
  <2> QED BY <2>2, <1>1 DEF IsSlice
<1>3. b = a
  <2>1. a \in Seq(Char) /\ b \in Seq(Char) /\ Len(a) = n /\ Len(b) = n
    BY <1>1 DEF IsSlice
  <2> QED BY <2>1, <1>2, <1>0, SameText
<1> QED BY <1>3 DEF a, b

\* The step that undoes an item.
UndoOf(x) == [s |-> x.s, e |-> x.s + Len(x.ins), ins |-> x.deleted]

\* It does, right after the item's step.
LEMMA UndoStep ==
  ASSUME NEW u \in Seq(Char), NEW y, NEW x, Fits(y, u), y.s = x.s, y.e = x.e, y.ins = x.ins,
         x.deleted = Slice(u, x.s, x.e)
  PROVE  ApplyStep(ApplyStep(u, y), UndoOf(x)) = u /\ UndoOf(x) \in Step
<1> DEFINE s == x.s
           e == x.e
           ins == x.ins
           L == Len(u)
           B == Len(ins)
           z == UndoOf(x)
           del == x.deleted
<1>1. s \in Nat /\ e \in Nat /\ s <= e /\ e <= L /\ ins \in Seq(Char) /\ L \in Nat /\ B \in Nat /\ Len(u) = L /\ Len(ins) = B
  BY LenProperties DEF Fits
<1>2. ApplyStep(u, y) = Rep(u, s, e, ins)
  BY StepIs
<1>3. z.s = s /\ z.e = s + B /\ z.ins = del /\ del = Slice(u, s, e)
  BY DEF UndoOf
<1>6. z = [s |-> s, e |-> s + B, ins |-> del]
  BY DEF UndoOf
<1> HIDE DEF s, e, ins, L, B, z, del
<1>4. ApplyStep(Rep(u, s, e, ins), z) = Rep(Rep(u, s, e, ins), s, s + B, Slice(u, s, e))
  BY <1>3 DEF ApplyStep, Rep
<1>5. Rep(Rep(u, s, e, ins), s, s + B, Slice(u, s, e)) = u
  BY <1>1, UndoRep
<1>7. IsSlice(Slice(u, s, e), u, s, e - s)
  BY <1>1, SliceIs
<1>8. del \in Seq(Char)
  BY <1>7, <1>3 DEF IsSlice
<1>9. z \in Step
  BY <1>1, <1>6, <1>8 DEF Step
<1> QED BY <1>2, <1>4, <1>5, <1>9 DEF z

\* The inverse of a transaction restores the text it was applied to.
LEMMA UndoTxn ==
  ASSUME NEW t \in Seq(Char), NEW n \in Nat, NEW items \in [1..n -> Item], Tidy(items, n, t), Remembers(items, n, t)
  PROVE  /\ InverseSteps(items) \in Seq(Step)
         /\ ApplyAll(ApplyAll(t, TxnSequence(items)), InverseSteps(items)) = t
<1> DEFINE C == Canonical(items)
           y == TxnSequence(items)
           v == InverseSteps(items)
           u(m) == Upto(t, y, m)
<1>1. IsSequenceOf(y, C, items, n) /\ Descends(y, n, t)
  BY SequenceIs
<1>2. y \in Seq(Step) /\ Len(y) = n
  BY <1>1 DEF IsSequenceOf
<1>3. \A m \in 0..n : u(m) \in Seq(Char) /\ \A j \in (m + 1)..n : Fits(y[j], u(m)) /\ SameUpTo(u(m), t, y[j].e)
  BY <1>1, <1>2, Descent
<1>4. C \in [1..n -> 1..n] /\ C \in Seq(1..n) /\ Len(C) = n
  <2>1. C \in [1..n -> 1..n]
    BY TidyRanges, CanonicalIs DEF ListsInOrder
  <2> HIDE DEF C
  <2> QED BY <2>1
<1>5. v = [k \in 1..n |-> UndoOf(items[C[(n - k) + 1]])]
  <2>1. Reverse(C) = [i \in 1..n |-> C[(n - i) + 1]]
    BY <1>4 DEF Reverse
  <2> HIDE DEF C
  <2>2. v = [k \in 1..n |-> UndoOf(items[Reverse(C)[k]])]
    BY DEF InverseSteps, UndoOf, C
  <2> QED BY <2>1, <2>2
<1> HIDE DEF C, y, v
<1>6. ASSUME NEW k \in 1..n
      PROVE  UndoOf(items[C[k]]) \in Step /\ ApplyStep(u(k), UndoOf(items[C[k]])) = u(k - 1)
  <2> DEFINE x == items[C[k]]
             a == u(k - 1)
             w == y[k]
  <2>1. k - 1 \in 0..n /\ k \in ((k - 1) + 1)..n /\ k - 1 \in Nat /\ k - 1 < n /\ (k - 1) + 1 = k
    OBVIOUS
  <2>2. a \in Seq(Char) /\ Fits(w, a) /\ SameUpTo(a, t, w.e)
    BY <2>1, <1>3
  <2>3. C[k] \in 1..n /\ w.s = x.s /\ w.e = x.e /\ w.ins = x.ins
    BY <1>1 DEF IsSequenceOf
  <2>4. u((k - 1) + 1) = ApplyStep(u(k - 1), y[(k - 1) + 1])
    BY <2>1, <1>2, UptoStep
  <2>5. u(k) = ApplyStep(a, w)
    BY <2>1, <2>4
  <2>6. Fits(x, t)
    BY <2>3 DEF Tidy
  <2>7. x.deleted = Slice(t, x.s, x.e)
    BY <2>3 DEF Remembers
  <2> HIDE DEF a, w, x, u
  <2>8. /\ x.s \in Nat /\ x.e \in Nat /\ x.s <= x.e /\ x.e <= Len(t) /\ x.e <= Len(a)
        /\ SameUpTo(a, t, x.e)
    BY <2>2, <2>3, <2>6 DEF Fits
  <2>9. x.deleted = Slice(a, x.s, x.e)
    BY <2>2, <2>7, <2>8, SliceSame
  <2>10. ApplyStep(ApplyStep(a, w), UndoOf(x)) = a /\ UndoOf(x) \in Step
    BY <2>2, <2>3, <2>9, UndoStep
  <2> QED BY <2>5, <2>10 DEF a, x
<1>7. v \in Seq(Step) /\ Len(v) = n
  <2>1. \A k \in 1..n : (n - k) + 1 \in 1..n
    OBVIOUS
  <2>2. \A k \in 1..n : UndoOf(items[C[(n - k) + 1]]) \in Step
    BY <2>1, <1>6
  <2> QED BY <2>2, <1>5
<1> DEFINE T == {m \in Nat : m <= n => Upto(u(n), v, m) = u(n - m)}
<1>8. T \in SUBSET Nat
  OBVIOUS
<1>9. 0 \in T
  <2>1. Upto(u(n), v, 0) = u(n) /\ n - 0 = n
    <3> HIDE DEF u
    <3>1. Upto(u(n), v, 0) = u(n)
      BY <1>7, UptoEnds
    <3> QED BY <3>1
  <2> QED BY <2>1
<1>10. ASSUME NEW m \in T PROVE m + 1 \in T
  <2>1. SUFFICES ASSUME m + 1 <= n PROVE Upto(u(n), v, m + 1) = u(n - (m + 1))
    OBVIOUS
  <2>2. m \in Nat /\ m < n /\ m + 1 \in 1..n /\ n - m \in 1..n /\ (n - (m + 1)) + 1 = n - m /\ (n - m) - 1 = n - (m + 1)
    BY <2>1
  <2>3. Upto(u(n), v, m + 1) = ApplyStep(Upto(u(n), v, m), v[m + 1])
    BY <2>2, <1>7, UptoStep
  <2>4. Upto(u(n), v, m) = u(n - m)
    BY <2>2
  <2>5. v[m + 1] = UndoOf(items[C[n - m]])
    BY <2>2, <1>5
  <2>6. ApplyStep(u(n - m), UndoOf(items[C[n - m]])) = u((n - m) - 1)
    BY <2>2, <1>6
  <2> QED BY <2>2, <2>3, <2>4, <2>5, <2>6
<1> HIDE DEF T
<1>11. T = Nat
  BY <1>8, <1>9, <1>10, Induction
<1>12. Upto(u(n), v, n) = u(n - n) /\ n - n = 0
  BY <1>11 DEF T
<1>13. u(n) = ApplyAll(t, y) /\ u(0) = t
  BY <1>2, UptoEnds
<1>14. Upto(u(n), v, n) = ApplyAll(u(n), v)
  BY <1>7, UptoEnds
<1> QED BY <1>7, <1>12, <1>13, <1>14 DEF y, v

-----------------------------------------------------------------------------
(* Pending transactions, one on top of the other *)

\* The steps of each pending transaction.
Seqs(os) == [k \in DOMAIN os |-> TxnSequence(os[k])]

\* t with the transactions os applied.
After(t, os) == ApplyAll(t, FlattenSeq(Seqs(os)))

\* o is a transaction on t that remembers what it removes.
OpOn(o, t) ==
  /\ o \in Seq(Item)
  /\ Tidy(o, Len(o), t)
  /\ Remembers(o, Len(o), t)

\* Transactions on t, each on the text the ones before it leave.
Good(t, os) ==
  /\ os \in Seq(Seq(Item))
  /\ \A k \in 1..Len(os) : OpOn(os[k], After(t, SubSeq(os, 1, k - 1)))

\* What a transaction on t yields, and its inverse.
LEMMA OpOnIs ==
  ASSUME NEW t \in Seq(Char), NEW o, OpOn(o, t)
  PROVE  /\ o \in [1..Len(o) -> Item] /\ Len(o) \in Nat /\ o \in Seq(Item)
         /\ TxnSequence(o) \in Seq(Step) /\ Len(TxnSequence(o)) = Len(o)
         /\ ApplyAll(t, TxnSequence(o)) \in Seq(Char)
         /\ InverseSteps(o) \in Seq(Step)
         /\ ApplyAll(ApplyAll(t, TxnSequence(o)), InverseSteps(o)) = t
<1> DEFINE n == Len(o)
           y == TxnSequence(o)
<1>1. o \in [1..n -> Item] /\ n \in Nat /\ o \in Seq(Item) /\ Tidy(o, n, t) /\ Remembers(o, n, t)
  BY LenProperties DEF OpOn
<1> HIDE DEF n
<1>2. IsSequenceOf(y, Canonical(o), o, n) /\ Descends(y, n, t)
  BY <1>1, SequenceIs
<1>3. InverseSteps(o) \in Seq(Step) /\ ApplyAll(ApplyAll(t, y), InverseSteps(o)) = t
  BY <1>1, UndoTxn
<1>4. y \in Seq(Step) /\ Len(y) = n
  BY <1>2 DEF IsSequenceOf
<1> HIDE DEF y
<1>5. Upto(t, y, n) \in Seq(Char)
  <2>1. n \in 0..n
    BY <1>1
  <2> QED BY <2>1, <1>1, <1>2, <1>4, Descent
<1>6. Upto(t, y, n) = ApplyAll(t, y)
  BY <1>1, <1>4, UptoEnds
<1> QED BY <1>1, <1>3, <1>4, <1>5, <1>6 DEF n, y

\* Nothing pending.
LEMMA AfterEmpty ==
  ASSUME NEW t
  PROVE  After(t, <<>>) = t
<1>1. Seqs(<<>>) = <<>>
  BY DEF Seqs
<1> QED BY <1>1, FlattenEmpty, ApplyAllEmpty DEF After

\* Every transaction has its steps.
Sequenced(os) == Seqs(os) \in Seq(Seq(Step))

\* A further transaction is applied last.
LEMMA AfterAppend ==
  ASSUME NEW t, NEW os \in Seq(Seq(Item)), NEW o \in Seq(Item), Sequenced(os), TxnSequence(o) \in Seq(Step)
  PROVE  /\ After(t, Append(os, o)) = ApplyAll(After(t, os), TxnSequence(o))
         /\ Sequenced(Append(os, o))
<1> DEFINE p == Append(os, o)
           y == TxnSequence(o)
           q == Seqs(os)
           n == Len(os)
<1>1. /\ n \in Nat /\ os \in [1..n -> Seq(Item)] /\ Len(os) = n
  BY LenProperties
<1>2. p = [k \in 1..(n + 1) |-> IF k = n + 1 THEN o ELSE os[k]]
  <2>1. p \in Seq(Seq(Item)) /\ Len(p) = n + 1 /\ p[n + 1] = o /\ \A k \in 1..n : p[k] = os[k]
    BY AppendProperties
  <2> HIDE DEF p, n
  <2>2. p \in [1..(n + 1) -> Seq(Item)]
    BY <2>1, LenProperties
  <2>3. \A k \in 1..(n + 1) : k # n + 1 => k \in 1..n
    BY <1>1
  <2> QED BY <2>1, <2>2, <2>3
<1>3. q = [k \in 1..n |-> TxnSequence(os[k])] /\ Len(q) = n
  BY <1>1 DEF Seqs
<1>4. Seqs(p) = [k \in 1..(n + 1) |-> IF k = n + 1 THEN y ELSE q[k]]
  <2>1. DOMAIN p = 1..(n + 1)
    BY <1>2
  <2>2. \A k \in 1..(n + 1) : TxnSequence(p[k]) = IF k = n + 1 THEN y ELSE q[k]
    <3> TAKE k \in 1..(n + 1)
    <3>1. CASE k = n + 1
      <4>1. p[k] = o
        BY <1>2, <3>1
      <4> QED BY <4>1, <3>1
    <3>2. CASE k # n + 1
      <4>1. p[k] = os[k] /\ k \in 1..n
        BY <1>1, <1>2, <3>2
      <4>2. q[k] = TxnSequence(os[k])
        BY <4>1, <1>3
      <4> QED BY <4>1, <4>2, <3>2
    <3> QED BY <3>1, <3>2
  <2> HIDE DEF p, y, q
  <2> QED BY <2>1, <2>2 DEF Seqs
<1>5. q \in Seq(Seq(Step)) /\ y \in Seq(Step)
  BY DEF Sequenced
<1> HIDE DEF p, y, q, n
<1>6. Append(q, y) = [k \in 1..(n + 1) |-> IF k = n + 1 THEN y ELSE q[k]]
  BY <1>1, <1>3, <1>5
<1>7. Seqs(p) = Append(q, y) /\ Append(q, y) \in Seq(Seq(Step))
  BY <1>4, <1>5, <1>6, AppendProperties
<1>8. FlattenSeq(Append(q, y)) = FlattenSeq(q) \o y /\ FlattenSeq(q) \in Seq(Step)
  BY <1>5, FlattenAppend, FlattenType
<1>9. ApplyAll(t, FlattenSeq(q) \o y) = ApplyAll(ApplyAll(t, FlattenSeq(q)), y)
  BY <1>5, <1>8, ApplyAllConcat
<1> QED BY <1>7, <1>8, <1>9 DEF After, Sequenced, p, y, q

\* The first transactions leave a text.
LEMMA GoodPrefix ==
  ASSUME NEW t \in Seq(Char), NEW os, Good(t, os), NEW N \in Nat, Len(os) = N
  PROVE  \A m \in 0..N : LET p == SubSeq(os, 1, m) IN
           p \in Seq(Seq(Item)) /\ Sequenced(p) /\ After(t, p) \in Seq(Char)
<1> DEFINE p(m) == SubSeq(os, 1, m)
           P(m) == p(m) \in Seq(Seq(Item)) /\ Sequenced(p(m)) /\ After(t, p(m)) \in Seq(Char)
           T == {m \in Nat : m <= N => P(m)}
<1>0. os \in Seq(Seq(Item))
  BY DEF Good
<1>1. T \in SUBSET Nat
  OBVIOUS
<1>2. 0 \in T
  <2>1. p(0) = <<>> /\ <<>> \in Seq(Seq(Item)) /\ <<>> \in Seq(Seq(Step))
    BY <1>0
  <2>2. Seqs(<<>>) = <<>>
    BY DEF Seqs
  <2>3. Sequenced(<<>>)
    BY <2>1, <2>2 DEF Sequenced
  <2>4. After(t, <<>>) = t
    BY AfterEmpty
  <2> QED BY <2>1, <2>3, <2>4
<1>3. ASSUME NEW m \in T PROVE m + 1 \in T
  <2>1. SUFFICES ASSUME m + 1 <= N PROVE P(m + 1)
    OBVIOUS
  <2>2. m \in Nat /\ m < N /\ m + 1 \in 1..Len(os) /\ (m + 1) - 1 = m
    BY <2>1
  <2>3. P(m)
    BY <2>2
  <2>4. p(m + 1) = Append(p(m), os[m + 1])
    BY <2>2, <1>0, PrefixAppend
  <2> DEFINE a == p(m)
             o == os[m + 1]
             u == After(t, a)
  <2>5. OpOn(o, u)
    BY <2>2 DEF Good
  <2>6. a \in Seq(Seq(Item)) /\ Sequenced(a) /\ u \in Seq(Char)
    BY <2>3
  <2> HIDE DEF a, o, u, p
  <2>7. o \in Seq(Item) /\ TxnSequence(o) \in Seq(Step) /\ ApplyAll(u, TxnSequence(o)) \in Seq(Char)
    BY <2>5, <2>6, OpOnIs
  <2>8. After(t, Append(a, o)) = ApplyAll(After(t, a), TxnSequence(o)) /\ Sequenced(Append(a, o))
    BY <2>6, <2>7, AfterAppend
  <2>9. Append(a, o) \in Seq(Seq(Item))
    BY <2>6, <2>7
  <2> QED BY <2>4, <2>7, <2>8, <2>9 DEF a, o, u
<1> HIDE DEF T
<1>4. T = Nat
  BY <1>1, <1>2, <1>3, Induction
<1>5. \A m \in 0..N : P(m)
  <2> TAKE m \in 0..N
  <2>1. m \in T /\ m <= N
    BY <1>4
  <2> QED BY <2>1 DEF T
<1> QED BY <1>5

\* All of them do.
LEMMA GoodIs ==
  ASSUME NEW t \in Seq(Char), NEW os, Good(t, os)
  PROVE  os \in Seq(Seq(Item)) /\ Sequenced(os) /\ After(t, os) \in Seq(Char) /\ Len(os) \in Nat
<1> DEFINE N == Len(os)
<1>1. os \in Seq(Seq(Item)) /\ N \in Nat
  BY DEF Good
<1>2. SubSeq(os, 1, N) = os /\ N \in 0..N
  BY <1>1
<1> HIDE DEF N
<1> QED BY <1>1, <1>2, GoodPrefix DEF N

\* Nothing pending is good.
LEMMA GoodEmpty ==
  ASSUME NEW t
  PROVE  Good(t, <<>>)
BY DEF Good

\* A transaction on the text the others leave may join them.
LEMMA GoodAppend ==
  ASSUME NEW t \in Seq(Char), NEW os \in Seq(Seq(Item)), NEW o
  PROVE  /\ Good(t, os) /\ OpOn(o, After(t, os)) => Good(t, Append(os, o))
         /\ o \in Seq(Item) /\ Good(t, Append(os, o)) => Good(t, os) /\ OpOn(o, After(t, os))
<1> DEFINE n == Len(os)
           p == Append(os, o)
<1> SUFFICES ASSUME o \in Seq(Item)
             PROVE  Good(t, os) /\ OpOn(o, After(t, os)) <=> Good(t, p)
  BY DEF OpOn
<1>1. /\ n \in Nat /\ p \in Seq(Seq(Item)) /\ Len(p) = n + 1 /\ p[n + 1] = o
      /\ \A k \in 1..n : p[k] = os[k]
  BY AppendProperties
<1>2. ASSUME NEW k \in 1..(n + 1)
      PROVE  SubSeq(p, 1, k - 1) = SubSeq(os, 1, k - 1)
  <2>1. \A i \in 1..(k - 1) : p[i] = os[i]
    BY <1>1
  <2>2. SubSeq(p, 1, k - 1) = [i \in 1..(k - 1) |-> p[i]]
    BY <1>1
  <2>3. SubSeq(os, 1, k - 1) = [i \in 1..(k - 1) |-> os[i]]
    BY <1>1
  <2> QED BY <2>1, <2>2, <2>3
<1>3. SubSeq(os, 1, (n + 1) - 1) = os
  BY <1>1
<1> HIDE DEF p, n
<1>4. ASSUME NEW k \in 1..n PROVE OpOn(p[k], After(t, SubSeq(p, 1, k - 1))) <=> OpOn(os[k], After(t, SubSeq(os, 1, k - 1)))
  <2>1. k \in 1..(n + 1)
    BY <1>1
  <2> QED BY <2>1, <1>1, <1>2
<1>5. OpOn(p[n + 1], After(t, SubSeq(p, 1, (n + 1) - 1))) <=> OpOn(o, After(t, os))
  <2>1. n + 1 \in 1..(n + 1)
    BY <1>1
  <2> QED BY <2>1, <1>1, <1>2, <1>3
<1>6. ASSUME NEW k \in 1..(n + 1) PROVE k \in 1..n \/ k = n + 1
  BY <1>1
<1>7. (\A k \in 1..(n + 1) : OpOn(p[k], After(t, SubSeq(p, 1, k - 1)))) <=>
        OpOn(o, After(t, os)) /\ \A k \in 1..n : OpOn(os[k], After(t, SubSeq(os, 1, k - 1)))
  <2>1. n + 1 \in 1..(n + 1) /\ \A k \in 1..n : k \in 1..(n + 1)
    BY <1>1
  <2> QED BY <2>1, <1>4, <1>5, <1>6
<1> QED BY <1>1, <1>7 DEF Good, n

-----------------------------------------------------------------------------
(* revert_suffix *)

\* The first m transactions and the next.
LEMMA PrefixStep ==
  ASSUME NEW t \in Seq(Char), NEW os, Good(t, os), NEW N \in Nat, Len(os) = N, NEW m \in Nat, m < N
  PROVE  /\ After(t, SubSeq(os, 1, m)) \in Seq(Char)
         /\ OpOn(os[m + 1], After(t, SubSeq(os, 1, m)))
         /\ After(t, SubSeq(os, 1, m + 1)) = ApplyAll(After(t, SubSeq(os, 1, m)), TxnSequence(os[m + 1]))
<1> DEFINE a == SubSeq(os, 1, m)
           o == os[m + 1]
           u == After(t, a)
<1>0. os \in Seq(Seq(Item)) /\ m \in 0..N /\ m + 1 \in 1..Len(os) /\ (m + 1) - 1 = m
  BY DEF Good
<1>1. SubSeq(os, 1, m + 1) = Append(a, o)
  BY <1>0, PrefixAppend
<1>2. a \in Seq(Seq(Item)) /\ Sequenced(a) /\ u \in Seq(Char)
  BY <1>0, GoodPrefix
<1>3. OpOn(o, u)
  BY <1>0 DEF Good
<1> HIDE DEF a, o, u
<1>4. o \in Seq(Item) /\ TxnSequence(o) \in Seq(Step)
  BY <1>2, <1>3, OpOnIs
<1>5. After(t, Append(a, o)) = ApplyAll(After(t, a), TxnSequence(o))
  BY <1>2, <1>4, AfterAppend
<1> QED BY <1>1, <1>2, <1>3, <1>5 DEF a, o, u

\* The first transactions of good ones are good.
LEMMA PrefixGood ==
  ASSUME NEW t, NEW os, Good(t, os), NEW N \in Nat, Len(os) = N, NEW n \in 0..N
  PROVE  Good(t, SubSeq(os, 1, n)) /\ Len(SubSeq(os, 1, n)) = n
<1> DEFINE p == SubSeq(os, 1, n)
<1>1. os \in Seq(Seq(Item)) /\ os \in [1..N -> Seq(Item)]
  BY LenProperties DEF Good
<1>2. p = [i \in 1..n |-> os[i]]
  BY <1>1
<1>3. p \in Seq(Seq(Item)) /\ Len(p) = n
  <2>1. \A i \in 1..n : os[i] \in Seq(Item)
    BY <1>1
  <2> HIDE DEF p
  <2> QED BY <1>2, <2>1
<1> HIDE DEF p
<1>4. ASSUME NEW k \in 1..n PROVE OpOn(p[k], After(t, SubSeq(p, 1, k - 1)))
  <2>1. SubSeq(p, 1, k - 1) = [i \in 1..(k - 1) |-> p[i]]
    BY <1>3
  <2>2. SubSeq(os, 1, k - 1) = [i \in 1..(k - 1) |-> os[i]]
    BY <1>1
  <2>3. \A i \in 1..(k - 1) : p[i] = os[i]
    BY <1>2
  <2>4. SubSeq(p, 1, k - 1) = SubSeq(os, 1, k - 1)
    BY <2>1, <2>2, <2>3
  <2>5. p[k] = os[k] /\ k \in 1..Len(os)
    BY <1>2
  <2> QED BY <2>4, <2>5 DEF Good
<1> QED BY <1>3, <1>4 DEF Good, p

\* revert_suffix on a view v: the transactions after the first n undone, last first.
UndoneTo(v, os, n) ==
  LET suffix == SubSeq(os, n + 1, Len(os))
  IN ApplyAll(v, FlattenSeq([k \in DOMAIN suffix |-> InverseSteps(suffix[Len(suffix) + 1 - k])]))

\* It leaves the text of the first n transactions.
LEMMA UndoneIs ==
  ASSUME NEW t \in Seq(Char), NEW os, Good(t, os), NEW N \in Nat, Len(os) = N, NEW n \in 0..N
  PROVE  UndoneTo(After(t, os), os, n) = After(t, SubSeq(os, 1, n))
<1> DEFINE L == N - n
           R == [k \in 1..L |-> InverseSteps(os[N + 1 - k])]
           v == After(t, os)
           A(m) == After(t, SubSeq(os, 1, m))
<1>1. os \in Seq(Seq(Item)) /\ os \in [1..N -> Seq(Item)]
  BY LenProperties DEF Good
<1>2. L \in Nat /\ L = N - n /\ L <= N
  OBVIOUS
<1>3. UndoneTo(v, os, n) = ApplyAll(v, FlattenSeq(R))
  <2> DEFINE s == SubSeq(os, n + 1, N)
  <2>1. s = [i \in 1..L |-> os[n + i]]
    BY <1>1
  <2>2. s \in Seq(Seq(Item)) /\ Len(s) = L
    <3>1. \A i \in 1..L : os[n + i] \in Seq(Item)
      BY <1>1
    <3> HIDE DEF s
    <3> QED BY <2>1, <3>1, <1>2
  <2> HIDE DEF s, L
  <2>3. DOMAIN s = 1..L
    BY <2>1
  <2>4. \A k \in 1..L : InverseSteps(s[Len(s) + 1 - k]) = InverseSteps(os[N + 1 - k])
    <3> TAKE k \in 1..L
    <3>1. Len(s) + 1 - k \in 1..L /\ n + (Len(s) + 1 - k) = N + 1 - k
      BY <2>2, <1>2
    <3> QED BY <2>1, <3>1
  <2>5. [k \in DOMAIN s |-> InverseSteps(s[Len(s) + 1 - k])] = R
    BY <2>3, <2>4
  <2> HIDE DEF R
  <2> QED BY <2>5 DEF UndoneTo, s
<1>4. ASSUME NEW k \in 1..N
      PROVE  /\ InverseSteps(os[k]) \in Seq(Step)
             /\ ApplyAll(A(k), InverseSteps(os[k])) = A(k - 1)
  <2> DEFINE u == A(k - 1)
             o == os[k]
  <2>1. k - 1 \in Nat /\ k - 1 < N /\ (k - 1) + 1 = k
    OBVIOUS
  <2>2. u \in Seq(Char) /\ OpOn(o, u) /\ A(k) = ApplyAll(u, TxnSequence(o))
    <3>1. /\ A(k - 1) \in Seq(Char)
          /\ OpOn(os[(k - 1) + 1], A(k - 1))
          /\ A((k - 1) + 1) = ApplyAll(A(k - 1), TxnSequence(os[(k - 1) + 1]))
      BY <2>1, PrefixStep
    <3> QED BY <3>1, <2>1
  <2> HIDE DEF u, o, A
  <2>3. InverseSteps(o) \in Seq(Step) /\ ApplyAll(ApplyAll(u, TxnSequence(o)), InverseSteps(o)) = u
    BY <2>2, OpOnIs
  <2> QED BY <2>2, <2>3 DEF u, o
<1>5. \A k \in 1..L : N + 1 - k \in 1..N
  BY <1>2
<1>6. R \in Seq(Seq(Step)) /\ Len(R) = L
  <2>1. \A k \in 1..L : InverseSteps(os[N + 1 - k]) \in Seq(Step)
    BY <1>4, <1>5
  <2> HIDE DEF L
  <2> QED BY <2>1, <1>2
<1>7. \A k \in 1..L : R[k] = InverseSteps(os[N + 1 - k])
  OBVIOUS
<1> HIDE DEF R, L, A
<1> DEFINE F(m) == ApplyAll(v, FlattenSeq(SubSeq(R, 1, m)))
           T == {m \in Nat : m <= L => F(m) = A(N - m)}
<1>8. T \in SUBSET Nat
  OBVIOUS
<1>9. 0 \in T
  <2>1. SubSeq(R, 1, 0) = <<>> /\ SubSeq(os, 1, N) = os /\ N - 0 = N
    BY <1>1, <1>6
  <2>2. F(0) = v
    <3> HIDE DEF v
    <3> QED BY <2>1, FlattenEmpty, ApplyAllEmpty
  <2> QED BY <2>1, <2>2 DEF A
<1>10. ASSUME NEW m \in T PROVE m + 1 \in T
  <2>1. SUFFICES ASSUME m + 1 <= L PROVE F(m + 1) = A(N - (m + 1))
    OBVIOUS
  <2>2. /\ m \in Nat /\ m < L /\ m <= L /\ m + 1 \in 1..L /\ N - m \in 1..N
        /\ N + 1 - (m + 1) = N - m /\ (N - m) - 1 = N - (m + 1)
    BY <2>1, <1>2
  <2>3. F(m) = A(N - m)
    <3> HIDE DEF F
    <3> QED BY <2>2
  <2> DEFINE p == SubSeq(R, 1, m)
             r == R[m + 1]
  <2>4. p \in Seq(Seq(Step)) /\ r \in Seq(Step) /\ SubSeq(R, 1, m + 1) = Append(p, r)
    BY <2>2, <1>6, PrefixAppend
  <2>5. r = InverseSteps(os[N - m])
    BY <2>2, <1>7
  <2>6. ApplyAll(A(N - m), r) = A(N - (m + 1))
    BY <2>2, <2>5, <1>4
  <2> HIDE DEF p, r, v
  <2>7. FlattenSeq(Append(p, r)) = FlattenSeq(p) \o r /\ FlattenSeq(p) \in Seq(Step)
    BY <2>4, FlattenAppend, FlattenType
  <2>8. ApplyAll(v, FlattenSeq(p) \o r) = ApplyAll(ApplyAll(v, FlattenSeq(p)), r)
    BY <2>4, <2>7, ApplyAllConcat
  <2> QED BY <2>3, <2>4, <2>6, <2>7, <2>8 DEF p
<1> HIDE DEF T
<1>11. T = Nat
  BY <1>8, <1>9, <1>10, Induction
<1>12. F(L) = A(N - L) /\ N - L = n /\ SubSeq(R, 1, L) = R
  <2>1. N - L = n /\ SubSeq(R, 1, L) = R /\ L \in T
    BY <1>11, <1>2, <1>6
  <2> QED BY <2>1, <1>2 DEF T
<1> QED BY <1>3, <1>12 DEF A

-----------------------------------------------------------------------------
(* fold_remote: one step through the pending transactions *)

\* Transactions with the same insertions, elsewhere.
SameIns(m, o) == Len(m) = Len(o) /\ \A i \in 1..Len(o) : m[i].ins = o[i].ins

\* Lists of such transactions.
SameTyped(as, os) == Len(as) = Len(os) /\ \A k \in 1..Len(os) : SameIns(as[k], os[k])

\* p is s and then x.
IsAppend(p, s, x, n) == Len(p) = n + 1 /\ p[n + 1] = x /\ \A k \in 1..n : p[k] = s[k]

\* What an append holds.
LEMMA AppendIs ==
  ASSUME NEW S, NEW s \in Seq(S), NEW x \in S, NEW n \in Nat, Len(s) = n
  PROVE  IsAppend(Append(s, x), s, x, n) /\ Append(s, x) \in Seq(S)
BY AppendProperties DEF IsAppend

\* Insertions stay the same when one more transaction is passed.
LEMMA SameTypedAppend ==
  ASSUME NEW as, NEW os, NEW m, NEW o, NEW p, NEW q, NEW n \in Nat, Len(os) = n, SameTyped(as, os), SameIns(m, o),
         IsAppend(p, as, m, n), IsAppend(q, os, o, n)
  PROVE  SameTyped(p, q)
<1>1. \A k \in 1..(n + 1) : k \in 1..n \/ k = n + 1
  OBVIOUS
<1>2. Len(p) = n + 1 /\ Len(q) = n + 1
  BY DEF IsAppend
<1>3. ASSUME NEW k \in 1..(n + 1) PROVE SameIns(p[k], q[k])
  <2>1. CASE k \in 1..n
    <3>1. p[k] = as[k] /\ q[k] = os[k]
      BY <2>1 DEF IsAppend
    <3>2. SameIns(as[k], os[k])
      BY <2>1 DEF SameTyped
    <3> QED BY <3>1, <3>2
  <2>2. CASE k = n + 1
    <3>1. p[k] = m /\ q[k] = o
      BY <2>2 DEF IsAppend
    <3> QED BY <3>1
  <2> QED BY <1>1, <2>1, <2>2
<1> QED BY <1>2, <1>3 DEF SameTyped

\* What a step x on t and the transactions os on t become of one another.
Passed(t, x, os, a) ==
  /\ a.ops \in Seq(Seq(Item)) /\ Good(ApplyStep(t, x), a.ops)
  /\ a.x \in Step /\ Fits(a.x, After(t, os))
  /\ After(ApplyStep(t, x), a.ops) = ApplyStep(After(t, os), a.x)
  /\ SameTyped(a.ops, os)
  /\ Len(os) >= 1 => a.ops[1] = MovedBy(x, os[1]) /\ ~Refused(a.ops[1])

\* x got through all of them, or it failed; with one transaction pending it failed because
\* that one overlaps.
AcrossIs(t, x, os, a) ==
  /\ a.failed \in BOOLEAN
  /\ ~a.failed => Passed(t, x, os, a)
  /\ a.failed => Len(os) >= 1
  /\ a.failed /\ Len(os) = 1 => Refused(MovedBy(x, os[1]))

\* What ThroughOp does: nothing after a failure, else pass or fail.
LEMMA ThroughOpIs ==
  ASSUME NEW a, NEW o, a.failed \in BOOLEAN
  PROVE  LET moved == MovedBy(a.x, o)
             z == Moved(a.x, ThroughSet(a.x, o, SelfFirst))
         IN /\ a.failed => ThroughOp(a, o) = a
            /\ ~a.failed /\ ~Refused(moved) /\ RangeOf(z) # Overlap =>
                 ThroughOp(a, o) = [x |-> z, ops |-> Append(a.ops, moved), failed |-> FALSE]
            /\ ~a.failed /\ Refused(moved) => ThroughOp(a, o) = [a EXCEPT !.failed = TRUE]
<1> DEFINE moved == MovedBy(a.x, o)
           z == Moved(a.x, ThroughSet(a.x, o, SelfFirst))
<1>1. ThroughOp(a, o) = IF a.failed THEN a ELSE Crossed(a, moved, z)
  BY DEF ThroughOp, MovedBy
<1>2. Crossed(a, moved, z) = IF Refused(moved) \/ RangeOf(z) = Overlap THEN [a EXCEPT !.failed = TRUE]
                             ELSE [x |-> z, ops |-> Append(a.ops, moved), failed |-> FALSE]
  BY DEF Crossed
<1> HIDE DEF moved, z
<1>3. /\ a.failed => ThroughOp(a, o) = a
      /\ ~a.failed /\ ~Refused(moved) /\ RangeOf(z) # Overlap =>
                 ThroughOp(a, o) = [x |-> z, ops |-> Append(a.ops, moved), failed |-> FALSE]
      /\ ~a.failed /\ Refused(moved) => ThroughOp(a, o) = [a EXCEPT !.failed = TRUE]
  BY <1>1, <1>2
<1> QED BY <1>3 DEF moved, z

\* Passing one transaction more: the diamond on top of what was passed.
LEMMA PassedOne ==
  ASSUME NEW t \in Seq(Char), NEW x \in Step, Fits(x, t), NEW q \in Seq(Seq(Item)), NEW o \in Seq(Item),
         Good(t, q), OpOn(o, After(t, q)), NEW a, Passed(t, x, q, a), ~Refused(MovedBy(a.x, o)),
         NEW b, b = [x |-> Moved(a.x, ThroughSet(a.x, o, SelfFirst)), ops |-> Append(a.ops, MovedBy(a.x, o)), failed |-> FALSE],
         Len(q) = 0 => a.x = x /\ a.ops = <<>>
  PROVE  /\ RangeOf(Moved(a.x, ThroughSet(a.x, o, SelfFirst))) # Overlap
         /\ Passed(t, x, Append(q, o), b)
<1> DEFINE u == After(t, q)
           T == ApplyStep(t, x)
           y == a.x
           as == a.ops
           m == MovedBy(y, o)
           z == Moved(y, ThroughSet(y, o, SelfFirst))
           n == Len(o)
           w == ApplyStep(u, y)
<1>1. u \in Seq(Char) /\ y \in Step /\ Fits(y, u) /\ as \in Seq(Seq(Item)) /\ Good(T, as) /\ After(T, as) = w /\ SameTyped(as, q)
  BY GoodIs DEF Passed
<1>2. n \in Nat /\ o \in [1..n -> Item] /\ Tidy(o, n, u) /\ Remembers(o, n, u) /\ TxnSequence(o) \in Seq(Step)
  BY <1>1, OpOnIs DEF OpOn
<1>3. T \in Seq(Char) /\ w \in Seq(Char)
  BY <1>1, StepIs
<1>4. b.x = z /\ b.ops = Append(as, m)
  OBVIOUS
<1>5. ~Refused(m)
  OBVIOUS
<1>a. (Len(q) = 0 => y = x /\ as = <<>>) /\ (Len(q) >= 1 => as[1] = MovedBy(x, q[1]) /\ ~Refused(as[1]))
  BY DEF Passed
<1>b. Good(t, q) /\ Sequenced(q)
  BY GoodIs
<1> HIDE DEF T, y, as, m, z, n, w, u
<1>6. Meets(u, y, o, m, z, n)
  <2>1. Meets(u, y, o, MovedBy(y, o), Moved(y, ThroughSet(y, o, SelfFirst)), n)
    <3>1. ~Refused(MovedBy(y, o))
      BY <1>5 DEF m
    <3> QED BY <1>1, <1>2, <3>1, Cross
  <2> QED BY <2>1 DEF m, z
<1>7. /\ m \in [1..n -> Item] /\ Tidy(m, n, w) /\ Remembers(m, n, w) /\ \A k \in 1..n : m[k].ins = o[k].ins
      /\ z \in Step /\ RangeOf(z) # Overlap
      /\ Fits(z, ApplyAll(u, TxnSequence(o)))
      /\ ApplyStep(ApplyAll(u, TxnSequence(o)), z) = ApplyAll(w, TxnSequence(m))
  BY <1>2, <1>6 DEF Meets, w
<1>8. m \in Seq(Item) /\ Len(m) = n
  BY <1>2, <1>7
<1>9. OpOn(m, w)
  BY <1>7, <1>8 DEF OpOn
<1>10. Good(T, Append(as, m)) /\ Sequenced(as) /\ TxnSequence(m) \in Seq(Step)
  <2>1. OpOn(m, After(T, as))
    BY <1>1, <1>9
  <2>2. Good(T, Append(as, m))
    BY <1>1, <1>3, <2>1, GoodAppend
  <2> QED BY <1>1, <1>3, <1>9, <2>2, OpOnIs, GoodIs
<1>11. After(T, Append(as, m)) = ApplyAll(w, TxnSequence(m))
  BY <1>1, <1>8, <1>10, AfterAppend
<1>12. After(t, Append(q, o)) = ApplyAll(u, TxnSequence(o))
  BY <1>2, <1>b, AfterAppend DEF u
<1>13. SameTyped(Append(as, m), Append(q, o))
  <2> DEFINE N == Len(q)
             p == Append(as, m)
             r == Append(q, o)
  <2>1. N \in Nat /\ Len(q) = N
    OBVIOUS
  <2>2. Len(as) = N
    BY <1>1 DEF SameTyped
  <2>3. IsAppend(p, as, m, N)
    BY <1>1, <1>8, <2>1, <2>2, AppendIs
  <2>4. IsAppend(r, q, o, N)
    BY <2>1, AppendIs
  <2>5. SameIns(m, o)
    BY <1>7, <1>8 DEF SameIns, n
  <2> HIDE DEF N, p, r
  <2>6. SameTyped(p, r)
    BY <2>1, <2>3, <2>4, <2>5, <1>1, SameTypedAppend
  <2> QED BY <2>6 DEF p, r
<1>14. Append(as, m)[1] = MovedBy(x, Append(q, o)[1]) /\ ~Refused(Append(as, m)[1])
  <2>1. CASE Len(q) = 0
    <3>1. as = <<>> /\ y = x /\ q = <<>>
      BY <2>1, <1>a
    <3>2. Append(as, m)[1] = m /\ Append(q, o)[1] = o
      BY <3>1, <1>8
    <3> QED BY <3>1, <3>2, <1>5 DEF m
  <2>2. CASE Len(q) >= 1
    <3>1. Append(as, m)[1] = as[1] /\ Append(q, o)[1] = q[1]
      <4> DEFINE N == Len(q)
      <4>1. Len(as) = N /\ 1 \in 1..N /\ N \in Nat /\ Len(q) = N
        BY <2>2, <1>1 DEF SameTyped
      <4> HIDE DEF N
      <4>2. IsAppend(Append(as, m), as, m, N)
        BY <1>1, <1>8, <4>1, AppendIs
      <4>3. IsAppend(Append(q, o), q, o, N)
        BY <4>1, AppendIs
      <4> QED BY <4>1, <4>2, <4>3 DEF IsAppend
    <3> QED BY <3>1, <2>2, <1>a
  <2>3. Len(q) = 0 \/ Len(q) >= 1
    <3>1. Len(q) \in Nat
      OBVIOUS
    <3> QED BY <3>1
  <2> QED BY <2>1, <2>2, <2>3
<1>15. Append(as, m) \in Seq(Seq(Item))
  BY <1>1, <1>8, AppendProperties
<1>16. Passed(t, x, Append(q, o), b)
  BY <1>4, <1>7, <1>10, <1>11, <1>12, <1>13, <1>14, <1>15 DEF Passed, T
<1> QED BY <1>7, <1>16 DEF z, y

\* The state of a pass is a record with these fields.
AcrossState(a) == a = [x |-> a.x, ops |-> a.ops, failed |-> a.failed] /\ a.failed \in BOOLEAN

\* A failure changes no other field of a pass.
LEMMA SetFailed ==
  ASSUME NEW u, NEW v, NEW w
  PROVE  [[x |-> u, ops |-> v, failed |-> w] EXCEPT !.failed = TRUE] = [x |-> u, ops |-> v, failed |-> TRUE]
<1>1. \A b : [[x |-> u, ops |-> v, failed |-> w] EXCEPT !.failed = b] = [x |-> u, ops |-> v, failed |-> b]
  OBVIOUS
<1> QED BY <1>1

\* A step through any number of pending transactions.
LEMMA AcrossLemma ==
  ASSUME NEW t \in Seq(Char), NEW x \in Step, Fits(x, t)
  PROVE  \A os \in Seq(Seq(Item)) :
           Good(t, os) => AcrossState(Across(x, os)) /\ AcrossIs(t, x, os, Across(x, os))
<1> DEFINE P(os) == Good(t, os) => AcrossState(Across(x, os)) /\ AcrossIs(t, x, os, Across(x, os))
           Q == {os \in Seq(Seq(Item)) : P(os)}
<1>1. <<>> \in Q
  <2> DEFINE a == Across(x, <<>>)
             e == <<>>
  <2>1. a = [x |-> x, ops |-> e, failed |-> FALSE]
    BY AcrossEmpty
  <2>2. a.x = x /\ a.ops = e /\ a.failed = FALSE /\ AcrossState(a)
    <3> HIDE DEF a, e
    <3> QED BY <2>1 DEF AcrossState
  <2>3. e \in Seq(Seq(Item)) /\ Len(e) = 0
    OBVIOUS
  <2>4. Good(t, e) /\ Good(ApplyStep(t, x), e) /\ After(t, e) = t /\ After(ApplyStep(t, x), e) = ApplyStep(t, x)
    BY GoodEmpty, AfterEmpty
  <2> HIDE DEF a, e
  <2>5. SameTyped(e, e)
    BY <2>3 DEF SameTyped
  <2>6. Passed(t, x, e, a)
    BY <2>2, <2>3, <2>4, <2>5 DEF Passed
  <2>7. AcrossIs(t, x, e, a)
    BY <2>2, <2>6 DEF AcrossIs
  <2> QED BY <2>2, <2>3, <2>7 DEF a, e
<1>2. ASSUME NEW q \in Seq(Seq(Item)), NEW o \in Seq(Item), q \in Q PROVE Append(q, o) \in Q
  <2> DEFINE r == Append(q, o)
  <2>0. r \in Seq(Seq(Item))
    OBVIOUS
  <2> SUFFICES ASSUME Good(t, r) PROVE AcrossState(Across(x, r)) /\ AcrossIs(t, x, r, Across(x, r))
    BY <2>0
  <2>1. Good(t, q) /\ OpOn(o, After(t, q))
    BY GoodAppend
  <2> DEFINE a == Across(x, q)
             b == Across(x, r)
             m == MovedBy(a.x, o)
             z == Moved(a.x, ThroughSet(a.x, o, SelfFirst))
             N == Len(q)
  <2>2. AcrossState(a) /\ AcrossIs(t, x, q, a)
    BY <1>2, <2>1
  <2>3. b = ThroughOp(a, o)
    BY AcrossAppend
  <2>4. N \in Nat /\ Len(q) = N /\ IsAppend(r, q, o, N)
    BY AppendIs
  <2>5. N = 0 => a.x = x /\ a.ops = <<>> /\ r[1] = o /\ ~a.failed
    <3> SUFFICES ASSUME N = 0 PROVE a.x = x /\ a.ops = <<>> /\ r[1] = o /\ ~a.failed
      OBVIOUS
    <3>1. q = <<>>
      OBVIOUS
    <3>2. a = [x |-> x, ops |-> <<>>, failed |-> FALSE]
      BY <3>1, AcrossEmpty
    <3>3. r[1] = o
      BY <3>1
    <3> HIDE DEF a, r
    <3> QED BY <3>2, <3>3
  <2>6. a.failed \in BOOLEAN /\ (~a.failed => Passed(t, x, q, a)) /\ (a.failed => N >= 1)
    BY <2>2 DEF AcrossIs
  <2>7. /\ a.failed => b = a
        /\ ~a.failed /\ ~Refused(m) /\ RangeOf(z) # Overlap => b = [x |-> z, ops |-> Append(a.ops, m), failed |-> FALSE]
        /\ ~a.failed /\ Refused(m) => b = [a EXCEPT !.failed = TRUE]
    <3> HIDE DEF a, b
    <3> QED BY <2>3, <2>6, ThroughOpIs
  <2>8. Len(r) = N + 1 /\ N + 1 >= 1 /\ (N + 1 = 1 => N = 0)
    BY <2>4 DEF IsAppend
  <2>9. CASE a.failed
    <3> HIDE DEF a, b, r, N
    <3>1. b = a /\ N >= 1 /\ b.failed = TRUE
      BY <2>6, <2>7, <2>9
    <3>3. Len(r) >= 1 /\ Len(r) # 1
      BY <3>1, <2>4, <2>8
    <3>2. AcrossIs(t, x, r, b)
      BY <3>1, <3>3 DEF AcrossIs
    <3> QED BY <3>1, <3>2, <2>2 DEF b
  <2>10. CASE ~a.failed /\ Refused(m)
    <3> DEFINE c == [x |-> a.x, ops |-> a.ops, failed |-> TRUE]
    <3>1. b = c
      <4>1. b = [a EXCEPT !.failed = TRUE]
        BY <2>7, <2>10
      <4>2. a = [x |-> a.x, ops |-> a.ops, failed |-> a.failed]
        BY <2>2 DEF AcrossState
      <4> HIDE DEF a, b
      <4>3. [[x |-> a.x, ops |-> a.ops, failed |-> a.failed] EXCEPT !.failed = TRUE] = c
        BY SetFailed
      <4> QED BY <4>1, <4>2, <4>3
    <3>2. b.failed = TRUE /\ AcrossState(b)
      <4> HIDE DEF a, b
      <4> QED BY <3>1 DEF AcrossState
    <3>3. N = 0 => Refused(MovedBy(x, r[1]))
      <4> HIDE DEF a, b, r, N
      <4> QED BY <2>5, <2>10
    <3> HIDE DEF a, b, r, N
    <3>4. AcrossIs(t, x, r, b)
      BY <3>2, <3>3, <2>8 DEF AcrossIs
    <3> QED BY <3>2, <3>4 DEF b
  <2>11. CASE ~a.failed /\ ~Refused(m)
    <3> DEFINE c == [x |-> z, ops |-> Append(a.ops, m), failed |-> FALSE]
    <3>1. Passed(t, x, q, a)
      BY <2>6, <2>11
    <3>2. RangeOf(z) # Overlap /\ Passed(t, x, r, c)
      <4>1. c = [x |-> z, ops |-> Append(a.ops, m), failed |-> FALSE] /\ ~Refused(m) /\ (Len(q) = 0 => a.x = x /\ a.ops = <<>>)
        BY <2>5, <2>11
      <4> HIDE DEF a, c
      <4> QED BY <4>1, <3>1, <2>1, PassedOne
    <3>3. b = c
      BY <2>7, <2>11, <3>2
    <3>4. c.failed = FALSE /\ AcrossState(c)
      <4> HIDE DEF a, m, z
      <4> QED BY DEF AcrossState
    <3> HIDE DEF a, b, c, r, N
    <3>5. AcrossIs(t, x, r, b)
      BY <3>2, <3>3, <3>4 DEF AcrossIs
    <3> QED BY <3>3, <3>4, <3>5 DEF b
  <2> HIDE DEF a, m
  <2> QED BY <2>6, <2>9, <2>10, <2>11
<1> HIDE DEF Q
<1>3. \A os \in Seq(Seq(Item)) : os \in Q
  BY <1>1, <1>2, SeqInduction
<1> QED BY <1>3 DEF Q

-----------------------------------------------------------------------------
(* resolve_txn: a rebase through steps *)

\* Two offsets.
RawRange == [s : Int, e : Int]

\* transform_raw yields two offsets.
LEMMA RawType ==
  ASSUME NEW r, r.s \in Int, r.e \in Int, NEW x \in Step, NEW prio
  PROVE  TransformRaw(r, x, prio) \in RawRange
<1>1. Len(x.ins) \in Nat /\ x.s \in Int /\ x.e \in Int
  BY LenProperties DEF Step
<1> DEFINE d == Len(x.ins) - (x.e - x.s)
<1>4. d \in Int
  BY <1>1
<1>5. Shifted(r, x) = [s |-> r.s + d, e |-> r.e + d]
  BY DEF Shifted
<1> HIDE DEF d
<1>6. r.s + d \in Int /\ r.e + d \in Int
  BY <1>4
<1>2. Shifted(r, x) \in RawRange /\ RangeOf(r) \in RawRange /\ Overlap \in RawRange
  BY <1>5, <1>6 DEF RangeOf, Overlap, RawRange
<1>3. TransformRaw(r, x, prio) \in {Shifted(r, x), RangeOf(r), Overlap}
  BY DEF TransformRaw
<1> QED BY <1>2, <1>3

\* So does transform_set.
LEMMA TransformType ==
  ASSUME NEW r, r.s \in Int, r.e \in Int
  PROVE  \A q \in Seq(Step) : TransformSteps(r, q, ThroughFirst) \in RawRange
<1> DEFINE Q == {q \in Seq(Step) : TransformSteps(r, q, ThroughFirst) \in RawRange}
<1>1. <<>> \in Q
  <2>1. TransformSteps(r, <<>>, ThroughFirst) = RangeOf(r)
    BY TransformEmpty
  <2>2. RangeOf(r) \in RawRange
    BY DEF RangeOf, RawRange
  <2> QED BY <2>1, <2>2
<1>2. ASSUME NEW q \in Seq(Step), NEW x \in Step, q \in Q PROVE Append(q, x) \in Q
  <2> DEFINE m == TransformSteps(r, q, ThroughFirst)
             m2 == TransformSteps(r, Append(q, x), ThroughFirst)
  <2>1. m2 = IF m = Overlap THEN Overlap ELSE TransformRaw(m, x, ThroughFirst)
    BY TransformAppend
  <2>2. m \in RawRange
    BY <1>2
  <2> HIDE DEF m, m2
  <2>3. m.s \in Int /\ m.e \in Int
    BY <2>2 DEF RawRange
  <2>4. TransformRaw(m, x, ThroughFirst) \in RawRange
    BY <2>3, RawType
  <2>5. Overlap \in RawRange
    BY DEF Overlap, RawRange
  <2>6. m2 \in RawRange
    BY <2>1, <2>4, <2>5
  <2> QED BY <2>6 DEF m2
<1> HIDE DEF Q
<1>3. \A q \in Seq(Step) : q \in Q
  BY <1>1, <1>2, SeqInduction
<1> QED BY <1>3 DEF Q

\* transform_raw looks at the two offsets only.
LEMMA RawSame ==
  ASSUME NEW r, NEW p, r.s = p.s, r.e = p.e, NEW x, NEW prio
  PROVE  TransformRaw(r, x, prio) = TransformRaw(p, x, prio) /\ RangeOf(r) = RangeOf(p)
BY DEF TransformRaw, LiesLeft, LiesRight, IsEmpty, Shifted, RangeOf

\* So does transform_set.
LEMMA StepsSame ==
  ASSUME NEW r, NEW p, r.s = p.s, r.e = p.e, NEW q \in Seq(Step)
  PROVE  TransformSteps(r, q, ThroughFirst) = TransformSteps(p, q, ThroughFirst)
<1>1. RangeOf(r) = RangeOf(p)
  BY DEF RangeOf
<1> QED BY <1>1, TransformStepsFold

\* Items are equal when their fields are.
LEMMA SameItem ==
  ASSUME NEW a \in Item, NEW b \in Item, a.s = b.s, a.e = b.e, a.ins = b.ins, a.deleted = b.deleted
  PROVE  a = b
BY DEF Item

\* The last move decides.
LEMMA MovedTwice ==
  ASSUME NEW c \in Item, NEW r \in RawRange, NEW p \in RawRange
  PROVE  Moved(Moved(c, r), p) = Moved(c, p) /\ Moved(c, RangeOf(c)) = c
<1> DEFINE d == Moved(c, r)
           a == Moved(d, p)
           b == Moved(c, p)
           f == Moved(c, RangeOf(c))
<1>0. r.s \in Int /\ r.e \in Int /\ p.s \in Int /\ p.e \in Int
  BY DEF RawRange
<1>1. d \in Item /\ d.ins = c.ins /\ d.deleted = c.deleted
  BY <1>0, MovedItem
<1> HIDE DEF d
<1>2. a \in Item /\ a.s = p.s /\ a.e = p.e /\ a.ins = c.ins /\ a.deleted = c.deleted
  BY <1>0, <1>1, MovedItem
<1>3. b \in Item /\ b.s = p.s /\ b.e = p.e /\ b.ins = c.ins /\ b.deleted = c.deleted
  BY <1>0, MovedItem
<1>4. f \in Item /\ f.s = c.s /\ f.e = c.e /\ f.ins = c.ins /\ f.deleted = c.deleted
  <2>1. RangeOf(c).s = c.s /\ RangeOf(c).e = c.e /\ c.s \in Int /\ c.e \in Int
    BY DEF RangeOf, Item
  <2> QED BY <2>1, MovedItem
<1> HIDE DEF a, b, f
<1>5. a = b /\ f = c
  BY <1>2, <1>3, <1>4, SameItem
<1> QED BY <1>5 DEF a, b, f, d

\* Where a rebase puts one item.
LEMMA RebaseItem ==
  ASSUME NEW n \in Nat, NEW o \in [1..n -> Item], NEW q \in Seq(Step), NEW k \in 1..n
  PROVE  LET r == TransformSteps(o[k], q, ThroughFirst) IN
         /\ r \in RawRange
         /\ Rebase(o, q)[k] = Moved(o[k], r)
         /\ Rebase(o, q)[k] \in Item
         /\ Rebase(o, q)[k].s = r.s /\ Rebase(o, q)[k].e = r.e
         /\ Rebase(o, q)[k].ins = o[k].ins
         /\ RangeOf(Rebase(o, q)[k]) = r
<1> DEFINE c == o[k]
           r == TransformSteps(c, q, ThroughFirst)
           p == Rebase(o, q)[k]
<1>1. c \in Item /\ c.s \in Int /\ c.e \in Int
  BY DEF Item
<1>2. r \in RawRange
  <2> HIDE DEF c
  <2> QED BY <1>1, TransformType
<1>3. p = Moved(c, r)
  BY DEF Rebase
<1> HIDE DEF c, r, p
<1>4. r.s \in Int /\ r.e \in Int
  BY <1>2 DEF RawRange
<1>5. p \in Item /\ p.s = r.s /\ p.e = r.e /\ p.ins = c.ins
  BY <1>1, <1>3, <1>4, MovedItem
<1>6. RangeOf(p) = r
  BY <1>2, <1>5 DEF RangeOf, RawRange
<1> QED BY <1>2, <1>3, <1>5, <1>6 DEF c, r, p

\* A rebase yields as many items.
LEMMA RebaseType ==
  ASSUME NEW n \in Nat, NEW o \in [1..n -> Item], NEW q \in Seq(Step)
  PROVE  Rebase(o, q) \in [1..n -> Item]
<1>1. \A k \in 1..n : Rebase(o, q)[k] \in Item
  BY RebaseItem
<1>2. Rebase(o, q) = [k \in 1..n |-> Rebase(o, q)[k]]
  BY DEF Rebase
<1> QED BY <1>1, <1>2

\* Through no step nothing moves.
LEMMA RebaseEmpty ==
  ASSUME NEW n \in Nat, NEW o \in [1..n -> Item]
  PROVE  Rebase(o, <<>>) = o
<1>1. ASSUME NEW k \in 1..n PROVE Moved(o[k], TransformSteps(o[k], <<>>, ThroughFirst)) = o[k]
  <2>1. TransformSteps(o[k], <<>>, ThroughFirst) = RangeOf(o[k])
    BY TransformEmpty
  <2>2. Overlap \in RawRange
    BY DEF Overlap, RawRange
  <2>3. Moved(o[k], RangeOf(o[k])) = o[k]
    BY <2>2, MovedTwice
  <2> QED BY <2>1, <2>3
<1> QED BY <1>1 DEF Rebase

\* A rebase in two parts.
LEMMA RebaseConcat ==
  ASSUME NEW n \in Nat, NEW o \in [1..n -> Item], NEW p \in Seq(Step), NEW q \in Seq(Step)
  PROVE  Rebase(o, p \o q) = Rebase(Rebase(o, p), q)
<1> DEFINE b == Rebase(o, p)
<1>0. p \o q \in Seq(Step)
  OBVIOUS
<1>1. b \in [1..n -> Item]
  BY RebaseType
<1>2. ASSUME NEW k \in 1..n PROVE Rebase(o, p \o q)[k] = Rebase(b, q)[k]
  <2> DEFINE c == o[k]
             r == TransformSteps(c, p, ThroughFirst)
             r2 == TransformSteps(b[k], q, ThroughFirst)
             r3 == TransformSteps(c, p \o q, ThroughFirst)
  <2>1. r \in RawRange /\ b[k] = Moved(c, r) /\ b[k].s = r.s /\ b[k].e = r.e /\ c \in Item
    BY RebaseItem
  <2>2. r3 = TransformSteps(r, q, ThroughFirst)
    BY TransformConcat
  <2> HIDE DEF b
  <2>3. Rebase(b, q)[k] = Moved(b[k], r2) /\ r2 \in RawRange
    BY <1>1, RebaseItem
  <2>4. r2 = TransformSteps(r, q, ThroughFirst)
    <3> HIDE DEF r
    <3> QED BY <2>1, StepsSame
  <2>5. Rebase(o, p \o q)[k] = Moved(c, r3)
    BY <1>0, RebaseItem
  <2> HIDE DEF c, r, r2, r3
  <2>6. Moved(Moved(c, r), r2) = Moved(c, r2)
    BY <2>1, <2>3, MovedTwice
  <2> QED BY <2>1, <2>2, <2>3, <2>4, <2>5, <2>6
<1>3. Rebase(o, p \o q) \in [1..n -> Item]
  BY <1>0, RebaseType
<1>4. Rebase(b, q) \in [1..n -> Item]
  <2> HIDE DEF b
  <2> QED BY <1>1, RebaseType
<1> HIDE DEF b
<1>5. Rebase(o, p \o q) = Rebase(b, q)
  BY <1>2, <1>3, <1>4
<1> QED BY <1>5 DEF b

\* Steps on t, each on the text the ones before it leave.
StepsOn(t, q) ==
  /\ q \in Seq(Step)
  /\ \A m \in Nat : m < Len(q) => Fits(q[m + 1], Upto(t, q, m))

\* One step more.
LEMMA StepsOnAppend ==
  ASSUME NEW t, NEW q \in Seq(Step), NEW x \in Step
  PROVE  StepsOn(t, Append(q, x)) <=> StepsOn(t, q) /\ Fits(x, ApplyAll(t, q))
<1> DEFINE n == Len(q)
           p == Append(q, x)
<1>1. n \in Nat /\ Len(q) = n /\ p \in Seq(Step) /\ IsAppend(p, q, x, n)
  BY AppendIs
<1>2. Len(p) = n + 1 /\ p[n + 1] = x /\ \A k \in 1..n : p[k] = q[k]
  BY <1>1 DEF IsAppend
<1> HIDE DEF n, p
<1>3. ASSUME NEW m \in Nat, m <= n PROVE Upto(t, p, m) = Upto(t, q, m)
  <2>1. SubSeq(p, 1, m) = [i \in 1..m |-> p[i]] /\ SubSeq(q, 1, m) = [i \in 1..m |-> q[i]]
    BY <1>1, <1>2, <1>3
  <2>2. \A i \in 1..m : p[i] = q[i]
    BY <1>1, <1>2, <1>3
  <2> QED BY <2>1, <2>2 DEF Upto
<1>4. Upto(t, q, n) = ApplyAll(t, q)
  BY <1>1, UptoEnds
<1>5. Fits(p[n + 1], Upto(t, p, n)) <=> Fits(x, ApplyAll(t, q))
  <2>1. Upto(t, p, n) = Upto(t, q, n)
    BY <1>1, <1>3
  <2> QED BY <1>2, <1>4, <2>1
<1>6. ASSUME NEW m \in Nat, m < n PROVE Fits(p[m + 1], Upto(t, p, m)) <=> Fits(q[m + 1], Upto(t, q, m))
  <2>1. m <= n /\ m + 1 \in 1..n
    BY <1>1, <1>6
  <2> QED BY <1>2, <1>3, <2>1
<1>7. \A m \in Nat : m < n + 1 <=> (m < n \/ m = n)
  BY <1>1
<1>8. (\A m \in Nat : m < n + 1 => Fits(p[m + 1], Upto(t, p, m))) <=>
        Fits(x, ApplyAll(t, q)) /\ \A m \in Nat : m < n => Fits(q[m + 1], Upto(t, q, m))
  BY <1>1, <1>5, <1>6, <1>7
<1> QED BY <1>1, <1>2, <1>8 DEF StepsOn, p

\* They leave a text.
LEMMA StepsOnText ==
  ASSUME NEW t \in Seq(Char)
  PROVE  \A q \in Seq(Step) : StepsOn(t, q) => ApplyAll(t, q) \in Seq(Char)
<1> DEFINE Q == {q \in Seq(Step) : StepsOn(t, q) => ApplyAll(t, q) \in Seq(Char)}
<1>1. <<>> \in Q
  BY ApplyAllEmpty
<1>2. ASSUME NEW q \in Seq(Step), NEW x \in Step, q \in Q PROVE Append(q, x) \in Q
  <2> SUFFICES ASSUME StepsOn(t, Append(q, x)) PROVE ApplyAll(t, Append(q, x)) \in Seq(Char)
    OBVIOUS
  <2>1. StepsOn(t, q) /\ Fits(x, ApplyAll(t, q))
    BY StepsOnAppend
  <2>2. ApplyAll(t, q) \in Seq(Char)
    BY <1>2, <2>1
  <2>3. ApplyStep(ApplyAll(t, q), x) \in Seq(Char)
    BY <2>1, <2>2, StepIs
  <2> QED BY <2>3, ApplyAllAppend
<1> HIDE DEF Q
<1>3. \A q \in Seq(Step) : q \in Q
  BY <1>1, <1>2, SeqInduction
<1> QED BY <1>3 DEF Q

\* The steps of a tidy transaction are such steps.
LEMMA TxnStepsOn ==
  ASSUME NEW t \in Seq(Char), NEW n \in Nat, NEW items, Tidy(items, n, t)
  PROVE  /\ StepsOn(t, TxnSequence(items)) /\ Len(TxnSequence(items)) = n
         /\ ApplyAll(t, TxnSequence(items)) \in Seq(Char) /\ TxnSequence(items) \in Seq(Step)
<1> DEFINE y == TxnSequence(items)
<1>1. IsSequenceOf(y, Canonical(items), items, n) /\ Descends(y, n, t)
  BY SequenceIs
<1>2. y \in Seq(Step) /\ Len(y) = n
  BY <1>1 DEF IsSequenceOf
<1> HIDE DEF y
<1>3. \A m \in 0..n : \A j \in (m + 1)..n : Fits(y[j], Upto(t, y, m))
  BY <1>1, <1>2, Descent
<1>4. ASSUME NEW m \in Nat, m < n PROVE Fits(y[m + 1], Upto(t, y, m))
  <2>1. m \in 0..n /\ m + 1 \in (m + 1)..n
    BY <1>4
  <2> QED BY <2>1, <1>3
<1>5. StepsOn(t, y)
  BY <1>2, <1>4 DEF StepsOn
<1>6. ApplyAll(t, y) \in Seq(Char)
  BY <1>2, <1>5, StepsOnText
<1> QED BY <1>2, <1>5, <1>6 DEF y

\* The first pending transaction is one on t itself.
LEMMA GoodFirst ==
  ASSUME NEW t \in Seq(Char), NEW os, Good(t, os), Len(os) >= 1
  PROVE  OpOn(os[1], t)
<1>1. os \in Seq(Seq(Item)) /\ 1 \in 1..Len(os) /\ 1 - 1 = 0
  BY DEF Good
<1>2. SubSeq(os, 1, 0) = <<>>
  BY <1>1
<1>3. OpOn(os[1], After(t, SubSeq(os, 1, 1 - 1)))
  BY <1>1 DEF Good
<1> QED BY <1>1, <1>2, <1>3, AfterEmpty

\* The server's rebase moves a transaction through one step as the mirror's fold does.
LEMMA RebaseStep ==
  ASSUME NEW n \in Nat, NEW o \in [1..n -> Item], NEW q \in Seq(Step), NEW x \in Step,
         NEW u \in Seq(Char), Fits(x, u), ~Refused(Rebase(o, q)), Tidy(Rebase(o, q), n, u)
  PROVE  Rebase(o, Append(q, x)) = MovedBy(x, Rebase(o, q))
<1> DEFINE p == Rebase(o, q)
           q2 == Append(q, x)
<1>0. q2 \in Seq(Step) /\ DOMAIN p = 1..n
  BY DEF Rebase
<1>1. ASSUME NEW k \in 1..n
      PROVE  Rebase(o, q2)[k] = Moved(p[k], ThroughSet(p[k], <<x>>, ThroughFirst))
  <2> DEFINE c == o[k]
             r == TransformSteps(c, q, ThroughFirst)
             r2 == TransformSteps(c, q2, ThroughFirst)
             y == p[k]
  <2>1. r \in RawRange /\ y = Moved(c, r) /\ y \in Item /\ y.s = r.s /\ y.e = r.e /\ RangeOf(y) = r /\ c \in Item
    BY RebaseItem
  <2>2. r2 = IF r = Overlap THEN Overlap ELSE TransformRaw(r, x, ThroughFirst)
    BY TransformAppend
  <2>3. RangeOf(y) # Overlap
    BY <1>0 DEF Refused
  <2>4. Rebase(o, q2)[k] = Moved(c, r2) /\ r2 \in RawRange
    BY <1>0, RebaseItem
  <2>5. Fits(y, u)
    BY DEF Tidy
  <2> HIDE DEF c, r, r2, y, p, q2
  <2>6. IsRange(y) /\ IsRange(x) /\ Len(y.ins) \in Nat /\ Len(x.ins) \in Nat
    BY <2>5, LenProperties DEF Fits, IsRange
  <2>7. ThroughSet(y, <<x>>, ThroughFirst) = TransformRaw(y, x, ThroughFirst)
    BY <2>6, ThroughOne
  <2>8. TransformRaw(y, x, ThroughFirst) = TransformRaw(r, x, ThroughFirst)
    BY <2>1, RawSame
  <2>9. Moved(Moved(c, r), r2) = Moved(c, r2)
    BY <2>1, <2>4, MovedTwice
  <2>10. r2 = ThroughSet(y, <<x>>, ThroughFirst)
    BY <2>1, <2>2, <2>3, <2>7, <2>8
  <2>11. Rebase(o, q2)[k] = Moved(y, ThroughSet(y, <<x>>, ThroughFirst))
    BY <2>1, <2>4, <2>9, <2>10
  <2> QED BY <2>11 DEF y
<1>2. Rebase(o, q2) \in [1..n -> Item]
  BY <1>0, RebaseType
<1> HIDE DEF p, q2
<1>3. MovedBy(x, p) = [k \in 1..n |-> Moved(p[k], ThroughSet(p[k], <<x>>, ThroughFirst))]
  BY <1>0 DEF MovedBy
<1>4. Rebase(o, q2) = MovedBy(x, p)
  BY <1>1, <1>2, <1>3
<1> QED BY <1>4 DEF p, q2

\* What overlaps a step is refused whatever comes after.
LEMMA RefusedStays ==
  ASSUME NEW n \in Nat, NEW o \in [1..n -> Item], NEW q \in Seq(Step), NEW x \in Step, Refused(Rebase(o, q))
  PROVE  Refused(Rebase(o, Append(q, x)))
<1>0. Append(q, x) \in Seq(Step) /\ DOMAIN Rebase(o, q) = 1..n /\ DOMAIN Rebase(o, Append(q, x)) = 1..n
  BY DEF Rebase
<1>1. PICK k \in 1..n : RangeOf(Rebase(o, q)[k]) = Overlap
  BY <1>0 DEF Refused
<1>2. TransformSteps(o[k], q, ThroughFirst) = Overlap
  BY <1>1, RebaseItem
<1>3. TransformSteps(o[k], Append(q, x), ThroughFirst) = Overlap
  BY <1>2, TransformAppend
<1>4. RangeOf(Rebase(o, Append(q, x))[k]) = Overlap
  BY <1>0, <1>3, RebaseItem
<1> QED BY <1>0, <1>4 DEF Refused

-----------------------------------------------------------------------------
(* fold_remote: the steps of an entry *)

\* A fold of the steps q that succeeded: the transactions are good on the new text, the
\* view reaches their text, their insertions are the same, and the first of them is where the
\* server's rebase puts it.
FoldOk(t, os, q, b) ==
  /\ b.ops \in Seq(Seq(Item)) /\ Good(ApplyAll(t, q), b.ops)
  /\ b.out \in Seq(Step)
  /\ ApplyAll(After(t, os), b.out) = After(ApplyAll(t, q), b.ops)
  /\ SameTyped(b.ops, os)
  /\ Len(os) >= 1 => b.ops[1] = Rebase(os[1], q) /\ ~Refused(b.ops[1])

\* A fold succeeded so or failed; with one transaction pending it failed because the
\* server's rebase of it overlaps.
FoldOf(t, os, q, b) ==
  /\ b = [ops |-> b.ops, out |-> b.out, failed |-> b.failed]
  /\ b.failed \in BOOLEAN
  /\ ~b.failed => FoldOk(t, os, q, b)
  /\ b.failed => Len(os) >= 1
  /\ b.failed /\ Len(os) = 1 => Refused(Rebase(os[1], q))

\* Insertions that stay the same twice stay the same.
LEMMA SameTypedTrans ==
  ASSUME NEW as, NEW bs, NEW cs, SameTyped(as, bs), SameTyped(bs, cs)
  PROVE  SameTyped(as, cs)
<1>1. Len(as) = Len(cs) /\ Len(bs) = Len(cs)
  BY DEF SameTyped
<1>2. ASSUME NEW k \in 1..Len(cs) PROVE SameIns(as[k], cs[k])
  <2>1. SameIns(as[k], bs[k]) /\ SameIns(bs[k], cs[k])
    BY <1>1 DEF SameTyped
  <2> QED BY <2>1 DEF SameIns
<1> QED BY <1>1, <1>2 DEF SameTyped

\* A failure changes no other field of a fold.
LEMMA SetFailed2 ==
  ASSUME NEW u, NEW v, NEW w
  PROVE  [[ops |-> u, out |-> v, failed |-> w] EXCEPT !.failed = TRUE] = [ops |-> u, out |-> v, failed |-> TRUE]
<1>1. \A b : [[ops |-> u, out |-> v, failed |-> w] EXCEPT !.failed = b] = [ops |-> u, out |-> v, failed |-> b]
  OBVIOUS
<1> QED BY <1>1

\* One step more.
LEMMA FoldNext ==
  ASSUME NEW t \in Seq(Char), NEW os, Good(t, os), NEW q \in Seq(Step), NEW x \in Step,
         StepsOn(t, q), Fits(x, ApplyAll(t, q)), NEW b, FoldOf(t, os, q, b)
  PROVE  FoldOf(t, os, Append(q, x), Folded(b, x))
<1> DEFINE u == ApplyAll(t, q)
           q2 == Append(q, x)
           a == Across(x, b.ops)
           d == Folded(b, x)
           T == ApplyStep(u, x)
<1>0. u \in Seq(Char) /\ T \in Seq(Char) /\ q2 \in Seq(Step) /\ ApplyAll(t, q2) = T
  BY StepsOnText, StepIs, ApplyAllAppend
<1>1. os \in Seq(Seq(Item)) /\ Len(os) \in Nat
  BY GoodIs
<1>2. b.failed \in BOOLEAN /\ b = [ops |-> b.ops, out |-> b.out, failed |-> b.failed]
  BY DEF FoldOf
<1>f. Len(os) >= 1 => os[1] \in Seq(Item) /\ Len(os[1]) \in Nat /\ os[1] \in [1..Len(os[1]) -> Item]
  <2> SUFFICES ASSUME Len(os) >= 1 PROVE os[1] \in Seq(Item) /\ Len(os[1]) \in Nat /\ os[1] \in [1..Len(os[1]) -> Item]
    OBVIOUS
  <2>1. OpOn(os[1], t)
    BY GoodFirst
  <2> QED BY <2>1, OpOnIs
<1>3. CASE b.failed
  <2>1. d = b
    BY <1>3 DEF Folded
  <2>2. Len(os) >= 1 /\ (Len(os) = 1 => Refused(Rebase(os[1], q)))
    BY <1>3 DEF FoldOf
  <2>3. Len(os) = 1 => Refused(Rebase(os[1], q2))
    BY <2>2, <1>f, RefusedStays
  <2> HIDE DEF d, q2
  <2>4. FoldOf(t, os, q2, b)
    BY <1>2, <1>3, <2>2, <2>3 DEF FoldOf
  <2> QED BY <2>1, <2>4 DEF d, q2
<1>4. CASE ~b.failed
  <2>0. FoldOk(t, os, q, b)
    BY <1>4 DEF FoldOf
  <2> DEFINE bs == b.ops
  <2>1. /\ bs \in Seq(Seq(Item)) /\ Good(u, bs) /\ b.out \in Seq(Step)
        /\ ApplyAll(After(t, os), b.out) = After(u, bs) /\ SameTyped(bs, os)
        /\ Len(os) >= 1 => bs[1] = Rebase(os[1], q) /\ ~Refused(bs[1])
    BY <2>0 DEF FoldOk
  <2>2. d = Outcome(b, a)
    BY <1>4 DEF Folded
  <2>3. d = IF a.failed THEN [b EXCEPT !.failed = TRUE]
            ELSE [ops |-> a.ops, out |-> Append(b.out, a.x), failed |-> FALSE]
    BY <2>2 DEF Outcome
  <2>l. Len(bs) = Len(os)
    BY <2>1 DEF SameTyped
  <2> HIDE DEF bs, u, d, q2, T
  <2>4. AcrossIs(u, x, bs, a)
    <3>1. Fits(x, u)
      BY DEF u
    <3> QED BY <1>0, <2>1, <3>1, AcrossLemma DEF bs
  <2>5. Len(os) >= 1 => Rebase(os[1], q2) = MovedBy(x, bs[1])
    <3> SUFFICES ASSUME Len(os) >= 1 PROVE Rebase(os[1], q2) = MovedBy(x, bs[1])
      OBVIOUS
    <3> DEFINE o == os[1]
               n == Len(o)
    <3>1. o \in [1..n -> Item] /\ n \in Nat
      BY <1>f
    <3>2. OpOn(bs[1], u)
      BY <1>0, <2>1, <2>l, GoodFirst
    <3>3. bs[1] = Rebase(o, q) /\ ~Refused(Rebase(o, q))
      BY <2>1
    <3>4. Len(bs[1]) = n
      <4>1. SameIns(bs[1], os[1])
        <5>1. 1 \in 1..Len(os)
          BY <1>1
        <5> QED BY <5>1, <2>1 DEF SameTyped
      <4> QED BY <4>1 DEF SameIns
    <3>5. Tidy(Rebase(o, q), n, u) /\ Fits(x, u)
      BY <3>2, <3>3, <3>4 DEF OpOn, u
    <3> HIDE DEF o, n
    <3>6. Rebase(o, Append(q, x)) = MovedBy(x, Rebase(o, q))
      BY <1>0, <3>1, <3>3, <3>5, RebaseStep
    <3> QED BY <3>3, <3>6 DEF o, q2
  <2>6. CASE a.failed
    <3>1. d = [b EXCEPT !.failed = TRUE]
      BY <2>3, <2>6
    <3>2. d = [ops |-> b.ops, out |-> b.out, failed |-> TRUE]
      <4>1. [[ops |-> b.ops, out |-> b.out, failed |-> b.failed] EXCEPT !.failed = TRUE] = [ops |-> b.ops, out |-> b.out, failed |-> TRUE]
        BY SetFailed2
      <4> QED BY <3>1, <4>1, <1>2
    <3>3. d.failed = TRUE /\ d = [ops |-> d.ops, out |-> d.out, failed |-> d.failed]
      BY <3>2
    <3>4. Len(os) >= 1 /\ (Len(os) = 1 => Refused(MovedBy(x, bs[1])))
      BY <2>4, <2>6, <2>l DEF AcrossIs
    <3>5. Len(os) = 1 => Refused(Rebase(os[1], q2))
      BY <3>4, <2>5
    <3>6. FoldOf(t, os, q2, d)
      BY <3>3, <3>4, <3>5 DEF FoldOf
    <3> QED BY <3>6 DEF d, q2
  <2>7. CASE ~a.failed
    <3>1. d = [ops |-> a.ops, out |-> Append(b.out, a.x), failed |-> FALSE]
      BY <2>3, <2>7
    <3>2. Passed(u, x, bs, a)
      BY <2>4, <2>7 DEF AcrossIs
    <3> HIDE DEF a
    <3>3. d.ops = a.ops /\ d.out = Append(b.out, a.x) /\ d.failed = FALSE /\ d = [ops |-> d.ops, out |-> d.out, failed |-> d.failed]
      BY <3>1
    <3>4. /\ a.ops \in Seq(Seq(Item)) /\ Good(T, a.ops) /\ a.x \in Step
          /\ After(T, a.ops) = ApplyStep(After(u, bs), a.x) /\ SameTyped(a.ops, bs)
          /\ Len(bs) >= 1 => a.ops[1] = MovedBy(x, bs[1]) /\ ~Refused(a.ops[1])
      BY <3>2 DEF Passed, T
    <3>5. SameTyped(a.ops, os)
      BY <3>4, <2>1, SameTypedTrans
    <3>6. Append(b.out, a.x) \in Seq(Step)
      BY <2>1, <3>4
    <3>7. ApplyAll(After(t, os), Append(b.out, a.x)) = ApplyStep(ApplyAll(After(t, os), b.out), a.x)
      BY <2>1, <3>4, ApplyAllAppend
    <3>8. Len(os) >= 1 => a.ops[1] = Rebase(os[1], q2) /\ ~Refused(a.ops[1])
      BY <2>5, <2>l, <3>4
    <3>9. FoldOk(t, os, q2, d)
      BY <3>3, <3>4, <3>5, <3>6, <3>7, <3>8, <2>1, <1>0 DEF FoldOk
    <3>10. FoldOf(t, os, q2, d)
      BY <3>3, <3>9 DEF FoldOf
    <3> QED BY <3>10 DEF d, q2
  <2> QED BY <2>6, <2>7
<1> QED BY <1>3, <1>4

\* What fold_remote computes for any transactions and any steps.
LEMMA FoldLemma ==
  ASSUME NEW t \in Seq(Char), NEW os, Good(t, os)
  PROVE  \A q \in Seq(Step) : StepsOn(t, q) => FoldOf(t, os, q, FoldSteps(os, q))
<1> DEFINE Q == {q \in Seq(Step) : StepsOn(t, q) => FoldOf(t, os, q, FoldSteps(os, q))}
<1>0. os \in Seq(Seq(Item)) /\ Len(os) \in Nat /\ After(t, os) \in Seq(Char)
  BY GoodIs
<1>1. <<>> \in Q
  <2> DEFINE b == FoldSteps(os, <<>>)
             e == <<>>
  <2>1. b = [ops |-> os, out |-> e, failed |-> FALSE]
    BY FoldStepsEmpty
  <2>2. ApplyAll(t, e) = t /\ ApplyAll(After(t, os), e) = After(t, os) /\ e \in Seq(Step)
    BY ApplyAllEmpty
  <2>3. SameTyped(os, os)
    BY DEF SameTyped, SameIns
  <2>4. Len(os) >= 1 => os[1] = Rebase(os[1], e) /\ ~Refused(os[1])
    <3> SUFFICES ASSUME Len(os) >= 1 PROVE os[1] = Rebase(os[1], e) /\ ~Refused(os[1])
      OBVIOUS
    <3> DEFINE o == os[1]
               n == Len(o)
    <3>1. OpOn(o, t)
      BY GoodFirst
    <3>2. o \in [1..n -> Item] /\ n \in Nat
      BY <3>1, OpOnIs
    <3>3. \A k \in 1..n : o[k].s \in Nat
      BY <3>1 DEF OpOn, Tidy, Fits
    <3> HIDE DEF o, n
    <3>4. Rebase(o, e) = o
      BY <3>2, RebaseEmpty
    <3>5. ~Refused(o)
      <4> SUFFICES ASSUME NEW k \in 1..n PROVE RangeOf(o[k]) # Overlap
        BY <3>2 DEF Refused
      <4>1. RangeOf(o[k]).s = o[k].s /\ Overlap.s = -1
        BY DEF RangeOf, Overlap
      <4> QED BY <4>1, <3>3
    <3> QED BY <3>4, <3>5 DEF o
  <2> HIDE DEF b, e
  <2>5. b.ops = os /\ b.out = e /\ b.failed = FALSE /\ b = [ops |-> b.ops, out |-> b.out, failed |-> b.failed]
    BY <2>1
  <2>6. FoldOk(t, os, e, b)
    BY <1>0, <2>2, <2>3, <2>4, <2>5 DEF FoldOk
  <2>7. FoldOf(t, os, e, b)
    BY <2>5, <2>6 DEF FoldOf
  <2> QED BY <2>2, <2>7 DEF b, e
<1>2. ASSUME NEW q \in Seq(Step), NEW x \in Step, q \in Q PROVE Append(q, x) \in Q
  <2> SUFFICES ASSUME StepsOn(t, Append(q, x)) PROVE FoldOf(t, os, Append(q, x), FoldSteps(os, Append(q, x)))
    OBVIOUS
  <2>1. StepsOn(t, q) /\ Fits(x, ApplyAll(t, q))
    BY StepsOnAppend
  <2>2. FoldSteps(os, Append(q, x)) = Folded(FoldSteps(os, q), x)
    BY FoldStepsAppend
  <2>3. FoldOf(t, os, q, FoldSteps(os, q))
    BY <1>2, <2>1
  <2>4. FoldOf(t, os, Append(q, x), Folded(FoldSteps(os, q), x))
    BY <2>1, <2>3, FoldNext
  <2> QED BY <2>2, <2>4
<1> HIDE DEF Q
<1>3. \A q \in Seq(Step) : q \in Q
  BY <1>1, <1>2, SeqInduction
<1> QED BY <1>3 DEF Q

-----------------------------------------------------------------------------
(* A pending transaction that is acknowledged, and one that is rebased alone *)

\* Once the first transaction is committed the others are good on the text it leaves.
LEMMA GoodTail ==
  ASSUME NEW t \in Seq(Char), NEW os, Good(t, os), Len(os) >= 1
  PROVE  LET t1 == ApplyAll(t, TxnSequence(os[1])) IN
         /\ OpOn(os[1], t) /\ t1 \in Seq(Char)
         /\ Good(t1, Tail(os))
         /\ After(t1, Tail(os)) = After(t, os)
<1> DEFINE t1 == ApplyAll(t, TxnSequence(os[1]))
           r == Tail(os)
           N == Len(os)
           M == N - 1
<1>1. os \in Seq(Seq(Item)) /\ N \in Nat /\ N >= 1 /\ os \in [1..N -> Seq(Item)] /\ Len(os) = N
  BY LenProperties DEF Good
<1>2. OpOn(os[1], t)
  BY GoodFirst
<1>3. t1 \in Seq(Char) /\ TxnSequence(os[1]) \in Seq(Step)
  BY <1>2, OpOnIs
<1>4. r \in Seq(Seq(Item)) /\ Len(r) = M /\ M \in Nat /\ M < N /\ M + 1 = N /\ r = [i \in 1..M |-> os[i + 1]]
  <2>1. os # <<>> /\ M \in Nat /\ M < N /\ M + 1 = N /\ M = N - 1
    BY <1>1
  <2>2. r \in Seq(Seq(Item)) /\ Len(r) = Len(os) - 1 /\ \A i \in 1..Len(r) : r[i] = os[i + 1]
    BY <2>1, <1>1, HeadTailProperties
  <2> HIDE DEF r, N, M
  <2>3. Len(r) = M
    BY <2>1, <2>2, <1>1
  <2>4. r \in [1..M -> Seq(Item)]
    BY <2>2, <2>3, LenProperties
  <2> QED BY <2>1, <2>2, <2>3, <2>4
<1> HIDE DEF r, N, M, t1
<1> DEFINE P(m) == /\ SubSeq(r, 1, m) \in Seq(Seq(Item)) /\ Sequenced(SubSeq(r, 1, m))
                   /\ After(t1, SubSeq(r, 1, m)) = After(t, SubSeq(os, 1, m + 1))
           T == {m \in Nat : m <= M => P(m)}
<1>5. T \in SUBSET Nat
  OBVIOUS
<1>6. 0 \in T
  <2>1. SubSeq(r, 1, 0) = <<>> /\ <<>> \in Seq(Seq(Item)) /\ <<>> \in Seq(Seq(Step)) /\ SubSeq(os, 1, 0) = <<>> /\ 0 + 1 = 1
    BY <1>1, <1>4
  <2>2. Seqs(<<>>) = <<>>
    BY DEF Seqs
  <2>3. Sequenced(<<>>)
    BY <2>1, <2>2 DEF Sequenced
  <2>4. 0 < N
    BY <1>1
  <2>5. After(t, SubSeq(os, 1, 0 + 1)) = ApplyAll(After(t, SubSeq(os, 1, 0)), TxnSequence(os[0 + 1]))
    BY <2>4, <1>1, PrefixStep
  <2>6. After(t, <<>>) = t /\ After(t1, <<>>) = t1
    BY AfterEmpty
  <2>7. After(t1, <<>>) = After(t, SubSeq(os, 1, 0 + 1))
    BY <2>1, <2>5, <2>6 DEF t1
  <2> QED BY <2>1, <2>3, <2>7
<1>7. ASSUME NEW m \in T PROVE m + 1 \in T
  <2>1. SUFFICES ASSUME m + 1 <= M PROVE P(m + 1)
    OBVIOUS
  <2>2. m \in Nat /\ m < M /\ m + 1 \in Nat /\ m + 1 < N /\ m + 1 \in 1..M /\ (m + 1) + 1 \in 1..N /\ m <= M
    BY <2>1, <1>1, <1>4
  <2>3. P(m)
    BY <2>2
  <2> DEFINE a == SubSeq(r, 1, m)
             o == os[(m + 1) + 1]
  <2>4. SubSeq(r, 1, m + 1) = Append(a, r[m + 1]) /\ r[m + 1] = o
    BY <2>2, <1>4, PrefixAppend
  <2>5. /\ After(t, SubSeq(os, 1, m + 1)) \in Seq(Char)
        /\ OpOn(o, After(t, SubSeq(os, 1, m + 1)))
        /\ After(t, SubSeq(os, 1, (m + 1) + 1)) = ApplyAll(After(t, SubSeq(os, 1, m + 1)), TxnSequence(o))
    BY <2>2, <1>1, PrefixStep
  <2>6. o \in Seq(Item) /\ TxnSequence(o) \in Seq(Step)
    <3> HIDE DEF o
    <3> QED BY <2>5, OpOnIs
  <2>7. a \in Seq(Seq(Item)) /\ Sequenced(a) /\ After(t1, a) = After(t, SubSeq(os, 1, m + 1))
    BY <2>3
  <2> HIDE DEF a, o
  <2>8. After(t1, Append(a, o)) = ApplyAll(After(t1, a), TxnSequence(o)) /\ Sequenced(Append(a, o))
    BY <2>6, <2>7, AfterAppend
  <2>9. Append(a, o) \in Seq(Seq(Item))
    BY <2>6, <2>7
  <2> QED BY <2>4, <2>5, <2>7, <2>8, <2>9
<1> HIDE DEF T, P
<1>8. T = Nat
  BY <1>5, <1>6, <1>7, Induction
<1>9. \A m \in Nat : m <= M => P(m)
  BY <1>8 DEF T
<1>10. ASSUME NEW k \in 1..M PROVE OpOn(r[k], After(t1, SubSeq(r, 1, k - 1)))
  <2>1. k - 1 \in Nat /\ k - 1 <= M /\ (k - 1) + 1 = k /\ k \in Nat /\ k < N
    BY <1>1, <1>4
  <2>2. OpOn(os[k + 1], After(t, SubSeq(os, 1, k)))
    BY <2>1, <1>1, PrefixStep
  <2>3. r[k] = os[k + 1]
    BY <1>4
  <2>4. P(k - 1)
    BY <2>1, <1>9
  <2>5. After(t1, SubSeq(r, 1, k - 1)) = After(t, SubSeq(os, 1, k))
    BY <2>1, <2>4 DEF P
  <2> QED BY <2>2, <2>3, <2>5
<1>11. Good(t1, r)
  BY <1>4, <1>10 DEF Good
<1>12. After(t1, r) = After(t, os)
  <2>1. P(M) /\ SubSeq(r, 1, M) = r /\ SubSeq(os, 1, M + 1) = os
    BY <1>1, <1>4, <1>9
  <2> QED BY <2>1 DEF P
<1> QED BY <1>2, <1>3, <1>11, <1>12 DEF t1, r

\* A transaction that rebases without overlap is one on the text the steps leave.
LEMMA RebaseGood ==
  ASSUME NEW t \in Seq(Char), NEW o, OpOn(o, t), NEW q \in Seq(Step), StepsOn(t, q), ~Refused(Rebase(o, q))
  PROVE  OpOn(Rebase(o, q), ApplyAll(t, q))
<1> DEFINE e == <<>>
           os == Append(e, o)
           b == FoldSteps(os, q)
<1>1. o \in Seq(Item)
  BY OpOnIs
<1>2. e \in Seq(Seq(Item)) /\ Good(t, e) /\ After(t, e) = t
  BY GoodEmpty, AfterEmpty
<1>3. Len(os) = 1 /\ os[1] = o
  OBVIOUS
<1>4. Good(t, os)
  <2> HIDE DEF e
  <2>1. OpOn(o, After(t, e))
    BY <1>2
  <2> QED BY <1>1, <1>2, <2>1, GoodAppend
<1> HIDE DEF e, os
<1>5. FoldOf(t, os, q, b)
  BY <1>4, FoldLemma
<1> HIDE DEF b
<1>6. ~b.failed
  BY <1>3, <1>5 DEF FoldOf
<1>7. Good(ApplyAll(t, q), b.ops) /\ SameTyped(b.ops, os) /\ b.ops[1] = Rebase(o, q)
  BY <1>3, <1>5, <1>6 DEF FoldOf, FoldOk
<1>8. Len(b.ops) = 1
  BY <1>3, <1>7 DEF SameTyped
<1>9. ApplyAll(t, q) \in Seq(Char)
  BY StepsOnText
<1> QED BY <1>7, <1>8, <1>9, GoodFirst

\* Steps in two parts.
LEMMA StepsOnConcat ==
  ASSUME NEW t, NEW p \in Seq(Step), StepsOn(t, p)
  PROVE  \A q \in Seq(Step) : StepsOn(ApplyAll(t, p), q) => StepsOn(t, p \o q)
<1> DEFINE u == ApplyAll(t, p)
           Q == {q \in Seq(Step) : StepsOn(u, q) => StepsOn(t, p \o q)}
<1>1. <<>> \in Q
  <2>1. p \o <<>> = p
    OBVIOUS
  <2> QED BY <2>1
<1>2. ASSUME NEW q \in Seq(Step), NEW x \in Step, q \in Q PROVE Append(q, x) \in Q
  <2> SUFFICES ASSUME StepsOn(u, Append(q, x)) PROVE StepsOn(t, p \o Append(q, x))
    OBVIOUS
  <2> HIDE DEF u
  <2>1. StepsOn(u, q) /\ Fits(x, ApplyAll(u, q))
    BY StepsOnAppend
  <2>2. StepsOn(t, p \o q) /\ p \o q \in Seq(Step)
    BY <1>2, <2>1
  <2>3. ApplyAll(t, p \o q) = ApplyAll(u, q)
    BY ApplyAllConcat DEF u
  <2>4. p \o Append(q, x) = Append(p \o q, x)
    BY AppendConcat
  <2>5. StepsOn(t, Append(p \o q, x))
    BY <2>1, <2>2, <2>3, StepsOnAppend
  <2> QED BY <2>4, <2>5
<1> HIDE DEF Q
<1>3. \A q \in Seq(Step) : q \in Q
  BY <1>1, <1>2, SeqInduction
<1> QED BY <1>3 DEF Q

-----------------------------------------------------------------------------
(* The log: what is between two revs *)

\* An entry of the log.
Entry == [own : BOOLEAN, steps : Seq(Step)]

\* The steps of the entries after rev from, up to rev to.
LogSteps(lg, from, to) == FlattenSeq([k \in 1..(to - from) |-> lg[from + k].steps])

\* Between a rev and itself there is none.
LEMMA LogStepsEmpty ==
  ASSUME NEW lg, NEW a \in Nat
  PROVE  LogSteps(lg, a, a) = <<>>
<1>1. [k \in 1..(a - a) |-> lg[a + k].steps] = <<>>
  OBVIOUS
<1> QED BY <1>1, FlattenEmpty DEF LogSteps

\* Each entry has its steps.
LEMMA LogPieces ==
  ASSUME NEW lg \in Seq(Entry), NEW a \in Nat, NEW b \in Nat, a <= b, b <= Len(lg)
  PROVE  [k \in 1..(b - a) |-> lg[a + k].steps] \in Seq(Seq(Step))
<1>1. \A k \in 1..(b - a) : lg[a + k].steps \in Seq(Step)
  <2> TAKE k \in 1..(b - a)
  <2>1. a + k \in 1..Len(lg)
    OBVIOUS
  <2>2. lg[a + k] \in Entry
    BY <2>1, ElementOfSeq
  <2> QED BY <2>2 DEF Entry
<1>2. b - a \in Nat
  OBVIOUS
<1> QED BY <1>1, <1>2

\* They are steps.
LEMMA LogStepsType ==
  ASSUME NEW lg \in Seq(Entry), NEW a \in Nat, NEW b \in Nat, a <= b, b <= Len(lg)
  PROVE  LogSteps(lg, a, b) \in Seq(Step)
BY LogPieces, FlattenType DEF LogSteps

\* The steps of one more entry.
LEMMA LogStepsNext ==
  ASSUME NEW lg \in Seq(Entry), NEW a \in Nat, NEW b \in Nat, a <= b, b < Len(lg)
  PROVE  /\ LogSteps(lg, a, b + 1) = LogSteps(lg, a, b) \o lg[b + 1].steps
         /\ lg[b + 1].steps \in Seq(Step)
<1> DEFINE p == [k \in 1..(b - a) |-> lg[a + k].steps]
           q == [k \in 1..((b + 1) - a) |-> lg[a + k].steps]
           x == lg[b + 1].steps
           n == b - a
<1>1. p \in Seq(Seq(Step))
  <2>1. b <= Len(lg)
    BY LenProperties
  <2> QED BY <2>1, LogPieces
<1>2. x \in Seq(Step)
  <2>1. lg[b + 1] \in Entry
    BY ElementOfSeq
  <2> QED BY <2>1 DEF Entry
<1>3. n \in Nat /\ (b + 1) - a = n + 1 /\ a + (n + 1) = b + 1
  OBVIOUS
<1>4. p = [k \in 1..n |-> lg[a + k].steps] /\ q = [k \in 1..(n + 1) |-> lg[a + k].steps] /\ x = lg[a + (n + 1)].steps
  BY <1>3
<1> HIDE DEF p, q, x, n
<1>5. Len(p) = n
  BY <1>1, <1>3, <1>4
<1>6. q = Append(p, x)
  <2>1. IsAppend(Append(p, x), p, x, n) /\ Append(p, x) \in Seq(Seq(Step))
    BY <1>1, <1>2, <1>3, <1>5, AppendIs
  <2>2. Append(p, x) \in [1..(n + 1) -> Seq(Step)]
    BY <2>1, LenProperties DEF IsAppend
  <2>3. ASSUME NEW k \in 1..(n + 1) PROVE Append(p, x)[k] = q[k]
    <3>1. k \in 1..n \/ k = n + 1
      BY <1>3
    <3> QED BY <3>1, <2>1, <1>4 DEF IsAppend
  <2> QED BY <2>2, <2>3, <1>4
<1>7. FlattenSeq(Append(p, x)) = FlattenSeq(p) \o x
  BY <1>1, <1>2, FlattenAppend
<1> QED BY <1>2, <1>6, <1>7 DEF LogSteps, p, q, x

\* A new entry leaves the earlier ones.
LEMMA LogStepsKept ==
  ASSUME NEW lg \in Seq(Entry), NEW x \in Entry, NEW a \in Nat, NEW b \in Nat, a <= b, b <= Len(lg)
  PROVE  LogSteps(Append(lg, x), a, b) = LogSteps(lg, a, b)
<1> DEFINE p == Append(lg, x)
<1>0. IsAppend(p, lg, x, Len(lg))
  BY AppendIs
<1> HIDE DEF p
<1>1. \A k \in 1..(b - a) : p[a + k] = lg[a + k]
  <2> TAKE k \in 1..(b - a)
  <2>1. a + k \in 1..Len(lg)
    OBVIOUS
  <2> QED BY <2>1, <1>0 DEF IsAppend
<1>2. [k \in 1..(b - a) |-> p[a + k].steps] = [k \in 1..(b - a) |-> lg[a + k].steps]
  BY <1>1
<1> QED BY <1>2 DEF LogSteps, p

\* Each entry's steps lead from the text before it to the text after it.
Chain(tx, lg) ==
  /\ lg \in Seq(Entry) /\ tx \in Seq(Seq(Char)) /\ Len(tx) = Len(lg) + 1
  /\ \A r \in 1..Len(lg) : StepsOn(tx[r], lg[r].steps) /\ tx[r + 1] = ApplyAll(tx[r], lg[r].steps)

\* So do the steps of several entries.
LEMMA ChainSteps ==
  ASSUME NEW tx, NEW lg, Chain(tx, lg), NEW N \in Nat, Len(lg) = N, NEW a \in Nat
  PROVE  \A b \in Nat : a <= b /\ b <= N => /\ LogSteps(lg, a, b) \in Seq(Step)
                                         /\ StepsOn(tx[a + 1], LogSteps(lg, a, b))
                                         /\ ApplyAll(tx[a + 1], LogSteps(lg, a, b)) = tx[b + 1]
<1> DEFINE t == tx[a + 1]
           S(b) == LogSteps(lg, a, b)
           P(b) == S(b) \in Seq(Step) /\ StepsOn(t, S(b)) /\ ApplyAll(t, S(b)) = tx[b + 1]
           T == {b \in Nat : a <= b /\ b <= N => P(b)}
<1>1. lg \in Seq(Entry) /\ \A r \in 1..N : StepsOn(tx[r], lg[r].steps) /\ tx[r + 1] = ApplyAll(tx[r], lg[r].steps)
  BY DEF Chain
<1>2. P(a)
  <2>1. S(a) = <<>> /\ <<>> \in Seq(Step)
    BY LogStepsEmpty
  <2>2. StepsOn(t, <<>>)
    BY DEF StepsOn
  <2>3. ApplyAll(t, <<>>) = t
    BY ApplyAllEmpty
  <2> QED BY <2>1, <2>2, <2>3
<1>3. 0 \in T
  <2> SUFFICES ASSUME a <= 0 PROVE P(0)
    OBVIOUS
  <2>1. a = 0
    OBVIOUS
  <2> QED BY <2>1, <1>2
<1>4. ASSUME NEW b \in T PROVE b + 1 \in T
  <2>1. SUFFICES ASSUME a <= b + 1, b + 1 <= N PROVE P(b + 1)
    OBVIOUS
  <2>2. b \in Nat /\ b + 1 \in 1..N /\ b < N
    BY <2>1
  <2>3. CASE a = b + 1
    BY <2>3, <1>2
  <2>4. CASE a # b + 1
    <3>1. a <= b /\ b <= N
      BY <2>1, <2>2, <2>4
    <3>2. P(b)
      BY <3>1
    <3> DEFINE x == lg[b + 1].steps
    <3>3. S(b + 1) = S(b) \o x /\ x \in Seq(Step)
      BY <1>1, <2>2, <3>1, LogStepsNext
    <3>4. StepsOn(tx[b + 1], x) /\ tx[(b + 1) + 1] = ApplyAll(tx[b + 1], x)
      BY <2>2, <1>1
    <3> HIDE DEF x
    <3> DEFINE s == S(b)
    <3>5. s \in Seq(Step) /\ StepsOn(t, s) /\ ApplyAll(t, s) = tx[b + 1]
      BY <3>2
    <3> HIDE DEF s, t
    <3>6. StepsOn(t, s \o x)
      BY <3>3, <3>4, <3>5, StepsOnConcat
    <3>7. ApplyAll(t, s \o x) = ApplyAll(ApplyAll(t, s), x)
      BY <3>3, <3>5, ApplyAllConcat
    <3>8. s \o x \in Seq(Step)
      BY <3>3, <3>5
    <3> QED BY <3>3, <3>4, <3>5, <3>6, <3>7, <3>8 DEF s, t
  <2> QED BY <2>3, <2>4
<1>5. T \in SUBSET Nat
  OBVIOUS
<1> HIDE DEF T
<1>6. T = Nat
  BY <1>3, <1>4, <1>5, Induction
<1> QED BY <1>6 DEF T

\* What overlaps some steps overlaps those steps and more.
LEMMA RefusedFurther ==
  ASSUME NEW n \in Nat, NEW o \in [1..n -> Item], NEW p \in Seq(Step), NEW q \in Seq(Step), Refused(Rebase(o, p))
  PROVE  Refused(Rebase(o, p \o q))
<1> DEFINE Q == {r \in Seq(Step) : Refused(Rebase(o, p \o r))}
<1>1. <<>> \in Q
  <2>1. p \o <<>> = p
    OBVIOUS
  <2> QED BY <2>1
<1>2. ASSUME NEW r \in Seq(Step), NEW x \in Step, r \in Q PROVE Append(r, x) \in Q
  <2>1. p \o Append(r, x) = Append(p \o r, x) /\ p \o r \in Seq(Step) /\ Refused(Rebase(o, p \o r))
    BY <1>2, AppendConcat
  <2>2. Refused(Rebase(o, Append(p \o r, x)))
    BY <2>1, RefusedStays
  <2>3. Append(r, x) \in Seq(Step)
    OBVIOUS
  <2> QED BY <2>1, <2>2, <2>3
<1> HIDE DEF Q
<1>3. \A r \in Seq(Step) : r \in Q
  BY <1>1, <1>2, SeqInduction
<1> QED BY <1>3 DEF Q

\* What the log refuses at one rev it refuses at every later one.
LEMMA RefusedLater ==
  ASSUME NEW n \in Nat, NEW o \in [1..n -> Item], NEW lg \in Seq(Entry), NEW a \in Nat, NEW b \in Nat, a <= b,
         NEW N \in Nat, Len(lg) = N, Refused(Rebase(o, LogSteps(lg, a, b)))
  PROVE  \A c \in Nat : b <= c /\ c <= N => Refused(Rebase(o, LogSteps(lg, a, c)))
<1> DEFINE P(c) == Refused(Rebase(o, LogSteps(lg, a, c)))
           T == {c \in Nat : b <= c /\ c <= N => P(c)}
<1>1. T \in SUBSET Nat
  OBVIOUS
<1>2. 0 \in T
  <2> SUFFICES ASSUME b <= 0 PROVE P(0)
    OBVIOUS
  <2>1. b = 0
    OBVIOUS
  <2> QED BY <2>1
<1>3. ASSUME NEW c \in T PROVE c + 1 \in T
  <2>1. SUFFICES ASSUME b <= c + 1, c + 1 <= N PROVE P(c + 1)
    OBVIOUS
  <2>2. CASE b = c + 1
    BY <2>2
  <2>3. CASE b # c + 1
    <3>1. b <= c /\ c <= N /\ c \in Nat /\ c < N /\ a <= c
      BY <2>1, <2>3
    <3>2. P(c)
      BY <3>1
    <3>3. LogSteps(lg, a, c + 1) = LogSteps(lg, a, c) \o lg[c + 1].steps /\ lg[c + 1].steps \in Seq(Step)
      BY <3>1, LogStepsNext
    <3>4. LogSteps(lg, a, c) \in Seq(Step)
      BY <3>1, LogStepsType
    <3> QED BY <3>2, <3>3, <3>4, RefusedFurther
  <2> QED BY <2>2, <2>3
<1> HIDE DEF T
<1>4. T = Nat
  BY <1>1, <1>2, <1>3, Induction
<1> QED BY <1>4 DEF T

-----------------------------------------------------------------------------
(* The characters of transactions *)

\* Characters of items whose insertions occur among others.
LEMMA CharsCover ==
  ASSUME NEW a, NEW b, \A k \in DOMAIN a : \E j \in DOMAIN b : a[k].ins = b[j].ins
  PROVE  Chars(a) \subseteq Chars(b)
BY DEF Chars

\* The same for transactions.
LEMMA CharsOfCover ==
  ASSUME NEW as, NEW bs, \A k \in DOMAIN as : \E j \in DOMAIN bs : Chars(as[k]) = Chars(bs[j])
  PROVE  CharsOf(as) \subseteq CharsOf(bs)
BY DEF CharsOf

\* Moved items have the same characters.
LEMMA CharsSame ==
  ASSUME NEW m \in Seq(Item), NEW o \in Seq(Item), SameIns(m, o)
  PROVE  Chars(m) = Chars(o)
<1>1. DOMAIN m = DOMAIN o /\ \A k \in DOMAIN o : m[k].ins = o[k].ins
  BY LenProperties DEF SameIns
<1>2. Chars(m) \subseteq Chars(o)
  BY <1>1, CharsCover
<1>3. Chars(o) \subseteq Chars(m)
  BY <1>1, CharsCover
<1> QED BY <1>2, <1>3

\* So have moved transactions.
LEMMA CharsOfSame ==
  ASSUME NEW as \in Seq(Seq(Item)), NEW os \in Seq(Seq(Item)), SameTyped(as, os)
  PROVE  CharsOf(as) = CharsOf(os)
<1>1. DOMAIN as = DOMAIN os /\ \A k \in DOMAIN os : SameIns(as[k], os[k]) /\ as[k] \in Seq(Item) /\ os[k] \in Seq(Item)
  BY LenProperties, ElementOfSeq DEF SameTyped
<1>2. \A k \in DOMAIN os : Chars(as[k]) = Chars(os[k])
  BY <1>1, CharsSame
<1>3. CharsOf(as) \subseteq CharsOf(os)
  BY <1>1, <1>2, CharsOfCover
<1>4. CharsOf(os) \subseteq CharsOf(as)
  BY <1>1, <1>2, CharsOfCover
<1> QED BY <1>3, <1>4

\* Each transaction's characters are among those of all.
LEMMA CharsOfIn ==
  ASSUME NEW os, NEW k \in DOMAIN os
  PROVE  Chars(os[k]) \subseteq CharsOf(os)
BY DEF CharsOf

\* Each character is one of some transaction.
LEMMA CharsOfPick ==
  ASSUME NEW os, NEW c \in CharsOf(os)
  PROVE  \E k \in DOMAIN os : c \in Chars(os[k])
BY DEF CharsOf

\* No transaction, no character.
LEMMA CharsOfEmpty == CharsOf(<<>>) = {}
BY DEF CharsOf

\* The characters of the first n transactions and of the others.
LEMMA CharsOfSplit ==
  ASSUME NEW os \in Seq(Seq(Item)), NEW N \in Nat, Len(os) = N, NEW n \in 0..N
  PROVE  CharsOf(os) = CharsOf(SubSeq(os, 1, n)) \cup CharsOf(SubSeq(os, n + 1, N))
<1> DEFINE p == SubSeq(os, 1, n)
           s == SubSeq(os, n + 1, N)
<1>0. os \in [1..N -> Seq(Item)]
  BY LenProperties
<1>1. p = [i \in 1..n |-> os[i]]
  BY <1>0
<1>2. s = [i \in 1..(N - n) |-> os[n + i]]
  BY <1>0
<1> HIDE DEF p, s
<1>3. CharsOf(p) \subseteq CharsOf(os)
  <2>1. \A k \in DOMAIN p : k \in DOMAIN os /\ p[k] = os[k]
    BY <1>0, <1>1
  <2> QED BY <2>1, CharsOfCover
<1>4. CharsOf(s) \subseteq CharsOf(os)
  <2>1. \A k \in DOMAIN s : n + k \in DOMAIN os /\ s[k] = os[n + k]
    BY <1>0, <1>2
  <2> QED BY <2>1, CharsOfCover
<1>5. ASSUME NEW c \in CharsOf(os) PROVE c \in CharsOf(p) \cup CharsOf(s)
  <2>1. PICK k \in 1..N : c \in Chars(os[k])
    BY <1>0, CharsOfPick
  <2>2. CASE k <= n
    <3>1. k \in DOMAIN p /\ p[k] = os[k]
      BY <1>1, <2>2
    <3> QED BY <3>1, <2>1, CharsOfIn
  <2>3. CASE ~(k <= n)
    <3>1. k - n \in 1..(N - n) /\ n + (k - n) = k
      BY <2>3
    <3>2. k - n \in DOMAIN s /\ s[k - n] = os[k]
      BY <1>2, <3>1
    <3>3. Chars(s[k - n]) \subseteq CharsOf(s)
      BY <3>2, CharsOfIn
    <3> QED BY <3>2, <3>3, <2>1
  <2> QED BY <2>2, <2>3
<1>6. CharsOf(os) = CharsOf(p) \cup CharsOf(s)
  BY <1>3, <1>4, <1>5
<1> QED BY <1>6 DEF p, s

\* The characters of one transaction more.
LEMMA CharsOfAppend ==
  ASSUME NEW os \in Seq(Seq(Item)), NEW o \in Seq(Item)
  PROVE  CharsOf(Append(os, o)) = CharsOf(os) \cup Chars(o)
<1> DEFINE p == Append(os, o)
           n == Len(os)
<1>1. n \in Nat /\ IsAppend(p, os, o, n) /\ p \in Seq(Seq(Item)) /\ DOMAIN os = 1..n
  BY AppendIs, LenProperties
<1> HIDE DEF p, n
<1>2. DOMAIN p = 1..(n + 1) /\ p[n + 1] = o /\ \A k \in 1..n : p[k] = os[k]
  BY <1>1, LenProperties DEF IsAppend
<1>3. CharsOf(os) \subseteq CharsOf(p)
  <2>1. \A k \in DOMAIN os : k \in DOMAIN p /\ p[k] = os[k]
    BY <1>1, <1>2
  <2> QED BY <2>1, CharsOfCover
<1>4. Chars(o) \subseteq CharsOf(p)
  <2>1. n + 1 \in DOMAIN p
    BY <1>1, <1>2
  <2> QED BY <2>1, <1>2, CharsOfIn
<1>5. ASSUME NEW c \in CharsOf(p) PROVE c \in CharsOf(os) \cup Chars(o)
  <2>1. PICK k \in 1..(n + 1) : c \in Chars(p[k])
    BY <1>2, CharsOfPick
  <2>2. k \in 1..n \/ k = n + 1
    BY <1>1
  <2>3. CASE k \in 1..n
    <3>1. c \in Chars(os[k])
      BY <2>1, <2>3, <1>2
    <3> QED BY <3>1, <2>3, <1>1, CharsOfIn
  <2>4. CASE k = n + 1
    BY <2>1, <2>4, <1>2
  <2> QED BY <2>2, <2>3, <2>4
<1>6. CharsOf(p) = CharsOf(os) \cup Chars(o)
  BY <1>3, <1>4, <1>5
<1> QED BY <1>6 DEF p

\* The characters of the first transaction and of the others.
LEMMA CharsOfHead ==
  ASSUME NEW os \in Seq(Seq(Item)), Len(os) >= 1
  PROVE  CharsOf(os) = Chars(os[1]) \cup CharsOf(Tail(os))
<1> DEFINE r == Tail(os)
           N == Len(os)
<1>1. N \in Nat /\ N >= 1 /\ DOMAIN os = 1..N /\ os # <<>>
  BY LenProperties
<1>2. r \in Seq(Seq(Item)) /\ Len(r) = Len(os) - 1 /\ \A i \in 1..Len(r) : r[i] = os[i + 1]
  BY <1>1, HeadTailProperties
<1>5. Len(os) = N
  OBVIOUS
<1> HIDE DEF r, N
<1>3. DOMAIN r = 1..(N - 1) /\ \A i \in 1..(N - 1) : r[i] = os[i + 1] /\ i + 1 \in 1..N
  BY <1>1, <1>2, <1>5, LenProperties
<1>4. CharsOf(r) \subseteq CharsOf(os)
  BY <1>1, <1>3, CharsOfCover
<1>6. Chars(os[1]) \subseteq CharsOf(os)
  <2>1. 1 \in DOMAIN os
    BY <1>1
  <2> QED BY <2>1, CharsOfIn
<1>7. ASSUME NEW c \in CharsOf(os) PROVE c \in Chars(os[1]) \cup CharsOf(r)
  <2>1. PICK k \in 1..N : c \in Chars(os[k])
    BY <1>1, CharsOfPick
  <2>2. CASE k = 1
    BY <2>1, <2>2
  <2>3. CASE k # 1
    <3>1. k - 1 \in 1..(N - 1) /\ (k - 1) + 1 = k
      BY <2>3, <1>1
    <3>2. k - 1 \in DOMAIN r /\ r[k - 1] = os[k]
      BY <3>1, <1>3
    <3>3. Chars(r[k - 1]) \subseteq CharsOf(r)
      BY <3>2, CharsOfIn
    <3> QED BY <3>2, <3>3, <2>1
  <2> QED BY <2>2, <2>3
<1>8. CharsOf(os) = Chars(os[1]) \cup CharsOf(r)
  BY <1>4, <1>6, <1>7
<1> QED BY <1>8 DEF r

\* A transaction's steps insert the characters of its items.
LEMMA CharsTxn ==
  ASSUME NEW t \in Seq(Char), NEW n \in Nat, NEW items, Tidy(items, n, t)
  PROVE  Chars(TxnSequence(items)) = Chars(items)
<1> DEFINE y == TxnSequence(items)
           C == Canonical(items)
<1>1. IsSequenceOf(y, C, items, n)
  BY SequenceIs
<1>2. \A k \in 1..n : \E i \in 1..n : C[i] = k
  BY TidyRanges, CanonicalIs
<1>3. DOMAIN items = 1..n
  BY DEF Tidy
<1> HIDE DEF y, C
<1>4. DOMAIN y = 1..n /\ \A k \in 1..n : C[k] \in 1..n /\ y[k].ins = items[C[k]].ins
  BY <1>1, LenProperties DEF IsSequenceOf
<1>5. Chars(y) \subseteq Chars(items)
  BY <1>3, <1>4, CharsCover
<1>6. Chars(items) \subseteq Chars(y)
  <2>1. \A k \in DOMAIN items : \E j \in DOMAIN y : items[k].ins = y[j].ins
    <3>1. SUFFICES ASSUME NEW k \in 1..n
                   PROVE  \E j \in 1..n : items[k].ins = y[j].ins
      BY <1>3, <1>4
    <3>2. PICK i \in 1..n : C[i] = k
      BY <1>2
    <3>3. items[k].ins = y[i].ins
      BY <3>2, <1>4
    <3> QED BY <3>3
  <2> QED BY <2>1, CharsCover
<1>7. Chars(y) = Chars(items)
  BY <1>5, <1>6
<1> QED BY <1>7 DEF y

-----------------------------------------------------------------------------
(* What the editors may do is a tidy transaction *)

\* What an editor types is a text.
LEMMA TypedChars ==
  ASSUME NEW who \in {"text", "remote", "local"}, NEW m \in Nat, NEW k \in Nat, NEW w \in Nat
  PROVE  [i \in 1..w |-> <<who, m, k, i>>] \in Seq(Char)
<1>1. \A i \in 1..w : <<who, m, k, i>> \in Char
  BY DEF Char
<1>2. [i \in 1..w |-> <<who, m, k, i>>] \in [1..w -> Char]
  BY <1>1
<1> QED BY <1>2

\* What the editors may ask for is tidy.
LEMMA TxnsTidy ==
  ASSUME NEW t \in Seq(Char), NEW n \in Nat, NEW m \in Nat, NEW who \in {"text", "remote", "local"},
         NEW items \in Txns(t, n, who, m), WellFormed(items)
  PROVE  \E j \in Nat : DOMAIN items = 1..j /\ Tidy(items, j, t)
<1>1. PICK j \in 1..n : \E spans \in [1..j -> Spans(t)] : items = Typed(spans, who, m)
  BY DEF Txns
<1>2. PICK spans \in [1..j -> Spans(t)] : items = Typed(spans, who, m)
  BY <1>1
<1>3. DOMAIN items = 1..j /\ j \in Nat
  BY <1>2 DEF Typed
<1>4. ASSUME NEW k \in 1..j PROVE Fits(items[k], t)
  <2> DEFINE r == spans[k]
  <2>1. r \in Spans(t)
    OBVIOUS
  <2> HIDE DEF r
  <2>2. r.s \in 0..Len(t) /\ r.e \in 0..Len(t) /\ r.s <= r.e /\ r.width \in Widths
    BY <2>1 DEF Spans
  <2>3. r.width \in Nat
    BY <2>2, PlansAssumption
  <2>4. items[k] = [s |-> r.s, e |-> r.e, ins |-> [i \in 1..r.width |-> <<who, m, k, i>>]]
    BY <1>2, <1>3 DEF Typed, r
  <2>5. items[k].s = r.s /\ items[k].e = r.e /\ items[k].ins = [i \in 1..r.width |-> <<who, m, k, i>>]
    BY <2>4
  <2>6. items[k].ins \in Seq(Char)
    <3> DEFINE w == r.width
    <3>1. k \in Nat /\ w \in Nat
      BY <1>3, <2>3
    <3> HIDE DEF w
    <3>2. [i \in 1..w |-> <<who, m, k, i>>] \in Seq(Char)
      BY <3>1, TypedChars
    <3> QED BY <3>2, <2>5 DEF w
  <2>7. Len(t) \in Nat
    BY LenProperties
  <2> QED BY <2>2, <2>5, <2>6, <2>7 DEF Fits
<1>5. Tidy(items, j, t)
  BY <1>3, <1>4 DEF Tidy, WellFormed
<1> QED BY <1>3, <1>5

\* Items with the same ranges and insertions.
Copies(a, b, n) ==
  /\ DOMAIN a = 1..n /\ DOMAIN b = 1..n
  /\ \A k \in 1..n : a[k].s = b[k].s /\ a[k].e = b[k].e /\ a[k].ins = b[k].ins

\* They are listed alike,
LEMMA CopyCanonical ==
  ASSUME NEW n \in Nat, NEW a, NEW b, Copies(a, b, n)
  PROVE  Canonical(a) = Canonical(b)
<1>1. \A i, j \in 1..n : CanonicalBefore(a, i, j) <=> CanonicalBefore(b, i, j)
  BY DEF CanonicalBefore, IsEmpty, Copies
<1> QED BY <1>1, SameCanonical DEF Copies

\* and tidy alike.
LEMMA CopyTidy ==
  ASSUME NEW n \in Nat, NEW t, NEW a, NEW b, Copies(a, b, n), Tidy(b, n, t)
  PROVE  Tidy(a, n, t)
<1>1. \A k \in 1..n : Fits(a[k], t)
  BY DEF Copies, Tidy, Fits
<1>2. Ascending(a)
  BY DEF Copies, Tidy, Ascending
<1>3. ~HasOverlap(a)
  BY DEF Copies, Tidy, HasOverlap, IsEmpty
<1> QED BY <1>1, <1>2, <1>3 DEF Copies, Tidy

\* local_edit: with what it removes a tidy transaction is one on the view.
LEMMA WithDeletedOp ==
  ASSUME NEW t \in Seq(Char), NEW n \in Nat, NEW items, Tidy(items, n, t)
  PROVE  /\ OpOn(WithDeleted(t, items), t)
         /\ TxnSequence(WithDeleted(t, items)) = TxnSequence(items)
         /\ Chars(WithDeleted(t, items)) = Chars(items)
<1> DEFINE d == WithDeleted(t, items)
<1>1. DOMAIN items = 1..n
  BY DEF Tidy
<1>2. /\ DOMAIN d = 1..n
      /\ \A k \in 1..n : d[k] = [s |-> items[k].s, e |-> items[k].e, ins |-> items[k].ins,
                                 deleted |-> Slice(t, items[k].s, items[k].e)]
  BY <1>1 DEF WithDeleted
<1>9. d = [k \in 1..n |-> d[k]]
  BY <1>1 DEF WithDeleted
<1> HIDE DEF d
<1>3. Copies(d, items, n)
  BY <1>1, <1>2 DEF Copies
<1>4. ASSUME NEW k \in 1..n PROVE d[k] \in Item /\ d[k].deleted = Slice(t, d[k].s, d[k].e)
  <2>1. Fits(items[k], t)
    BY DEF Tidy
  <2>2. Slice(t, items[k].s, items[k].e) \in Seq(Char)
    <3>1. items[k].s \in Nat /\ items[k].e \in Nat /\ items[k].s <= items[k].e /\ items[k].e <= Len(t)
      BY <2>1 DEF Fits
    <3>2. Slice(t, items[k].s, items[k].e) \in Seq(Char)
      <4> DEFINE s == items[k].s
                 e == items[k].e
      <4>1. s \in Nat /\ e \in Nat /\ s <= e /\ e <= Len(t)
        BY <3>1
      <4> HIDE DEF s, e
      <4>2. SubSeq(t, s + 1, e) \in Seq(Char)
        BY <4>1, LenProperties, SubSeqProperties
      <4> QED BY <4>2 DEF Slice, s, e
    <3> QED BY <3>2
  <2>3. d[k] \in Item
    BY <1>2, <2>1, <2>2 DEF Item, Fits
  <2> QED BY <1>2, <2>3
<1>5. d \in [1..n -> Item]
  BY <1>4, <1>9
<1>6. d \in Seq(Item) /\ Len(d) = n
  BY <1>5
<1>7. OpOn(d, t)
  <2>1. Tidy(d, n, t)
    BY <1>3, CopyTidy
  <2>2. Remembers(d, n, t)
    BY <1>4 DEF Remembers
  <2> QED BY <1>6, <2>1, <2>2 DEF OpOn
<1>8. TxnSequence(d) = TxnSequence(items)
  <2> DEFINE C == Canonical(items)
  <2>1. Canonical(d) = C
    BY <1>3, CopyCanonical
  <2>2. C \in [1..n -> 1..n]
    BY TidyRanges, CanonicalIs DEF ListsInOrder
  <2> HIDE DEF C
  <2>3. TxnSequence(d) = [k \in 1..n |-> [s |-> d[C[k]].s, e |-> d[C[k]].e, ins |-> d[C[k]].ins]]
    BY <2>1, <2>2 DEF TxnSequence, InOrder
  <2>4. TxnSequence(items) = [k \in 1..n |-> [s |-> items[C[k]].s, e |-> items[C[k]].e, ins |-> items[C[k]].ins]]
    BY <2>2 DEF TxnSequence, InOrder, C
  <2>5. \A k \in 1..n : C[k] \in 1..n
    BY <2>2
  <2>6. \A k \in 1..n : d[C[k]].s = items[C[k]].s /\ d[C[k]].e = items[C[k]].e /\ d[C[k]].ins = items[C[k]].ins
    BY <2>5, <1>3 DEF Copies
  <2> QED BY <2>3, <2>4, <2>6
<1>10. Chars(d) = Chars(items)
  <2>1. \A k \in 1..n : d[k].ins = items[k].ins
    BY <1>3 DEF Copies
  <2>2. Chars(d) \subseteq Chars(items)
    BY <1>1, <1>2, <2>1, CharsCover
  <2>3. Chars(items) \subseteq Chars(d)
    BY <1>1, <1>2, <2>1, CharsCover
  <2> QED BY <2>2, <2>3
<1> QED BY <1>7, <1>8, <1>10 DEF d

-----------------------------------------------------------------------------
(* The invariant, and a log that grows *)

\* The in-flight slot.
Slot == [st : {"none", "sent", "committed", "refused"}, items : Seq(Item), at : Nat, present : BOOLEAN]

\* No entry after rev from is the mirror's own.
NoneOwn(lg, from) == \A r \in (from + 1)..Len(lg) : ~lg[r].own

\* The request in flight was committed as rev q, the only own entry the mirror has not
\* seen: where the server's rebase through the entries before q put it.
CommittedAt(lg, fl, rv, q) ==
  /\ lg[q].own
  /\ \A r \in (rv + 1)..Len(lg) : lg[r].own => r = q
  /\ ~Refused(Rebase(fl.items, LogSteps(lg, fl.at, q - 1)))
  /\ lg[q].steps = TxnSequence(Rebase(fl.items, LogSteps(lg, fl.at, q - 1)))

\* What became of the request in flight.
Fate(lg, fl, rv) ==
  /\ fl.st = "none" => ~fl.present /\ NoneOwn(lg, rv)
  /\ fl.st = "sent" => NoneOwn(lg, fl.at)
  /\ fl.st = "committed" => fl.present /\ \E q \in (rv + 1)..Len(lg) : CommittedAt(lg, fl, rv, q)
  /\ fl.st = "refused" => /\ NoneOwn(lg, fl.at)
                          /\ Refused(Rebase(fl.items, LogSteps(lg, fl.at, Len(lg))))

\* The request as the server will rebase it and as the mirror has folded it: present and in
\* the same place, or reverted and refused.
Agrees(tx, lg, fl, rv, os) ==
  fl.st # "none" =>
    /\ OpOn(fl.items, tx[fl.at + 1])
    /\ fl.present <=> ~Refused(Rebase(fl.items, LogSteps(lg, fl.at, rv)))
    /\ fl.present => Len(os) >= 1 /\ Rebase(fl.items, LogSteps(lg, fl.at, rv)) = os[1]

\* The server, the mirror and what is between them.
World(tx, lg, fl, rv, os, vw) ==
  /\ Chain(tx, lg)
  /\ rv \in 0..Len(lg)
  /\ fl \in Slot
  /\ fl.at <= rv
  /\ Good(tx[rv + 1], os)
  /\ vw = After(tx[rv + 1], os)
  /\ Agrees(tx, lg, fl, rv, os)
  /\ Fate(lg, fl, rv)

\* tx2 and lg2 are tx and lg with the entry x.
Grown(tx, lg, tx2, lg2, x, N) ==
  /\ Len(lg2) = N + 1 /\ lg2 \in Seq(Entry)
  /\ \A r \in 0..N : tx2[r + 1] = tx[r + 1]
  /\ \A r \in 1..N : lg2[r] = lg[r]
  /\ lg2[N + 1] = x
  /\ \A a, b \in 0..N : a <= b => LogSteps(lg2, a, b) = LogSteps(lg, a, b)

\* An entry whose steps fit the server's text extends the log.
LEMMA ChainGrows ==
  ASSUME NEW tx, NEW lg, Chain(tx, lg), NEW N \in Nat, Len(lg) = N, NEW x \in Entry, StepsOn(tx[N + 1], x.steps)
  PROVE  /\ Chain(Append(tx, ApplyAll(tx[N + 1], x.steps)), Append(lg, x))
         /\ Grown(tx, lg, Append(tx, ApplyAll(tx[N + 1], x.steps)), Append(lg, x), x, N)
<1> DEFINE u == ApplyAll(tx[N + 1], x.steps)
           tx2 == Append(tx, u)
           lg2 == Append(lg, x)
<1>1. lg \in Seq(Entry) /\ tx \in Seq(Seq(Char)) /\ Len(tx) = N + 1
  BY DEF Chain
<1>2. tx[N + 1] \in Seq(Char)
  <2>1. N + 1 \in 1..Len(tx)
    BY <1>1
  <2> QED BY <2>1, <1>1, ElementOfSeq
<1>3. x.steps \in Seq(Step)
  BY DEF Entry
<1>4. u \in Seq(Char)
  BY <1>2, <1>3, StepsOnText
<1>5. u = ApplyAll(tx[N + 1], x.steps)
  OBVIOUS
<1> HIDE DEF u
<1>6. N + 1 \in Nat
  OBVIOUS
<1>7. IsAppend(tx2, tx, u, N + 1) /\ tx2 \in Seq(Seq(Char))
  BY <1>1, <1>4, <1>6, AppendIs
<1>8. IsAppend(lg2, lg, x, N) /\ lg2 \in Seq(Entry)
  BY <1>1, AppendIs
<1>15. \A a, b \in 0..N : a <= b => LogSteps(lg2, a, b) = LogSteps(lg, a, b)
  BY <1>1, LogStepsKept
<1> HIDE DEF tx2, lg2
<1>9. \A r \in 1..(N + 1) : tx2[r] = tx[r]
  BY <1>7 DEF IsAppend
<1>10. tx2[N + 2] = u /\ Len(tx2) = N + 2
  BY <1>7 DEF IsAppend
<1>11. Len(lg2) = N + 1 /\ lg2[N + 1] = x /\ \A r \in 1..N : lg2[r] = lg[r]
  BY <1>8 DEF IsAppend
<1>12. \A r \in 0..N : tx2[r + 1] = tx[r + 1]
  BY <1>9
<1>13. ASSUME NEW r \in 1..(N + 1)
       PROVE  StepsOn(tx2[r], lg2[r].steps) /\ tx2[r + 1] = ApplyAll(tx2[r], lg2[r].steps)
  <2>1. r \in 1..N \/ r = N + 1
    OBVIOUS
  <2>2. CASE r \in 1..N
    <3>1. StepsOn(tx[r], lg[r].steps) /\ tx[r + 1] = ApplyAll(tx[r], lg[r].steps)
      BY <2>2 DEF Chain
    <3>2. lg2[r] = lg[r] /\ tx2[r] = tx[r] /\ tx2[r + 1] = tx[r + 1]
      BY <2>2, <1>9, <1>11
    <3> QED BY <3>1, <3>2
  <2>3. CASE r = N + 1
    <3>1. tx2[r] = tx[N + 1] /\ lg2[r] = x /\ tx2[r + 1] = u
      BY <2>3, <1>9, <1>10, <1>11
    <3> QED BY <3>1, <1>5
  <2> QED BY <2>1, <2>2, <2>3
<1>14. Chain(tx2, lg2)
  BY <1>7, <1>8, <1>10, <1>11, <1>13 DEF Chain
<1>16. Grown(tx, lg, tx2, lg2, x, N)
  BY <1>8, <1>11, <1>12, <1>15 DEF Grown
<1> QED BY <1>14, <1>16 DEF tx2, lg2, u

\* A new entry does not disturb what the mirror has folded,
LEMMA AgreesGrows ==
  ASSUME NEW tx, NEW lg, NEW tx2, NEW lg2, NEW x, NEW N \in Nat, Grown(tx, lg, tx2, lg2, x, N),
         NEW fl \in Slot, NEW rv \in 0..N, fl.at <= rv, NEW os, Agrees(tx, lg, fl, rv, os)
  PROVE  Agrees(tx2, lg2, fl, rv, os)
<1>1. fl.at \in Nat
  BY DEF Slot
<1>2. fl.at \in 0..N
  BY <1>1
<1>3. tx2[fl.at + 1] = tx[fl.at + 1]
  BY <1>2 DEF Grown
<1>4. LogSteps(lg2, fl.at, rv) = LogSteps(lg, fl.at, rv)
  BY <1>2 DEF Grown
<1> QED BY <1>3, <1>4 DEF Agrees

\* The request in flight, by its items.
LEMMA ItemsIs ==
  ASSUME NEW fl \in Slot
  PROVE  fl.items \in [1..Len(fl.items) -> Item] /\ Len(fl.items) \in Nat /\ fl.at \in Nat
         /\ fl.items \in Seq(Item)
<1>1. fl.items \in Seq(Item) /\ fl.at \in Nat
  BY DEF Slot
<1> QED BY <1>1, LenProperties

\* An entry of another client is not the mirror's own.
LEMMA NoneOwnGrows ==
  ASSUME NEW tx, NEW lg, NEW tx2, NEW lg2, NEW x, NEW N \in Nat, Len(lg) = N, Grown(tx, lg, tx2, lg2, x, N),
         ~x.own, NEW a \in Nat, NoneOwn(lg, a)
  PROVE  NoneOwn(lg2, a)
<1>1. ASSUME NEW r \in (a + 1)..(N + 1) PROVE ~lg2[r].own
  <2>1. CASE r = N + 1
    BY <2>1 DEF Grown
  <2>2. CASE r # N + 1
    <3>1. r \in (a + 1)..N /\ r \in 1..N
      BY <2>2
    <3> QED BY <3>1 DEF Grown, NoneOwn
  <2> QED BY <2>1, <2>2
<1>2. Len(lg2) = N + 1
  BY DEF Grown
<1> QED BY <1>1, <1>2 DEF NoneOwn

\* nor, from another client, the fate of the request: refused stays refused.
LEMMA FateGrows ==
  ASSUME NEW tx, NEW lg \in Seq(Entry), NEW tx2, NEW lg2, NEW x, NEW N \in Nat, Len(lg) = N, Grown(tx, lg, tx2, lg2, x, N),
         ~x.own, NEW fl \in Slot, NEW rv \in 0..N, fl.at <= rv, Fate(lg, fl, rv)
  PROVE  Fate(lg2, fl, rv)
<1> DEFINE a == fl.at
           o == fl.items
           n == Len(fl.items)
<1>1. a \in Nat /\ o \in [1..n -> Item] /\ n \in Nat
  BY ItemsIs
<1>7. a <= rv /\ fl.at = a /\ fl.items = o
  OBVIOUS
<1> HIDE DEF a, o, n
<1>2. fl.st = "none" => ~fl.present /\ NoneOwn(lg2, rv)
  <2>1. rv \in Nat
    OBVIOUS
  <2> QED BY <2>1, NoneOwnGrows DEF Fate
<1>3. fl.st = "sent" => NoneOwn(lg2, a)
  BY <1>1, <1>7, NoneOwnGrows DEF Fate
<1>4. ASSUME fl.st = "committed"
      PROVE  fl.present /\ \E q \in (rv + 1)..Len(lg2) : CommittedAt(lg2, fl, rv, q)
  <2>1. fl.present
    BY <1>4 DEF Fate
  <2>2. PICK q \in (rv + 1)..N : CommittedAt(lg, fl, rv, q)
    BY <1>4 DEF Fate
  <2>3. q - 1 \in 0..N /\ a \in 0..N /\ a <= q - 1 /\ q \in 1..N /\ q \in (rv + 1)..(N + 1)
    BY <1>1, <1>7
  <2>4. LogSteps(lg2, a, q - 1) = LogSteps(lg, a, q - 1)
    BY <2>3 DEF Grown
  <2>5. lg2[q] = lg[q]
    BY <2>3 DEF Grown
  <2>6. ASSUME NEW r \in (rv + 1)..(N + 1), lg2[r].own PROVE r = q
    <3>1. CASE r = N + 1
      BY <3>1, <2>6 DEF Grown
    <3>2. CASE r # N + 1
      <4>1. r \in (rv + 1)..N /\ r \in 1..N
        BY <3>2
      <4>2. lg[r].own
        BY <4>1, <2>6 DEF Grown
      <4> QED BY <4>1, <4>2, <2>2 DEF CommittedAt
    <3> QED BY <3>1, <3>2
  <2>7. Len(lg2) = N + 1
    BY DEF Grown
  <2>8. CommittedAt(lg2, fl, rv, q)
    BY <2>2, <2>4, <2>5, <2>6, <2>7, <1>7 DEF CommittedAt
  <2> QED BY <2>1, <2>3, <2>7, <2>8
<1>5. ASSUME fl.st = "refused"
      PROVE  NoneOwn(lg2, a) /\ Refused(Rebase(o, LogSteps(lg2, a, N + 1)))
  <2>1. NoneOwn(lg2, a)
    BY <1>1, <1>7, <1>5, NoneOwnGrows DEF Fate
  <2>2. Refused(Rebase(o, LogSteps(lg, a, N)))
    BY <1>5, <1>7 DEF Fate
  <2>3. a \in 0..N /\ N \in 0..N /\ a <= N
    BY <1>1, <1>7
  <2>4. LogSteps(lg2, a, N) = LogSteps(lg, a, N)
    BY <2>3 DEF Grown
  <2>5. lg2 \in Seq(Entry) /\ Len(lg2) = N + 1 /\ N + 1 \in Nat
    BY DEF Grown
  <2>6. Refused(Rebase(o, LogSteps(lg2, a, N)))
    BY <2>2, <2>4
  <2>7. \A c \in Nat : N <= c /\ c <= N + 1 => Refused(Rebase(o, LogSteps(lg2, a, c)))
    BY <1>1, <2>3, <2>5, <2>6, RefusedLater
  <2>8. Refused(Rebase(o, LogSteps(lg2, a, N + 1)))
    BY <2>7, <2>5
  <2> QED BY <2>1, <2>8
<1>6. Len(lg2) = N + 1
  BY DEF Grown
<1> QED BY <1>2, <1>3, <1>4, <1>5, <1>6, <1>7 DEF Fate

-----------------------------------------------------------------------------
(* The server's steps preserve the invariant *)

\* There is a text at every rev.
LEMMA TextAt ==
  ASSUME NEW tx, NEW lg, Chain(tx, lg), NEW r \in 0..Len(lg)
  PROVE  tx[r + 1] \in Seq(Char) /\ lg \in Seq(Entry) /\ Len(lg) \in Nat
<1>1. tx \in Seq(Seq(Char)) /\ lg \in Seq(Entry) /\ Len(tx) = Len(lg) + 1
  BY DEF Chain
<1>2. Len(lg) \in Nat
  BY <1>1, LenProperties
<1>3. r + 1 \in 1..Len(tx)
  BY <1>1, <1>2
<1> QED BY <1>1, <1>2, <1>3, ElementOfSeq

\* The slot still holds the same request.
SameRequest(fl2, fl) == fl2 \in Slot /\ fl2.items = fl.items /\ fl2.at = fl.at

\* A new entry leaves the mirror where it is.
LEMMA WorldGrows ==
  ASSUME NEW tx, NEW lg, NEW fl, NEW rv, NEW os, NEW vw, World(tx, lg, fl, rv, os, vw),
         NEW N \in Nat, Len(lg) = N, NEW tx2, NEW lg2, NEW x, Grown(tx, lg, tx2, lg2, x, N), Chain(tx2, lg2),
         Fate(lg2, fl, rv)
  PROVE  World(tx2, lg2, fl, rv, os, vw)
<1>1. rv \in 0..N /\ fl \in Slot /\ fl.at <= rv /\ Agrees(tx, lg, fl, rv, os)
  BY DEF World
<1>2. Agrees(tx2, lg2, fl, rv, os)
  BY <1>1, AgreesGrows
<1>3. tx2[rv + 1] = tx[rv + 1]
  BY <1>1 DEF Grown
<1>4. rv \in 0..Len(lg2)
  BY <1>1 DEF Grown
<1> QED BY <1>1, <1>2, <1>3, <1>4 DEF World

\* Another client's commit.
LEMMA RemoteWorld ==
  ASSUME NEW tx, NEW lg, NEW fl, NEW rv, NEW os, NEW vw, World(tx, lg, fl, rv, os, vw),
         NEW N \in Nat, Len(lg) = N, NEW x \in Entry, ~x.own, StepsOn(tx[N + 1], x.steps)
  PROVE  World(Append(tx, ApplyAll(tx[N + 1], x.steps)), Append(lg, x), fl, rv, os, vw)
<1> DEFINE tx2 == Append(tx, ApplyAll(tx[N + 1], x.steps))
           lg2 == Append(lg, x)
<1>1. Chain(tx, lg) /\ rv \in 0..N /\ fl \in Slot /\ fl.at <= rv /\ Fate(lg, fl, rv)
  BY DEF World
<1>2. Chain(tx2, lg2) /\ Grown(tx, lg, tx2, lg2, x, N)
  BY <1>1, ChainGrows
<1>3. lg \in Seq(Entry)
  BY <1>1 DEF Chain
<1> HIDE DEF tx2, lg2
<1>4. Fate(lg2, fl, rv)
  BY <1>1, <1>2, <1>3, FateGrows
<1>5. World(tx2, lg2, fl, rv, os, vw)
  BY <1>2, <1>4, WorldGrows
<1> QED BY <1>5 DEF tx2, lg2

\* What the server rebases the request in flight to.
Rebased(lg, fl) == Rebase(fl.items, LogSteps(lg, fl.at, Len(lg)))

\* Unless it overlaps it is a transaction on the server's text.
LEMMA ServedOp ==
  ASSUME NEW tx, NEW lg, NEW fl, NEW rv, NEW os, NEW vw, World(tx, lg, fl, rv, os, vw),
         fl.st = "sent", ~Refused(Rebased(lg, fl))
  PROVE  OpOn(Rebased(lg, fl), tx[Len(lg) + 1])
<1> DEFINE N == Len(lg)
           a == fl.at
           o == fl.items
           q == LogSteps(lg, a, N)
<1>1. Chain(tx, lg) /\ rv \in 0..N /\ fl \in Slot /\ a <= rv /\ Agrees(tx, lg, fl, rv, os)
  BY DEF World
<1>2. N \in Nat
  BY <1>1, TextAt
<1>3. a \in Nat
  BY <1>1, ItemsIs
<1>4. a \in 0..N /\ a <= N
  BY <1>1, <1>2, <1>3
<1>5. tx[a + 1] \in Seq(Char)
  BY <1>1, <1>4, TextAt
<1>6. OpOn(o, tx[a + 1])
  BY <1>1 DEF Agrees
<1>7. q \in Seq(Step) /\ StepsOn(tx[a + 1], q) /\ ApplyAll(tx[a + 1], q) = tx[N + 1]
  <2>1. Len(lg) = N /\ N <= N
    BY <1>2
  <2> HIDE DEF N, a
  <2>2. \A b \in Nat : a <= b /\ b <= N => /\ LogSteps(lg, a, b) \in Seq(Step)
                                           /\ StepsOn(tx[a + 1], LogSteps(lg, a, b))
                                           /\ ApplyAll(tx[a + 1], LogSteps(lg, a, b)) = tx[b + 1]
    BY <1>1, <1>2, <1>3, <2>1, ChainSteps
  <2> QED BY <1>2, <1>4, <2>1, <2>2
<1>8. Rebased(lg, fl) = Rebase(o, q)
  BY DEF Rebased
<1> HIDE DEF N, a, o, q
<1>9. OpOn(Rebase(o, q), ApplyAll(tx[a + 1], q))
  BY <1>5, <1>6, <1>7, <1>8, RebaseGood
<1> QED BY <1>7, <1>8, <1>9 DEF N

\* The server commits the request: the mirror cannot have reverted it.
LEMMA ServeWorld ==
  ASSUME NEW tx, NEW lg, NEW fl, NEW rv, NEW os, NEW vw, World(tx, lg, fl, rv, os, vw),
         fl.st = "sent", ~Refused(Rebased(lg, fl)),
         NEW fl2, SameRequest(fl2, fl), fl2.st = "committed", fl2.present <=> fl.present,
         NEW N \in Nat, Len(lg) = N, NEW x \in Entry, x.own, x.steps = TxnSequence(Rebased(lg, fl))
  PROVE  World(Append(tx, ApplyAll(tx[N + 1], x.steps)), Append(lg, x), fl2, rv, os, vw)
<1> DEFINE tx2 == Append(tx, ApplyAll(tx[N + 1], x.steps))
           lg2 == Append(lg, x)
           a == fl.at
           o == fl.items
           n == Len(fl.items)
<1>1. Chain(tx, lg) /\ rv \in 0..N /\ fl \in Slot /\ a <= rv /\ Fate(lg, fl, rv) /\ Agrees(tx, lg, fl, rv, os)
  BY DEF World
<1>2. N \in 0..N /\ N \in 0..Len(lg)
  OBVIOUS
<1>3. OpOn(Rebased(lg, fl), tx[N + 1]) /\ tx[N + 1] \in Seq(Char)
  BY <1>1, <1>2, ServedOp, TextAt
<1>4. StepsOn(tx[N + 1], x.steps)
  <2> DEFINE items == Rebased(lg, fl)
             m == Len(items)
  <2>1. m \in Nat /\ Tidy(items, m, tx[N + 1])
    BY <1>3, OpOnIs DEF OpOn
  <2> HIDE DEF items, m
  <2>2. StepsOn(tx[N + 1], TxnSequence(items))
    BY <1>3, <2>1, TxnStepsOn
  <2> QED BY <2>2 DEF items
<1>5. Chain(tx2, lg2) /\ Grown(tx, lg, tx2, lg2, x, N)
  BY <1>1, <1>4, ChainGrows
<1>6. lg \in Seq(Entry)
  BY <1>1 DEF Chain
<1>7. a \in Nat /\ o \in [1..n -> Item] /\ n \in Nat
  BY <1>1, ItemsIs
<1>8. fl2 \in Slot /\ fl2.at = a /\ fl2.items = o /\ fl.at = a /\ fl.items = o
  BY DEF SameRequest
<1>9. NoneOwn(lg, a) /\ ~Refused(Rebase(o, LogSteps(lg, a, N))) /\ x.steps = TxnSequence(Rebase(o, LogSteps(lg, a, N)))
  BY <1>1 DEF Fate, Rebased
<1> HIDE DEF tx2, lg2, a, o, n
<1>10. fl.present
  <2>1. SUFFICES ASSUME Refused(Rebase(o, LogSteps(lg, a, rv))) PROVE FALSE
    BY <1>1, <1>8 DEF Agrees
  <2>2. rv \in Nat /\ rv <= N /\ N <= N
    BY <1>1
  <2>3. \A c \in Nat : rv <= c /\ c <= N => Refused(Rebase(o, LogSteps(lg, a, c)))
    BY <1>1, <1>6, <1>7, <2>1, <2>2, RefusedLater
  <2> QED BY <2>2, <2>3, <1>9
<1>11. CommittedAt(lg2, fl2, rv, N + 1)
  <2>1. a \in 0..N /\ a <= N /\ (N + 1) - 1 = N
    BY <1>1, <1>7
  <2>2. LogSteps(lg2, a, N) = LogSteps(lg, a, N)
    BY <1>2, <1>5, <2>1 DEF Grown
  <2>3. lg2[N + 1] = x /\ Len(lg2) = N + 1
    BY <1>5 DEF Grown
  <2>4. ASSUME NEW r \in (rv + 1)..(N + 1), lg2[r].own PROVE r = N + 1
    <3>1. SUFFICES ASSUME r # N + 1 PROVE FALSE
      OBVIOUS
    <3>2. r \in 1..N /\ r \in (a + 1)..N
      BY <3>1, <1>1, <1>7
    <3>3. lg[r].own
      BY <3>2, <2>4, <1>5 DEF Grown
    <3> QED BY <3>2, <3>3, <1>9 DEF NoneOwn
  <2> QED BY <2>1, <2>2, <2>3, <2>4, <1>8, <1>9 DEF CommittedAt
<1>12. Fate(lg2, fl2, rv)
  <2>1. N + 1 \in (rv + 1)..Len(lg2)
    BY <1>1, <1>5 DEF Grown
  <2>2. fl2.present /\ \E q \in (rv + 1)..Len(lg2) : CommittedAt(lg2, fl2, rv, q)
    BY <1>10, <1>11, <2>1
  <2> QED BY <2>2 DEF Fate
<1>14. Agrees(tx, lg, fl2, rv, os)
  BY <1>1, <1>8 DEF Agrees
<1>15. Agrees(tx2, lg2, fl2, rv, os)
  BY <1>1, <1>5, <1>8, <1>14, AgreesGrows
<1>16. tx2[rv + 1] = tx[rv + 1]
  BY <1>1, <1>5 DEF Grown
<1>17. rv \in 0..Len(lg2)
  BY <1>1, <1>5 DEF Grown
<1>18. World(tx2, lg2, fl2, rv, os, vw)
  BY <1>1, <1>5, <1>8, <1>12, <1>15, <1>16, <1>17 DEF World
<1> QED BY <1>18 DEF tx2, lg2

\* The server refuses it.
LEMMA RefuseWorld ==
  ASSUME NEW tx, NEW lg, NEW fl, NEW rv, NEW os, NEW vw, World(tx, lg, fl, rv, os, vw),
         fl.st = "sent", Refused(Rebased(lg, fl)),
         NEW fl2, SameRequest(fl2, fl), fl2.st = "refused", fl2.present <=> fl.present
  PROVE  World(tx, lg, fl2, rv, os, vw)
<1>1. Fate(lg, fl, rv) /\ Agrees(tx, lg, fl, rv, os)
  BY DEF World
<1>2. Agrees(tx, lg, fl2, rv, os)
  BY <1>1 DEF Agrees, SameRequest
<1>3. Fate(lg, fl2, rv)
  BY <1>1 DEF Fate, Rebased, SameRequest
<1> QED BY <1>2, <1>3 DEF World, SameRequest

-----------------------------------------------------------------------------
(* The mirror's own steps preserve it *)

\* A local edit.
LEMMA LocalWorld ==
  ASSUME NEW tx, NEW lg, NEW fl, NEW rv, NEW os, NEW vw, World(tx, lg, fl, rv, os, vw),
         NEW o, OpOn(o, vw)
  PROVE  World(tx, lg, fl, rv, Append(os, o), ApplyAll(vw, TxnSequence(o)))
<1> DEFINE t == tx[rv + 1]
           p == Append(os, o)
           n == Len(os)
<1>1. Chain(tx, lg) /\ rv \in 0..Len(lg) /\ Good(t, os) /\ vw = After(t, os) /\ Agrees(tx, lg, fl, rv, os)
  BY DEF World
<1>2. t \in Seq(Char)
  BY <1>1, TextAt
<1>3. os \in Seq(Seq(Item)) /\ Sequenced(os) /\ n \in Nat /\ vw \in Seq(Char)
  BY <1>1, <1>2, GoodIs
<1>4. o \in Seq(Item) /\ TxnSequence(o) \in Seq(Step)
  BY <1>3, OpOnIs
<1> HIDE DEF t, n
<1>5. Good(t, p)
  BY <1>1, <1>2, <1>3, GoodAppend
<1>6. After(t, p) = ApplyAll(vw, TxnSequence(o))
  BY <1>1, <1>3, <1>4, AfterAppend
<1>7. IsAppend(p, os, o, n)
  BY <1>3, <1>4, AppendIs DEF n
<1> HIDE DEF p
<1>8. Len(p) >= 1 /\ (n >= 1 => p[1] = os[1])
  BY <1>3, <1>7 DEF IsAppend
<1>9. Agrees(tx, lg, fl, rv, p)
  BY <1>1, <1>8 DEF Agrees, n
<1>10. World(tx, lg, fl, rv, p, ApplyAll(vw, TxnSequence(o)))
  BY <1>5, <1>6, <1>9 DEF World, t
<1> QED BY <1>10 DEF p

\* What fits a text is not refused.
LEMMA FitsStands ==
  ASSUME NEW t, NEW o, NEW n \in Nat, Tidy(o, n, t)
  PROVE  ~Refused(o)
<1>1. \A k \in 1..n : o[k].s \in Nat
  BY DEF Tidy, Fits
<1>2. \A k \in 1..n : RangeOf(o[k]) # Overlap
  <2> TAKE k \in 1..n
  <2>1. RangeOf(o[k]).s = o[k].s /\ Overlap.s = -1
    BY DEF RangeOf, Overlap
  <2> QED BY <2>1, <1>1
<1> QED BY <1>2 DEF Refused, Tidy

\* The first pending transaction is sent, based on the mirror's rev.
LEMMA SendWorld ==
  ASSUME NEW tx, NEW lg, NEW fl, NEW rv, NEW os, NEW vw, World(tx, lg, fl, rv, os, vw),
         fl.st = "none", Len(os) >= 1,
         NEW fl2 \in Slot, fl2.st = "sent", fl2.items = os[1], fl2.at = rv, fl2.present
  PROVE  World(tx, lg, fl2, rv, os, vw)
<1> DEFINE o == os[1]
           n == Len(o)
<1>1. Chain(tx, lg) /\ rv \in 0..Len(lg) /\ Good(tx[rv + 1], os) /\ Fate(lg, fl, rv)
  BY DEF World
<1>2. tx[rv + 1] \in Seq(Char) /\ rv \in Nat
  BY <1>1, TextAt
<1>3. OpOn(o, tx[rv + 1])
  BY <1>1, <1>2, GoodFirst
<1>4. o \in [1..n -> Item] /\ n \in Nat
  BY <1>2, <1>3, OpOnIs
<1>5. ~Refused(o)
  BY <1>3, <1>4, FitsStands DEF OpOn
<1> HIDE DEF o, n
<1>6. LogSteps(lg, rv, rv) = <<>>
  BY <1>2, LogStepsEmpty
<1>7. Rebase(o, LogSteps(lg, rv, rv)) = o
  BY <1>4, <1>6, RebaseEmpty
<1>8. Agrees(tx, lg, fl2, rv, os)
  BY <1>3, <1>5, <1>7 DEF Agrees, o
<1>9. Fate(lg, fl2, rv)
  BY <1>1 DEF Fate
<1>10. fl2.at <= rv
  BY <1>2
<1> QED BY <1>8, <1>9, <1>10 DEF World

\* The empty slot.
LEMMA NoFlightIs == NoFlight \in Slot /\ NoFlight.st = "none" /\ ~NoFlight.present /\ NoFlight.at = 0
<1>1. <<>> \in Seq(Item)
  OBVIOUS
<1> QED BY <1>1 DEF NoFlight, Slot

\* With nothing in flight nothing needs to agree.
LEMMA IdleWorld ==
  ASSUME NEW lg, NEW tx, NEW rv \in Nat, NEW os, NoneOwn(lg, rv)
  PROVE  Fate(lg, NoFlight, rv) /\ Agrees(tx, lg, NoFlight, rv, os) /\ NoFlight.at <= rv
BY NoFlightIs DEF Fate, Agrees

\* The mirror's own entry is the pending transaction in flight, step for step.
LEMMA EchoWorld ==
  ASSUME NEW tx, NEW lg, NEW fl, NEW rv, NEW os, NEW vw, World(tx, lg, fl, rv, os, vw),
         rv < Len(lg), lg[rv + 1].own, fl.present
  PROVE  /\ World(tx, lg, NoFlight, rv + 1, Tail(os), vw)
         /\ lg[rv + 1].steps = TxnSequence(os[1]) /\ Len(os) >= 1
<1> DEFINE t == tx[rv + 1]
           N == Len(lg)
           a == fl.at
<1>1. /\ Chain(tx, lg) /\ rv \in 0..N /\ fl \in Slot /\ a <= rv /\ Good(t, os) /\ vw = After(t, os)
      /\ Agrees(tx, lg, fl, rv, os) /\ Fate(lg, fl, rv)
  BY DEF World
<1>2. t \in Seq(Char) /\ N \in Nat /\ rv \in Nat /\ rv + 1 \in 1..N
  BY <1>1, TextAt
<1>3. a \in Nat
  BY <1>1, ItemsIs
<1>4. ~NoneOwn(lg, a) /\ ~NoneOwn(lg, rv)
  BY <1>1, <1>2, <1>3 DEF NoneOwn
<1>5. fl.st = "committed"
  <2>1. fl.st \in {"none", "sent", "committed", "refused"}
    BY <1>1 DEF Slot
  <2> QED BY <2>1, <1>1, <1>4 DEF Fate
<1>6. PICK q \in (rv + 1)..N : CommittedAt(lg, fl, rv, q)
  BY <1>1, <1>5 DEF Fate
<1>7. q = rv + 1 /\ q - 1 = rv
  <2>1. rv + 1 \in (rv + 1)..N
    BY <1>2
  <2>2. q = rv + 1
    BY <2>1, <1>6 DEF CommittedAt
  <2> QED BY <2>2, <1>2
<1>8. Len(os) >= 1 /\ lg[rv + 1].steps = TxnSequence(os[1])
  <2>1. Len(os) >= 1 /\ Rebase(fl.items, LogSteps(lg, fl.at, rv)) = os[1]
    BY <1>1, <1>5 DEF Agrees
  <2> QED BY <2>1, <1>6, <1>7 DEF CommittedAt
<1>9. tx[(rv + 1) + 1] = ApplyAll(t, TxnSequence(os[1]))
  BY <1>1, <1>2, <1>8 DEF Chain
<1>10. Good(tx[(rv + 1) + 1], Tail(os)) /\ After(tx[(rv + 1) + 1], Tail(os)) = vw
  <2>1. /\ Good(ApplyAll(t, TxnSequence(os[1])), Tail(os))
        /\ After(ApplyAll(t, TxnSequence(os[1])), Tail(os)) = After(t, os)
    BY <1>1, <1>2, <1>8, GoodTail
  <2> QED BY <2>1, <1>1, <1>9
<1>11. NoneOwn(lg, rv + 1)
  <2>1. ASSUME NEW r \in ((rv + 1) + 1)..N PROVE ~lg[r].own
    <3>1. r \in (rv + 1)..N /\ r # rv + 1
      BY <1>2
    <3> QED BY <3>1, <1>6, <1>7 DEF CommittedAt
  <2> QED BY <2>1 DEF NoneOwn
<1>12. rv + 1 \in Nat /\ rv + 1 \in 0..N
  BY <1>2
<1>13. Fate(lg, NoFlight, rv + 1) /\ Agrees(tx, lg, NoFlight, rv + 1, Tail(os)) /\ NoFlight.at <= rv + 1
  BY <1>11, <1>12, IdleWorld
<1>14. World(tx, lg, NoFlight, rv + 1, Tail(os), vw)
  BY <1>1, <1>10, <1>12, <1>13, NoFlightIs DEF World
<1> QED BY <1>8, <1>14

\* The refusal arrives: with the transactions already reverted, or reverting them now.
LEMMA ReplyDoomedWorld ==
  ASSUME NEW tx, NEW lg, NEW fl, NEW rv, NEW os, NEW vw, World(tx, lg, fl, rv, os, vw), fl.st = "refused"
  PROVE  /\ World(tx, lg, NoFlight, rv, os, vw)
         /\ World(tx, lg, NoFlight, rv, <<>>, UndoneTo(vw, os, 0))
<1> DEFINE t == tx[rv + 1]
           N == Len(lg)
           a == fl.at
           L == Len(os)
<1>1. /\ Chain(tx, lg) /\ rv \in 0..N /\ fl \in Slot /\ a <= rv /\ Good(t, os) /\ vw = After(t, os)
      /\ Agrees(tx, lg, fl, rv, os) /\ Fate(lg, fl, rv)
  BY DEF World
<1>2. t \in Seq(Char) /\ N \in Nat /\ rv \in Nat
  BY <1>1, TextAt
<1>3. a \in Nat
  BY <1>1, ItemsIs
<1>4. NoneOwn(lg, rv)
  <2>1. NoneOwn(lg, a)
    BY <1>1 DEF Fate
  <2> QED BY <2>1, <1>1, <1>2, <1>3 DEF NoneOwn
<1>5. Fate(lg, NoFlight, rv) /\ Agrees(tx, lg, NoFlight, rv, os) /\ Agrees(tx, lg, NoFlight, rv, <<>>) /\ NoFlight.at <= rv
  BY <1>2, <1>4, IdleWorld
<1>6. L \in Nat
  BY <1>1, <1>2, GoodIs
<1>7. UndoneTo(vw, os, 0) = After(t, SubSeq(os, 1, 0))
  <2> DEFINE z == 0
  <2>1. z \in 0..L /\ Len(os) = L
    BY <1>6
  <2> HIDE DEF z, L
  <2>2. UndoneTo(vw, os, z) = After(t, SubSeq(os, 1, z))
    BY <1>1, <1>2, <1>6, <2>1, UndoneIs
  <2> QED BY <2>2 DEF z
<1>8. SubSeq(os, 1, 0) = <<>>
  OBVIOUS
<1>9. Good(t, <<>>) /\ After(t, <<>>) = UndoneTo(vw, os, 0)
  BY <1>7, <1>8, GoodEmpty, AfterEmpty
<1> QED BY <1>1, <1>5, <1>9, NoFlightIs DEF World

-----------------------------------------------------------------------------
(* Folding an entry preserves it *)

\* What the retries of fold_remote end with: the longest prefix that folds.
Keeps(os, n, q) ==
  /\ ~FoldSteps(SubSeq(os, 1, n), q).failed
  /\ \A m \in (n + 1)..Len(os) : FoldSteps(SubSeq(os, 1, m), q).failed

\* If the prefix is empty, the first transaction overlaps.
LEMMA FoldedFirst ==
  ASSUME NEW t \in Seq(Char), NEW os, Good(t, os), NEW q \in Seq(Step), StepsOn(t, q),
         NEW L \in Nat, Len(os) = L, NEW n \in 0..L, Keeps(os, n, q)
  PROVE  /\ FoldOk(t, SubSeq(os, 1, n), q, FoldSteps(SubSeq(os, 1, n), q))
         /\ Len(SubSeq(os, 1, n)) = n
         /\ n >= 1 => SubSeq(os, 1, n)[1] = os[1]
         /\ n = 0 /\ L >= 1 => Refused(Rebase(os[1], q))
<1> DEFINE p(k) == SubSeq(os, 1, k)
<1>0. os \in Seq(Seq(Item))
  BY DEF Good
<1>1. \A k \in 0..L : Good(t, p(k)) /\ Len(p(k)) = k
  BY PrefixGood
<1>2. \A k \in 1..L : p(k)[1] = os[1]
  BY <1>0, LenProperties
<1> HIDE DEF p
<1>3. \A k \in 0..L : FoldOf(t, p(k), q, FoldSteps(p(k), q))
  BY <1>1, FoldLemma
<1>4. ~FoldSteps(p(n), q).failed /\ \A m \in (n + 1)..L : FoldSteps(p(m), q).failed
  BY DEF Keeps, p
<1>5. FoldOk(t, p(n), q, FoldSteps(p(n), q))
  BY <1>3, <1>4 DEF FoldOf
<1>6. n >= 1 => p(n)[1] = os[1]
  BY <1>2
<1>7. ASSUME n = 0, L >= 1 PROVE Refused(Rebase(os[1], q))
  <2>1. 1 \in (n + 1)..L /\ 1 \in 0..L /\ 1 \in 1..L
    BY <1>7
  <2>2. FoldSteps(p(1), q).failed /\ Len(p(1)) = 1 /\ p(1)[1] = os[1]
    BY <2>1, <1>1, <1>2, <1>4
  <2>3. FoldOf(t, p(1), q, FoldSteps(p(1), q))
    BY <2>1, <1>3
  <2>4. Refused(Rebase(p(1)[1], q))
    BY <2>2, <2>3 DEF FoldOf
  <2> QED BY <2>2, <2>4
<1> QED BY <1>1, <1>5, <1>6, <1>7 DEF p

\* Another client's entry is folded: a request reverted by it is one the server refuses.
LEMMA FoldWorld ==
  ASSUME NEW tx, NEW lg, NEW fl, NEW rv, NEW os, NEW vw, World(tx, lg, fl, rv, os, vw),
         rv < Len(lg), ~lg[rv + 1].own, NEW L \in Nat, Len(os) = L, NEW n \in 0..L,
         Keeps(os, n, lg[rv + 1].steps),
         NEW fl2, SameRequest(fl2, fl), fl2.st = fl.st, fl2.present <=> fl.present /\ n > 0
  PROVE  LET f == FoldSteps(SubSeq(os, 1, n), lg[rv + 1].steps) IN
         /\ World(tx, lg, fl2, rv + 1, f.ops, ApplyAll(UndoneTo(vw, os, n), f.out))
         /\ SameTyped(f.ops, SubSeq(os, 1, n)) /\ f.ops \in Seq(Seq(Item))
         /\ SubSeq(os, 1, n) \in Seq(Seq(Item)) /\ os \in Seq(Seq(Item))
<1> DEFINE t == tx[rv + 1]
           N == Len(lg)
           a == fl.at
           o == fl.items
           k == Len(fl.items)
           q == lg[rv + 1].steps
           p == SubSeq(os, 1, n)
           f == FoldSteps(p, q)
           S(r) == LogSteps(lg, a, r)
<1>1. /\ Chain(tx, lg) /\ rv \in 0..N /\ fl \in Slot /\ a <= rv /\ Good(t, os) /\ vw = After(t, os)
      /\ Agrees(tx, lg, fl, rv, os) /\ Fate(lg, fl, rv)
  BY DEF World
<1>2. t \in Seq(Char) /\ N \in Nat /\ rv \in Nat /\ rv + 1 \in 1..N /\ lg \in Seq(Entry)
  BY <1>1, TextAt
<1>3. a \in Nat /\ o \in [1..k -> Item] /\ k \in Nat
  BY <1>1, ItemsIs
<1>4. StepsOn(t, q) /\ tx[(rv + 1) + 1] = ApplyAll(t, q)
  BY <1>1, <1>2 DEF Chain
<1>5. q \in Seq(Step)
  BY <1>4 DEF StepsOn
<1>6. S(rv) \in Seq(Step) /\ S(rv + 1) = S(rv) \o q
  <2>1. a <= rv /\ rv < Len(lg) /\ rv <= Len(lg)
    BY <1>1, <1>2
  <2> HIDE DEF a
  <2>2. LogSteps(lg, a, rv) \in Seq(Step)
    BY <1>2, <1>3, <2>1, LogStepsType
  <2>3. LogSteps(lg, a, rv + 1) = LogSteps(lg, a, rv) \o q
    BY <1>2, <1>3, <2>1, LogStepsNext
  <2> QED BY <2>2, <2>3
<1>7. /\ fl2 \in Slot /\ fl2.at = a /\ fl2.items = o /\ fl.at = a /\ fl.items = o
      /\ Keeps(os, n, q) /\ rv < N /\ ~lg[rv + 1].own
  BY DEF SameRequest
<1>8. LogSteps(lg, a, rv) = S(rv) /\ LogSteps(lg, a, rv + 1) = S(rv + 1) /\ \A r : S(r) = LogSteps(lg, a, r)
  OBVIOUS
<1>9. UndoneTo(vw, os, n) = After(t, p) /\ Good(t, p)
  BY <1>1, <1>2, UndoneIs, PrefixGood
<1> HIDE DEF t, N, a, o, k, q, f, S
<1>10. /\ FoldOk(t, p, q, f) /\ Len(p) = n
       /\ n >= 1 => p[1] = os[1]
       /\ n = 0 /\ L >= 1 => Refused(Rebase(os[1], q))
  BY <1>1, <1>2, <1>4, <1>5, <1>7, FoldedFirst DEF f
<1> HIDE DEF p
<1>11. /\ f.ops \in Seq(Seq(Item)) /\ Good(tx[(rv + 1) + 1], f.ops)
       /\ ApplyAll(UndoneTo(vw, os, n), f.out) = After(tx[(rv + 1) + 1], f.ops)
       /\ SameTyped(f.ops, p)
  BY <1>4, <1>9, <1>10 DEF FoldOk
<1>12. n >= 1 => Len(f.ops) >= 1 /\ f.ops[1] = Rebase(os[1], q) /\ ~Refused(f.ops[1])
  BY <1>10, <1>11 DEF FoldOk, SameTyped
<1>13. Rebase(o, S(rv + 1)) = Rebase(Rebase(o, S(rv)), q)
  <2> DEFINE u == S(rv)
  <2>1. u \in Seq(Step)
    BY <1>6
  <2> HIDE DEF u
  <2>2. Rebase(o, u \o q) = Rebase(Rebase(o, u), q)
    BY <1>3, <1>5, <2>1, RebaseConcat
  <2> QED BY <2>2, <1>6 DEF u
<1>14. Refused(Rebase(o, S(rv))) => Refused(Rebase(o, S(rv + 1)))
  BY <1>3, <1>5, <1>6, RefusedFurther
<1>15. ASSUME fl.st # "none"
       PROVE  /\ OpOn(o, tx[a + 1])
              /\ fl2.present <=> ~Refused(Rebase(o, S(rv + 1)))
              /\ fl2.present => Len(f.ops) >= 1 /\ Rebase(o, S(rv + 1)) = f.ops[1]
  <2>1. /\ OpOn(o, tx[a + 1])
        /\ fl.present <=> ~Refused(Rebase(o, S(rv)))
        /\ fl.present => L >= 1 /\ Rebase(o, S(rv)) = os[1]
    BY <1>1, <1>7, <1>8, <1>15 DEF Agrees
  <2>2. CASE ~fl.present
    BY <2>1, <2>2, <1>14
  <2>3. CASE fl.present /\ n = 0
    BY <2>1, <2>3, <1>10, <1>13
  <2>4. CASE fl.present /\ n # 0
    <3>1. n >= 1 /\ n > 0
      BY <2>4
    <3> QED BY <3>1, <2>1, <2>4, <1>12, <1>13
  <2> QED BY <2>2, <2>3, <2>4, <2>1
<1>16. Agrees(tx, lg, fl2, rv + 1, f.ops)
  BY <1>7, <1>8, <1>15 DEF Agrees
<1>17. Fate(lg, fl2, rv + 1)
  <2>1. fl.st = "none" => ~fl2.present /\ NoneOwn(lg, rv + 1)
    BY <1>1, <1>2 DEF Fate, NoneOwn
  <2>2. fl.st = "sent" => NoneOwn(lg, a)
    BY <1>1, <1>7 DEF Fate
  <2>3. fl.st = "refused" => NoneOwn(lg, a) /\ Refused(Rebase(o, LogSteps(lg, a, Len(lg))))
    BY <1>1, <1>7 DEF Fate
  <2>4. ASSUME fl.st = "committed"
        PROVE  fl2.present /\ \E r \in ((rv + 1) + 1)..N : CommittedAt(lg, fl2, rv + 1, r)
    <3>1. fl.present
      BY <2>4, <1>1 DEF Fate
    <3>2. PICK r \in (rv + 1)..N : CommittedAt(lg, fl, rv, r)
      BY <2>4, <1>1 DEF Fate, N
    <3>3. r # rv + 1
      BY <3>2, <1>7 DEF CommittedAt
    <3>4. r \in ((rv + 1) + 1)..N /\ r - 1 \in Nat /\ rv + 1 <= r - 1 /\ r - 1 <= N /\ rv + 1 \in Nat /\ a <= rv + 1
      BY <3>3, <1>1, <1>2, <1>3
    <3>5. CommittedAt(lg, fl2, rv + 1, r)
      <4>1. \A i \in ((rv + 1) + 1)..Len(lg) : lg[i].own => i = r
        BY <3>2, <1>2 DEF CommittedAt, N
      <4> QED BY <4>1, <3>2, <1>7 DEF CommittedAt
    <3>6. fl2.present
      <4>1. SUFFICES ASSUME Refused(Rebase(o, S(rv + 1))) PROVE FALSE
        BY <2>4, <1>15
      <4>2. Len(lg) = N
        BY DEF N
      <4>3. \A c \in Nat : rv + 1 <= c /\ c <= N => Refused(Rebase(o, LogSteps(lg, a, c)))
        <5> DEFINE b == rv + 1
        <5>1. b \in Nat /\ a <= b /\ Refused(Rebase(o, LogSteps(lg, a, b)))
          BY <3>4, <4>1, <1>8
        <5> HIDE DEF b
        <5>2. \A c \in Nat : b <= c /\ c <= N => Refused(Rebase(o, LogSteps(lg, a, c)))
          BY <1>2, <1>3, <4>2, <5>1, RefusedLater
        <5> QED BY <5>2 DEF b
      <4>4. Refused(Rebase(o, LogSteps(lg, a, r - 1)))
        BY <3>4, <4>3
      <4> QED BY <4>4, <3>2, <1>7 DEF CommittedAt
    <3> QED BY <3>4, <3>5, <3>6
  <2> QED BY <2>1, <2>2, <2>3, <2>4, <1>7 DEF Fate, N
<1>18. rv + 1 \in 0..N /\ fl2.at <= rv + 1
  BY <1>1, <1>2, <1>3, <1>7
<1>19. World(tx, lg, fl2, rv + 1, f.ops, ApplyAll(UndoneTo(vw, os, n), f.out))
  BY <1>1, <1>7, <1>11, <1>16, <1>17, <1>18 DEF World, N
<1>20. p \in Seq(Seq(Item)) /\ os \in Seq(Seq(Item))
  BY <1>1, <1>9 DEF Good
<1> QED BY <1>19, <1>11, <1>20 DEF f, p, q

-----------------------------------------------------------------------------
(* The inductive invariant: Init and the other clients *)

\* What the mirror's own entries up to its rev inserted.
Acked(lg, rv) == UNION {Chars(lg[r].steps) : r \in {q \in 1..rv : lg[q].own}}

\* The characters in the stash, pending and acknowledged.
Kinds(st, os, lg, rv) == st \cup CharsOf(os) \cup Acked(lg, rv)

\* An acknowledged entry's characters.
LEMMA AckedIn ==
  ASSUME NEW lg, NEW rv, NEW r \in 1..rv, lg[r].own
  PROVE  Chars(lg[r].steps) \subseteq Acked(lg, rv)
BY DEF Acked

\* Each acknowledged character is one of some entry.
LEMMA AckedPick ==
  ASSUME NEW lg, NEW rv, NEW c \in Acked(lg, rv)
  PROVE  \E r \in 1..rv : lg[r].own /\ c \in Chars(lg[r].steps)
BY DEF Acked

\* More entries, more characters.
LEMMA AckedCover ==
  ASSUME NEW lg, NEW lg2, NEW rv, NEW rv2,
         \A r \in 1..rv : lg[r].own => r \in 1..rv2 /\ lg2[r].own /\ lg2[r].steps = lg[r].steps
  PROVE  Acked(lg, rv) \subseteq Acked(lg2, rv2)
BY DEF Acked

\* The next entry adds its characters if it is the mirror's own.
LEMMA AckedNext ==
  ASSUME NEW lg, NEW rv \in Nat
  PROVE  /\ lg[rv + 1].own => Acked(lg, rv + 1) = Acked(lg, rv) \cup Chars(lg[rv + 1].steps)
         /\ ~lg[rv + 1].own => Acked(lg, rv + 1) = Acked(lg, rv)
<1>1. Acked(lg, rv) \subseteq Acked(lg, rv + 1)
  <2>1. \A r \in 1..rv : r \in 1..(rv + 1)
    OBVIOUS
  <2> QED BY <2>1, AckedCover
<1>2. lg[rv + 1].own => Chars(lg[rv + 1].steps) \subseteq Acked(lg, rv + 1)
  <2>1. rv + 1 \in 1..(rv + 1)
    OBVIOUS
  <2> QED BY <2>1, AckedIn
<1>3. ASSUME NEW c \in Acked(lg, rv + 1)
      PROVE  c \in Acked(lg, rv) \/ (lg[rv + 1].own /\ c \in Chars(lg[rv + 1].steps))
  <2>1. PICK r \in 1..(rv + 1) : lg[r].own /\ c \in Chars(lg[r].steps)
    BY AckedPick
  <2>2. CASE r = rv + 1
    BY <2>1, <2>2
  <2>3. CASE r # rv + 1
    <3>1. r \in 1..rv
      BY <2>3
    <3> QED BY <3>1, <2>1, AckedIn
  <2> QED BY <2>2, <2>3
<1> QED BY <1>1, <1>2, <1>3

\* Entries the mirror has not seen add none.
LEMMA AckedGrows ==
  ASSUME NEW tx, NEW lg, NEW tx2, NEW lg2, NEW x, NEW N \in Nat, Grown(tx, lg, tx2, lg2, x, N), NEW rv \in 0..N
  PROVE  Acked(lg2, rv) = Acked(lg, rv)
<1>1. \A r \in 1..rv : r \in 1..N
  OBVIOUS
<1>2. \A r \in 1..rv : lg2[r] = lg[r]
  BY <1>1 DEF Grown
<1>3. Acked(lg, rv) \subseteq Acked(lg2, rv)
  BY <1>2, AckedCover
<1>4. Acked(lg2, rv) \subseteq Acked(lg, rv)
  BY <1>2, AckedCover
<1> QED BY <1>3, <1>4

\* The plan.
PlanOK == plan \in [text : Seq(Char), locals : Seq(Nat), remotes : Seq(Nat)]

\* The inductive invariant.
Inv ==
  /\ PlanOK
  /\ World(texts, log, flight, rev, ops, view)
  /\ NothingTypedIsLost

\* NothingTypedIsLost in these terms.
LEMMA LostIs == NothingTypedIsLost <=> typed = Kinds(stash, ops, log, rev)
BY DEF NothingTypedIsLost, Kinds, Acked

\* A plan with one transaction less.
LEMMA PlanTails ==
  ASSUME PlanOK
  PROVE  /\ plan.remotes # <<>> => /\ Head(plan.remotes) \in Nat /\ Len(plan.remotes) \in Nat
                                   /\ [plan EXCEPT !.remotes = Tail(@)] \in [text : Seq(Char), locals : Seq(Nat), remotes : Seq(Nat)]
         /\ plan.locals # <<>> => /\ Head(plan.locals) \in Nat /\ Len(plan.locals) \in Nat
                                  /\ [plan EXCEPT !.locals = Tail(@)] \in [text : Seq(Char), locals : Seq(Nat), remotes : Seq(Nat)]
<1>1. plan.remotes \in Seq(Nat) /\ plan.locals \in Seq(Nat)
  BY DEF PlanOK
<1>2. \A p \in Seq(Nat) : p # <<>> => Head(p) \in Nat /\ Len(p) \in Nat /\ Tail(p) \in Seq(Nat)
  BY HeadTailProperties, LenProperties
<1> QED BY <1>1, <1>2 DEF PlanOK

\* An entry from its fields.
LEMMA EntryIs ==
  ASSUME NEW y \in Seq(Step)
  PROVE  \A b \in BOOLEAN : LET x == [own |-> b, steps |-> y] IN
           x \in Entry /\ (x.own <=> b) /\ x.steps = y
BY DEF Entry

\* It holds initially.
LEMMA InvInit == Init => Inv
<1> SUFFICES ASSUME Init PROVE Inv
  OBVIOUS
<1> USE DEF Init
<1>1. PlanOK /\ plan.text \in Seq(Char)
  BY PlansAssumption DEF PlanOK
<1> DEFINE t == plan.text
<1>2. t \in Seq(Char) /\ texts = <<t>>
  BY <1>1
<1> HIDE DEF t
<1>3. texts \in Seq(Seq(Char)) /\ Len(texts) = 1 /\ texts[1] = t /\ view = t
  BY <1>2
<1>4. log \in Seq(Entry) /\ Len(log) = 0
  OBVIOUS
<1>5. Chain(texts, log)
  BY <1>3, <1>4 DEF Chain
<1>6. rev \in 0..Len(log) /\ rev + 1 = 1 /\ rev \in Nat
  BY <1>4
<1>7. Good(texts[rev + 1], ops) /\ view = After(texts[rev + 1], ops)
  BY <1>3, <1>6, GoodEmpty, AfterEmpty
<1>8. NoneOwn(log, rev)
  BY <1>4, <1>6 DEF NoneOwn
<1>9. Fate(log, NoFlight, rev) /\ Agrees(texts, log, NoFlight, rev, ops) /\ NoFlight.at <= rev
  BY <1>6, <1>8, IdleWorld
<1>10. World(texts, log, flight, rev, ops, view)
  BY <1>5, <1>6, <1>7, <1>9, NoFlightIs DEF World
<1>11. CharsOf(ops) = {}
  BY CharsOfEmpty
<1>12. Acked(log, rev) = {}
  BY <1>4 DEF Acked
<1>13. NothingTypedIsLost
  BY <1>11, <1>12, LostIs DEF Kinds
<1> QED BY <1>1, <1>10, <1>13 DEF Inv

\* Another client's commit preserves it.
LEMMA InvRemote == Inv /\ Remote => Inv'
<1> SUFFICES ASSUME Inv, Remote PROVE Inv'
  OBVIOUS
<1> DEFINE N == Len(log)
<1>1. World(texts, log, flight, rev, ops, view) /\ PlanOK /\ NothingTypedIsLost
  BY DEF Inv
<1>2. Chain(texts, log) /\ rev \in 0..N
  BY <1>1 DEF World
<1>3. N \in Nat /\ log \in Seq(Entry)
  BY <1>2, TextAt
<1>4. N \in 0..Len(log) /\ N \in 0..N
  BY <1>3
<1>5. texts[N + 1] \in Seq(Char) /\ Len(texts) = N + 1 /\ ServerText = texts[N + 1]
  BY <1>2, <1>4, TextAt DEF Chain, ServerText
<1>6. PICK items \in Txns(ServerText, Head(plan.remotes), "remote", Len(plan.remotes)) :
        WellFormed(items) /\ Commit(FALSE, items)
  BY DEF Remote
<1>7. PICK j \in Nat : DOMAIN items = 1..j /\ Tidy(items, j, ServerText)
  <2>1. Head(plan.remotes) \in Nat /\ Len(plan.remotes) \in Nat
    BY <1>1, PlanTails DEF Remote
  <2> DEFINE n == Head(plan.remotes)
             m == Len(plan.remotes)
             s == ServerText
  <2>2. n \in Nat /\ m \in Nat /\ s \in Seq(Char) /\ items \in Txns(s, n, "remote", m)
    BY <2>1, <1>5, <1>6
  <2> HIDE DEF n, m, s
  <2>3. \E j \in Nat : DOMAIN items = 1..j /\ Tidy(items, j, s)
    BY <2>2, <1>6, TxnsTidy
  <2> QED BY <2>3 DEF s
<1> DEFINE y == TxnSequence(items)
           x == [own |-> FALSE, steps |-> y]
<1>8. StepsOn(texts[N + 1], y) /\ y \in Seq(Step)
  BY <1>5, <1>7, TxnStepsOn
<1>9. x \in Entry /\ ~x.own /\ x.steps = y
  BY <1>8, EntryIs
<1>10. log' = Append(log, x) /\ texts' = Append(texts, ApplyAll(texts[N + 1], y))
  BY <1>5, <1>6 DEF Commit
<1>11. UNCHANGED <<view, rev, ops, flight, stash, typed>> /\ plan' = [plan EXCEPT !.remotes = Tail(@)] /\ plan.remotes # <<>>
  BY DEF Remote
<1> HIDE DEF x, y
<1>12. World(texts', log', flight', rev', ops', view')
  <2>1. Len(log) = N
    OBVIOUS
  <2> HIDE DEF N
  <2>2. World(Append(texts, ApplyAll(texts[N + 1], x.steps)), Append(log, x), flight, rev, ops, view)
    BY <2>1, <1>1, <1>3, <1>8, <1>9, RemoteWorld
  <2> QED BY <2>2, <1>9, <1>10, <1>11
<1>13. Grown(texts, log, texts', log', x, N)
  <2>1. Len(log) = N
    OBVIOUS
  <2> HIDE DEF N
  <2>2. Grown(texts, log, Append(texts, ApplyAll(texts[N + 1], x.steps)), Append(log, x), x, N)
    BY <2>1, <1>2, <1>3, <1>8, <1>9, ChainGrows
  <2> QED BY <2>2, <1>9, <1>10
<1>14. NothingTypedIsLost'
  <2>1. Acked(log', rev) = Acked(log, rev)
    BY <1>2, <1>3, <1>13, AckedGrows
  <2>2. typed' = Kinds(stash', ops', log', rev')
    BY <2>1, <1>1, <1>11, LostIs DEF Kinds
  <2> QED BY <2>2 DEF NothingTypedIsLost, Kinds, Acked
<1>15. PlanOK'
  BY <1>1, <1>11, PlanTails DEF PlanOK
<1>16. World(texts, log, flight, rev, ops, view)'
  BY <1>12
<1> QED BY <1>14, <1>15, <1>16 DEF Inv

-----------------------------------------------------------------------------
(* The steps of the server and of the mirror *)

\* The slot with another state.
LEMMA SlotStates ==
  ASSUME NEW fl \in Slot, NEW st \in {"none", "sent", "committed", "refused"}
  PROVE  LET f2 == [fl EXCEPT !.st = st] IN
         SameRequest(f2, fl) /\ f2.st = st /\ (f2.present <=> fl.present)
BY DEF Slot, SameRequest

\* The slot with its transaction reverted.
LEMMA SlotDooms ==
  ASSUME NEW fl \in Slot
  PROVE  \A b \in BOOLEAN : LET f2 == [fl EXCEPT !.present = b] IN
         SameRequest(f2, fl) /\ f2.st = fl.st /\ (f2.present <=> b)
BY DEF Slot, SameRequest

\* Serving the request preserves it.
LEMMA InvServe == Inv /\ Serve => Inv'
<1> SUFFICES ASSUME Inv, Serve PROVE Inv'
  OBVIOUS
<1> DEFINE N == Len(log)
           items == Rebased(log, flight)
           y == TxnSequence(items)
           x == [own |-> TRUE, steps |-> y]
<1>1. World(texts, log, flight, rev, ops, view) /\ PlanOK /\ NothingTypedIsLost
  BY DEF Inv
<1>2. Chain(texts, log) /\ rev \in 0..N /\ flight \in Slot
  BY <1>1 DEF World
<1>3. N \in Nat /\ log \in Seq(Entry)
  BY <1>2, TextAt
<1>4. N \in 0..Len(log) /\ N \in 0..N
  BY <1>3
<1>5. texts[N + 1] \in Seq(Char) /\ Len(texts) = N + 1 /\ ServerText = texts[N + 1]
  BY <1>2, <1>4, TextAt DEF Chain, ServerText
<1>6. Rebase(flight.items, Steps(flight.at, Len(log))) = items
  BY DEF Rebased, Steps, LogSteps
<1>7. flight.st = "sent" /\ UNCHANGED <<plan, view, rev, ops, stash, typed>>
  BY DEF Serve
<1>8. PlanOK'
  BY <1>1, <1>7 DEF PlanOK
<1>9. \/ ~Refused(items) /\ Commit(TRUE, items) /\ flight' = [flight EXCEPT !.st = "committed"]
      \/ Refused(items) /\ flight' = [flight EXCEPT !.st = "refused"] /\ UNCHANGED <<texts, log>>
  BY <1>6 DEF Serve
<1>10. CASE ~Refused(items) /\ Commit(TRUE, items) /\ flight' = [flight EXCEPT !.st = "committed"]
  <2>1. SameRequest(flight', flight) /\ flight'.st = "committed" /\ (flight'.present <=> flight.present)
    BY <1>2, <1>10, SlotStates
  <2>2. OpOn(items, texts[N + 1])
    BY <1>1, <1>7, <1>10, ServedOp
  <2>3. y \in Seq(Step) /\ StepsOn(texts[N + 1], y)
    <3> DEFINE m == Len(items)
    <3>1. m \in Nat /\ Tidy(items, m, texts[N + 1])
      BY <1>5, <2>2, OpOnIs DEF OpOn
    <3> HIDE DEF items, m
    <3> QED BY <1>5, <3>1, TxnStepsOn
  <2>4. x \in Entry /\ x.own /\ x.steps = y
    BY <2>3, EntryIs
  <2>5. log' = Append(log, x) /\ texts' = Append(texts, ApplyAll(texts[N + 1], y))
    BY <1>5, <1>10 DEF Commit
  <2>6. Len(log) = N /\ x.steps = TxnSequence(Rebased(log, flight)) /\ ~Refused(Rebased(log, flight))
    BY <1>10, <2>4
  <2> HIDE DEF N, items, y, x
  <2>7. World(Append(texts, ApplyAll(texts[N + 1], x.steps)), Append(log, x), flight', rev, ops, view)
    BY <1>1, <1>3, <1>7, <2>1, <2>4, <2>6, ServeWorld
  <2>8. World(texts', log', flight', rev', ops', view')
    BY <2>4, <2>5, <2>7, <1>7
  <2>9. Grown(texts, log, texts', log', x, N)
    <3>1. Grown(texts, log, Append(texts, ApplyAll(texts[N + 1], x.steps)), Append(log, x), x, N)
      BY <1>2, <1>3, <2>3, <2>4, <2>6, ChainGrows
    <3> QED BY <3>1, <2>4, <2>5
  <2>10. Acked(log', rev) = Acked(log, rev)
    BY <1>2, <1>3, <2>9, AckedGrows
  <2>11. typed' = Kinds(stash', ops', log', rev')
    BY <2>10, <1>1, <1>7, LostIs DEF Kinds
  <2>12. NothingTypedIsLost'
    BY <2>11 DEF NothingTypedIsLost, Kinds, Acked
  <2>13. World(texts, log, flight, rev, ops, view)'
    BY <2>8
  <2> QED BY <1>8, <2>12, <2>13 DEF Inv
<1>11. CASE Refused(items) /\ flight' = [flight EXCEPT !.st = "refused"] /\ UNCHANGED <<texts, log>>
  <2>1. SameRequest(flight', flight) /\ flight'.st = "refused" /\ (flight'.present <=> flight.present)
    BY <1>2, <1>11, SlotStates
  <2>2. World(texts, log, flight', rev, ops, view)
    BY <1>1, <1>7, <1>11, <2>1, RefuseWorld
  <2>3. World(texts, log, flight, rev, ops, view)'
    BY <2>2, <1>7, <1>11
  <2>4. NothingTypedIsLost'
    BY <1>1, <1>7, <1>11 DEF NothingTypedIsLost
  <2> QED BY <1>8, <2>3, <2>4 DEF Inv
<1> QED BY <1>9, <1>10, <1>11

\* A local edit preserves it.
LEMMA InvLocal == Inv /\ Local => Inv'
<1> SUFFICES ASSUME Inv, Local PROVE Inv'
  OBVIOUS
<1>1. World(texts, log, flight, rev, ops, view) /\ PlanOK /\ NothingTypedIsLost
  BY DEF Inv
<1>2. Chain(texts, log) /\ rev \in 0..Len(log) /\ Good(texts[rev + 1], ops) /\ view = After(texts[rev + 1], ops)
  BY <1>1 DEF World
<1>3. view \in Seq(Char) /\ ops \in Seq(Seq(Item))
  BY <1>2, TextAt, GoodIs
<1>4. PICK items \in Txns(view, Head(plan.locals), "local", Len(plan.locals)) :
        /\ WellFormed(items)
        /\ ops' = Append(ops, WithDeleted(view, items))
        /\ view' = ApplyAll(view, TxnSequence(items))
        /\ typed' = typed \cup Chars(items)
  BY DEF Local
<1>5. PICK j \in Nat : DOMAIN items = 1..j /\ Tidy(items, j, view)
  <2>1. Head(plan.locals) \in Nat /\ Len(plan.locals) \in Nat
    BY <1>1, PlanTails DEF Local
  <2> DEFINE n == Head(plan.locals)
             m == Len(plan.locals)
  <2>2. n \in Nat /\ m \in Nat /\ items \in Txns(view, n, "local", m)
    BY <2>1, <1>4
  <2> HIDE DEF n, m
  <2> QED BY <2>2, <1>3, <1>4, TxnsTidy
<1> DEFINE o == WithDeleted(view, items)
<1>6. OpOn(o, view) /\ TxnSequence(o) = TxnSequence(items) /\ Chars(o) = Chars(items)
  BY <1>3, <1>5, WithDeletedOp
<1>7. UNCHANGED <<texts, log, rev, flight, stash>> /\ plan' = [plan EXCEPT !.locals = Tail(@)] /\ plan.locals # <<>>
  BY DEF Local
<1>8. ops' = Append(ops, o)
  BY <1>4
<1> HIDE DEF o
<1>9. World(texts, log, flight, rev, Append(ops, o), ApplyAll(view, TxnSequence(o)))
  BY <1>1, <1>6, LocalWorld
<1>10. World(texts, log, flight, rev, ops, view)'
  BY <1>4, <1>6, <1>7, <1>8, <1>9
<1>11. CharsOf(ops') = CharsOf(ops) \cup Chars(items)
  <2>1. o \in Seq(Item)
    BY <1>6 DEF OpOn
  <2> QED BY <2>1, <1>3, <1>6, <1>8, CharsOfAppend
<1>12. typed' = Kinds(stash', ops', log', rev')
  <2>1. typed = Kinds(stash, ops, log, rev)
    BY <1>1, LostIs
  <2> QED BY <2>1, <1>4, <1>7, <1>11 DEF Kinds
<1>13. NothingTypedIsLost'
  BY <1>12 DEF NothingTypedIsLost, Kinds, Acked
<1>14. PlanOK'
  BY <1>1, <1>7, PlanTails DEF PlanOK
<1> QED BY <1>10, <1>13, <1>14 DEF Inv

\* Sending preserves it.
LEMMA InvSend == Inv /\ Send => Inv'
<1> SUFFICES ASSUME Inv, Send PROVE Inv'
  OBVIOUS
<1>1. World(texts, log, flight, rev, ops, view) /\ PlanOK /\ NothingTypedIsLost
  BY DEF Inv
<1>2. rev \in 0..Len(log) /\ Good(texts[rev + 1], ops)
  BY <1>1 DEF World
<1>3. ops \in Seq(Seq(Item)) /\ ops # <<>> /\ rev \in Nat
  BY <1>2 DEF Good, Send
<1>4. Len(ops) >= 1 /\ Head(ops) = ops[1] /\ ops[1] \in Seq(Item)
  BY <1>3, HeadTailProperties, LenProperties, ElementOfSeq
<1>5. flight' \in Slot /\ flight'.st = "sent" /\ flight'.items = ops[1] /\ flight'.at = rev /\ flight'.present
  <2>1. flight' = [st |-> "sent", items |-> ops[1], at |-> rev, present |-> TRUE]
    BY <1>4 DEF Send
  <2>2. \A b \in BOOLEAN : LET f == [st |-> "sent", items |-> ops[1], at |-> rev, present |-> b] IN
          f \in Slot /\ f.st = "sent" /\ f.items = ops[1] /\ f.at = rev /\ (f.present <=> b)
    BY <1>3, <1>4 DEF Slot
  <2> QED BY <2>1, <2>2
<1>6. flight.st = "none" /\ UNCHANGED <<plan, texts, log, view, rev, ops, stash, typed>>
  BY DEF Send
<1>7. World(texts, log, flight', rev, ops, view)
  BY <1>1, <1>4, <1>5, <1>6, SendWorld
<1>8. World(texts, log, flight, rev, ops, view)'
  BY <1>6, <1>7
<1>9. PlanOK' /\ NothingTypedIsLost'
  BY <1>1, <1>6 DEF PlanOK, NothingTypedIsLost
<1> QED BY <1>8, <1>9 DEF Inv

\* Folding an entry preserves it: what is reverted goes to the stash.
LEMMA InvFoldRemote == Inv /\ FoldRemote => Inv'
<1> SUFFICES ASSUME Inv, FoldRemote PROVE Inv'
  OBVIOUS
<1> DEFINE q == log[rev + 1].steps
           L == Len(ops)
<1>1. World(texts, log, flight, rev, ops, view) /\ PlanOK /\ NothingTypedIsLost
  BY DEF Inv
<1>2. Chain(texts, log) /\ rev \in 0..Len(log) /\ Good(texts[rev + 1], ops) /\ flight \in Slot
  BY <1>1 DEF World
<1>3. ops \in Seq(Seq(Item)) /\ L \in Nat /\ rev \in Nat
  BY <1>2, LenProperties DEF Good
<1>4. PICK n \in 0..L :
        /\ Kept(n, q)
        /\ view' = ApplyAll(Reverted(n), FoldSteps(SubSeq(ops, 1, n), q).out)
        /\ ops' = FoldSteps(SubSeq(ops, 1, n), q).ops
        /\ Doom(n)
        /\ StashSuffix(n)
  BY DEF FoldRemote
<1>5. rev < Len(log) /\ ~log[rev + 1].own /\ rev' = rev + 1 /\ UNCHANGED <<plan, texts, log, typed>>
  BY DEF FoldRemote
<1>6. Keeps(ops, n, q)
  BY <1>4 DEF Kept, Keeps
<1>7. Reverted(n) = UndoneTo(view, ops, n)
  BY DEF Reverted, UndoneTo
<1>8. SameRequest(flight', flight) /\ flight'.st = flight.st /\ (flight'.present <=> flight.present /\ n > 0)
  <2>1. flight' = [flight EXCEPT !.present = flight.present /\ n > 0]
    BY <1>4 DEF Doom
  <2>2. flight.present \in BOOLEAN /\ (n > 0) \in BOOLEAN
    BY <1>2, <1>3 DEF Slot
  <2>3. (flight.present /\ n > 0) \in BOOLEAN
    BY <2>2
  <2> QED BY <2>1, <2>3, <1>2, SlotDooms
<1> DEFINE f == FoldSteps(SubSeq(ops, 1, n), q)
<1>9. /\ World(texts, log, flight', rev + 1, f.ops, ApplyAll(UndoneTo(view, ops, n), f.out))
      /\ SameTyped(f.ops, SubSeq(ops, 1, n)) /\ f.ops \in Seq(Seq(Item))
      /\ SubSeq(ops, 1, n) \in Seq(Seq(Item))
  <2>1. Len(ops) = L
    OBVIOUS
  <2> HIDE DEF L
  <2> QED BY <1>1, <1>3, <1>4, <1>5, <1>6, <1>8, <2>1, FoldWorld
<1>10. World(texts, log, flight, rev, ops, view)'
  BY <1>4, <1>5, <1>7, <1>9
<1>11. CharsOf(ops') = CharsOf(SubSeq(ops, 1, n))
  BY <1>4, <1>9, CharsOfSame
<1>12. stash' = stash \cup CharsOf(SubSeq(ops, n + 1, L))
  BY <1>4 DEF StashSuffix
<1>13. CharsOf(ops) = CharsOf(SubSeq(ops, 1, n)) \cup CharsOf(SubSeq(ops, n + 1, L))
  <2>1. Len(ops) = L
    OBVIOUS
  <2> HIDE DEF L
  <2> QED BY <1>3, <1>4, <2>1, CharsOfSplit
<1>14. Acked(log, rev + 1) = Acked(log, rev)
  BY <1>3, <1>5, AckedNext
<1>15. typed' = Kinds(stash', ops', log', rev')
  <2>1. typed = Kinds(stash, ops, log, rev)
    BY <1>1, LostIs
  <2> HIDE DEF q, L, f
  <2> QED BY <2>1, <1>5, <1>11, <1>12, <1>13, <1>14 DEF Kinds
<1>16. NothingTypedIsLost'
  BY <1>15 DEF NothingTypedIsLost, Kinds, Acked
<1>17. PlanOK'
  BY <1>1, <1>5 DEF PlanOK
<1> QED BY <1>10, <1>16, <1>17 DEF Inv

-----------------------------------------------------------------------------
(* The last two steps, and the theorems *)

\* The echo preserves it: what was pending is acknowledged.
LEMMA InvEcho == Inv /\ Echo => Inv'
<1> SUFFICES ASSUME Inv, Echo PROVE Inv'
  OBVIOUS
<1>1. World(texts, log, flight, rev, ops, view) /\ PlanOK /\ NothingTypedIsLost
  BY DEF Inv
<1>2. Chain(texts, log) /\ rev \in 0..Len(log) /\ Good(texts[rev + 1], ops)
  BY <1>1 DEF World
<1>3. ops \in Seq(Seq(Item)) /\ rev \in Nat /\ texts[rev + 1] \in Seq(Char)
  BY <1>2, TextAt DEF Good
<1>4. /\ rev < Len(log) /\ log[rev + 1].own /\ flight.present
      /\ rev' = rev + 1 /\ ops' = Tail(ops) /\ flight' = NoFlight
      /\ UNCHANGED <<plan, texts, log, view, stash, typed>>
  BY DEF Echo
<1>5. /\ World(texts, log, NoFlight, rev + 1, Tail(ops), view)
      /\ log[rev + 1].steps = TxnSequence(ops[1]) /\ Len(ops) >= 1
  BY <1>1, <1>4, EchoWorld
<1>6. World(texts, log, flight, rev, ops, view)'
  BY <1>4, <1>5
<1>7. Chars(log[rev + 1].steps) = Chars(ops[1])
  <2> DEFINE o == ops[1]
             n == Len(o)
  <2>1. OpOn(o, texts[rev + 1])
    BY <1>2, <1>3, <1>5, GoodFirst
  <2>2. n \in Nat /\ Tidy(o, n, texts[rev + 1])
    BY <1>3, <2>1, OpOnIs DEF OpOn
  <2> HIDE DEF o, n
  <2>3. Chars(TxnSequence(o)) = Chars(o)
    BY <1>3, <2>2, CharsTxn
  <2> QED BY <2>3, <1>5 DEF o
<1>8. CharsOf(ops) = Chars(ops[1]) \cup CharsOf(Tail(ops))
  BY <1>3, <1>5, CharsOfHead
<1>9. Acked(log, rev + 1) = Acked(log, rev) \cup Chars(log[rev + 1].steps)
  BY <1>3, <1>4, AckedNext
<1>10. typed' = Kinds(stash', ops', log', rev')
  <2>1. typed = Kinds(stash, ops, log, rev)
    BY <1>1, LostIs
  <2> QED BY <2>1, <1>4, <1>7, <1>8, <1>9 DEF Kinds
<1>11. NothingTypedIsLost'
  BY <1>10 DEF NothingTypedIsLost, Kinds, Acked
<1>12. PlanOK'
  BY <1>1, <1>4 DEF PlanOK
<1> QED BY <1>6, <1>11, <1>12 DEF Inv

\* The refusal preserves it: what was pending goes to the stash.
LEMMA InvReplyRefused == Inv /\ ReplyRefused => Inv'
<1> SUFFICES ASSUME Inv, ReplyRefused PROVE Inv'
  OBVIOUS
<1>1. World(texts, log, flight, rev, ops, view) /\ PlanOK /\ NothingTypedIsLost
  BY DEF Inv
<1>2. Chain(texts, log) /\ rev \in 0..Len(log) /\ Good(texts[rev + 1], ops)
  BY <1>1 DEF World
<1>3. ops \in Seq(Seq(Item)) /\ Len(ops) \in Nat
  BY <1>2, LenProperties DEF Good
<1>4. flight.st = "refused" /\ flight' = NoFlight /\ UNCHANGED <<plan, texts, log, rev, typed>>
  BY DEF ReplyRefused
<1>5. /\ World(texts, log, NoFlight, rev, ops, view)
      /\ World(texts, log, NoFlight, rev, <<>>, UndoneTo(view, ops, 0))
  BY <1>1, <1>4, ReplyDoomedWorld
<1>6. PlanOK'
  BY <1>1, <1>4 DEF PlanOK
<1>7. CASE UNCHANGED <<view, ops, stash>>
  <2>1. World(texts, log, flight, rev, ops, view)'
    BY <1>4, <1>5, <1>7
  <2>2. NothingTypedIsLost'
    BY <1>1, <1>4, <1>7 DEF NothingTypedIsLost
  <2> QED BY <2>1, <2>2, <1>6 DEF Inv
<1>8. CASE view' = Reverted(0) /\ ops' = <<>> /\ StashSuffix(0)
  <2>1. Reverted(0) = UndoneTo(view, ops, 0)
    BY DEF Reverted, UndoneTo
  <2>2. World(texts, log, flight, rev, ops, view)'
    BY <1>4, <1>5, <1>8, <2>1
  <2>3. stash' = stash \cup CharsOf(ops)
    <3>1. SubSeq(ops, 0 + 1, Len(ops)) = ops
      BY <1>3
    <3> QED BY <3>1, <1>8 DEF StashSuffix
  <2>4. CharsOf(ops') = {}
    BY <1>8, CharsOfEmpty
  <2>5. typed' = Kinds(stash', ops', log', rev')
    <3>1. typed = Kinds(stash, ops, log, rev)
      BY <1>1, LostIs
    <3> QED BY <3>1, <1>4, <2>3, <2>4 DEF Kinds
  <2>6. NothingTypedIsLost'
    BY <2>5 DEF NothingTypedIsLost, Kinds, Acked
  <2> QED BY <2>2, <2>6, <1>6 DEF Inv
<1> QED BY <1>7, <1>8 DEF ReplyRefused

\* Every step preserves it.
LEMMA InvNext == Inv /\ [Next]_vars => Inv'
<1> SUFFICES ASSUME Inv, [Next]_vars PROVE Inv'
  OBVIOUS
<1>1. CASE UNCHANGED vars
  <2>1. UNCHANGED <<plan, texts, log, view, rev, ops, flight, stash, typed>>
    BY <1>1 DEF vars
  <2>2. World(texts, log, flight, rev, ops, view)'
    BY <2>1 DEF Inv
  <2>3. PlanOK' /\ NothingTypedIsLost'
    BY <2>1 DEF Inv, PlanOK, NothingTypedIsLost
  <2> QED BY <2>2, <2>3 DEF Inv
<1> QED BY <1>1, InvRemote, InvServe, InvLocal, InvSend, InvFoldRemote, InvEcho, InvReplyRefused DEF Next

\* The invariant holds in every reachable state, for every text, every number of
\* transactions and items and every width of insertions.
THEOREM Invariant == Spec => []Inv
BY InvInit, InvNext, PTL DEF Spec

\* The state has its shape: a slot that is taken and present is the first pending
\* transaction, and the mirror is at a rev of the log.
THEOREM FoldTypeOK == Spec => []TypeOK
<1>1. ASSUME Inv PROVE TypeOK
  <2>1. World(texts, log, flight, rev, ops, view)
    BY <1>1 DEF Inv
  <2>2. rev \in 0..Len(log) /\ flight \in Slot /\ flight.at <= rev /\ Chain(texts, log)
        /\ Good(texts[rev + 1], ops) /\ Agrees(texts, log, flight, rev, ops) /\ Fate(log, flight, rev)
    BY <2>1 DEF World
  <2>3. Len(texts) = Len(log) + 1 /\ flight.st \in {"none", "sent", "committed", "refused"}
    BY <2>2 DEF Chain, Slot
  <2>4. flight.present => flight.st # "none"
    BY <2>2 DEF Fate
  <2>5. Len(ops) >= InFlight
    <3>1. Len(ops) \in Nat
      BY <2>2, LenProperties DEF Good
    <3> QED BY <3>1, <2>2, <2>4 DEF InFlight, Agrees
  <2> QED BY <2>2, <2>3, <2>4, <2>5 DEF TypeOK
<1> QED BY <1>1, Invariant, PTL

\* Convergence: the view is the server's text at the mirror's rev with the pending
\* transactions applied, so once nothing is pending the two agree (mirror.rs fold_remote).
THEOREM View == Spec => []ViewIsServerPlusPending
<1>1. ASSUME Inv PROVE ViewIsServerPlusPending
  BY <1>1 DEF Inv, World, After, Seqs, ViewIsServerPlusPending
<1> QED BY <1>1, Invariant, PTL

\* The mirror's fold and the server's rebase decide alike: the request in flight is where
\* the server will put it, and one the fold reverted is never committed (mirror.rs
\* AckState::Doomed, "its refusal is expected").
THEOREM Agreement == Spec => []FoldAgreesWithRebase
<1>1. ASSUME Inv PROVE FoldAgreesWithRebase
  <2>1. Agrees(texts, log, flight, rev, ops) /\ Fate(log, flight, rev)
    BY <1>1 DEF Inv, World
  <2>2. Steps(flight.at, rev) = LogSteps(log, flight.at, rev)
    BY DEF Steps, LogSteps
  <2>3. ~flight.present => flight.st # "committed"
    BY <2>1 DEF Fate
  <2> QED BY <2>1, <2>2, <2>3 DEF Agrees, FoldAgreesWithRebase
<1> QED BY <1>1, Invariant, PTL

\* The items of a pending transaction stay disjoint through every transform (mirror.rs
\* Pending::seq, "transforms keep them disjoint").
THEOREM Disjoint == Spec => []PendingDisjoint
<1>1. ASSUME Inv PROVE PendingDisjoint
  <2>1. Good(texts[rev + 1], ops)
    BY <1>1 DEF Inv, World
  <2>2. DOMAIN ops = 1..Len(ops)
    BY <2>1, LenProperties DEF Good
  <2> QED BY <2>1, <2>2 DEF Good, OpOn, Tidy, PendingDisjoint
<1> QED BY <1>1, Invariant, PTL

\* Every character typed at the mirror is pending, acknowledged or in the stash of a
\* conflict (mirror.rs revert_suffix).
THEOREM NothingLost == Spec => []NothingTypedIsLost
<1>1. ASSUME Inv PROVE NothingTypedIsLost
  BY <1>1 DEF Inv
<1> QED BY <1>1, Invariant, PTL
=================================================================================
