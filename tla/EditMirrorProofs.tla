---------------------------- MODULE EditMirrorProofs ----------------------------
(***************************************************************************)
(* Proofs about EditMirror, for any operations and any plan of losses,     *)
(* delays and repetitions.  First the daemon's cache of replies, whatever  *)
(* the mirror, the connection and the other clients do; then the mirror:   *)
(* its type, and that its view is exact.                                   *)
(***************************************************************************)
EXTENDS EditMirror, SequenceTheorems, FiniteSetTheorems, NaturalsInduction, TLAPS

Entry == [op : Op \cup {NoOp}, hits : SUBSET Op, big : BOOLEAN, elided : BOOLEAN, asides : Nat]
CachedReply == [op : Op \cup {NoOp}, rev : Nat, aside : Nat]

\* The keys of the revs up to n, and those of all the requests remembered so far.
KeysUpTo(n) == {Key(k) : k \in 1 .. n}
AsidesUpTo(n) == {AsideKey(k) : k \in 1 .. n}
AllKeys == KeysUpTo(Len(log)) \cup AsidesUpTo(asides)

\* The key of a reply.
ReplyKey(d) == IF d.aside = 0 THEN Key(d.rev) ELSE AsideKey(d.aside)

-----------------------------------------------------------------------------
(* The inductive invariant *)

CacheType ==
  /\ "dedup" \in DOMAIN plan /\ plan.dedup \in Nat \ {0}
  /\ log \in Seq(Entry)
  /\ dedup \in Seq(CachedReply)
  /\ asides \in Nat

\* Every reply kept is that of a rev of the log, or of a request that committed nothing.
RepliesReal ==
  \A k \in DOMAIN dedup :
    IF dedup[k].aside = 0
    THEN dedup[k].rev \in DOMAIN log /\ log[dedup[k].rev].op = dedup[k].op
    ELSE dedup[k].aside \in 1 .. asides /\ dedup[k].op = NoOp

\* No request has two replies in the cache.
KeysDistinct ==
  \A k, l \in DOMAIN dedup : k # l => ReplyKey(dedup[k]) # ReplyKey(dedup[l])

\* The cache is never too full, and it is full once it has forgotten an operation.
CacheFull ==
  /\ Len(dedup) <= plan.dedup
  /\ \A i \in DOMAIN log :
       log[i].op = NoOp \/ IsCached(log[i].op) \/ Len(dedup) = plan.dedup

CacheInv == CacheType /\ RepliesReal /\ KeysDistinct /\ CacheFull

-----------------------------------------------------------------------------
(* The two operations of the cache *)

\* DedupCache::hit permutes the replies.
LEMMA RefreshedIs ==
  ASSUME dedup \in Seq(CachedReply), NEW k \in DOMAIN dedup
  PROVE  /\ Refreshed(k) \in Seq(CachedReply)
         /\ Len(Refreshed(k)) = Len(dedup)
         /\ DOMAIN Refreshed(k) = DOMAIN dedup
         /\ \A n \in DOMAIN dedup :
              Refreshed(k)[n] = dedup[IF n < k THEN n ELSE IF n = Len(dedup) THEN k ELSE n + 1]
<1> DEFINE a == SubSeq(dedup, 1, k - 1)
           b == SubSeq(dedup, k + 1, Len(dedup))
           c == a \o b
<1>1. k \in 1 .. Len(dedup) /\ Len(dedup) \in Nat
  OBVIOUS
<1>2. /\ a \in Seq(CachedReply) /\ Len(a) = k - 1
      /\ \A n \in 1 .. k - 1 : a[n] = dedup[n]
  BY <1>1
<1>3. /\ b \in Seq(CachedReply) /\ Len(b) = Len(dedup) - k
      /\ \A n \in 1 .. Len(dedup) - k : b[n] = dedup[n + k]
  BY <1>1
<1>4. /\ c \in Seq(CachedReply) /\ Len(c) = Len(dedup) - 1
      /\ \A n \in 1 .. Len(dedup) - 1 : c[n] = IF n < k THEN dedup[n] ELSE dedup[n + 1]
  <2> HIDE DEF a, b
  <2>1. c \in Seq(CachedReply) /\ Len(c) = Len(dedup) - 1
    BY <1>1, <1>2, <1>3
  <2>2. ASSUME NEW n \in 1 .. Len(dedup) - 1
        PROVE  c[n] = IF n < k THEN dedup[n] ELSE dedup[n + 1]
    <3>1. CASE n < k
      BY <3>1, <1>1, <1>2, <1>3
    <3>2. CASE ~ (n < k)
      <4>1. c[n] = b[n - (k - 1)]
        BY <3>2, <1>1, <1>2, <1>3
      <4>2. n - (k - 1) \in 1 .. Len(dedup) - k /\ n - (k - 1) + k = n + 1
        BY <3>2, <1>1
      <4> QED  BY <3>2, <4>1, <4>2, <1>3
    <3> QED  BY <3>1, <3>2
  <2> QED  BY <2>1, <2>2
<1>5. Refreshed(k) = Append(c, dedup[k]) /\ dedup[k] \in CachedReply
  BY <1>1 DEF Refreshed, RemoveAt
<1>6. Refreshed(k) \in Seq(CachedReply) /\ Len(Refreshed(k)) = Len(dedup)
  BY <1>1, <1>4, <1>5
<1>7. ASSUME NEW n \in DOMAIN dedup
      PROVE  Refreshed(k)[n] = dedup[IF n < k THEN n ELSE IF n = Len(dedup) THEN k ELSE n + 1]
  <2> HIDE DEF c
  <2>1. n \in 1 .. Len(dedup)
    BY <1>1
  <2>2. CASE n = Len(dedup)
    BY <1>1, <1>4, <1>5, <2>1, <2>2
  <2>3. CASE n # Len(dedup)
    BY <1>1, <1>4, <1>5, <2>1, <2>3
  <2> QED  BY <2>2, <2>3
<1> QED  BY <1>6, <1>7

\* How many replies an insertion drops.
Dropped == IF Len(dedup) = plan.dedup THEN 1 ELSE 0

\* d is the cache with one more reply, at the end, and the first one gone if the
\* cache was full.
IsInserted(d, p, r, a) ==
  /\ d \in Seq(CachedReply)
  /\ Len(d) = Len(dedup) - Dropped + 1
  /\ d[Len(dedup) - Dropped + 1] = [op |-> p, rev |-> r, aside |-> a]
  /\ \A n \in 1 .. Len(dedup) - Dropped :
       n + Dropped \in DOMAIN dedup /\ d[n] = dedup[n + Dropped]

\* DedupCache::insert.
LEMMA InsertedIs ==
  ASSUME CacheType, Len(dedup) <= plan.dedup,
         NEW p \in Op \cup {NoOp}, NEW r \in Nat, NEW a \in Nat
  PROVE  IsInserted(Inserted(p, r, a), p, r, a)
<1> USE DEF IsInserted
<1> DEFINE e == [op |-> p, rev |-> r, aside |-> a]
<1>1. e \in CachedReply /\ Len(dedup) \in Nat /\ plan.dedup \in Nat \ {0}
  BY DEF CacheType, CachedReply
<1>2. CASE Len(dedup) = plan.dedup
  <2>1. /\ Tail(dedup) \in Seq(CachedReply) /\ Len(Tail(dedup)) = Len(dedup) - 1
        /\ \A n \in 1 .. Len(dedup) - 1 : Tail(dedup)[n] = dedup[n + 1]
    BY <1>1, <1>2 DEF CacheType
  <2>2. Inserted(p, r, a) = Append(Tail(dedup), e)
    BY <1>1, <1>2 DEF Inserted
  <2> HIDE DEF e
  <2> QED  BY <1>1, <1>2, <2>1, <2>2 DEF e, Dropped
<1>3. CASE Len(dedup) # plan.dedup
  <2>1. Inserted(p, r, a) = Append(dedup, e)
    BY <1>1, <1>3 DEF Inserted
  <2> QED  BY <1>1, <1>3, <2>1 DEF CacheType, Dropped
<1> QED  BY <1>2, <1>3

-----------------------------------------------------------------------------
(* What steps do to the cache *)

Inv == CacheInv /\ TwiceOnlyIfEvicted

\* The bound of the cache stays what it was.
SameBound == "dedup" \in DOMAIN plan' /\ plan'.dedup = plan.dedup

LEMMA SpendIs ==
  ASSUME CacheType, NEW what, what # "dedup", Spend(what)
  PROVE  SameBound
BY DEF CacheType, Spend, SameBound

\* The cache forgets an operation only when it is full of replies to others.
LEMMA ForgottenMeansFull ==
  ASSUME CacheInv, NEW i \in DOMAIN log, log[i].op # NoOp, ~ IsCached(log[i].op)
  PROVE  Cardinality(AllKeys \ {Key(i)}) >= plan.dedup
<1> DEFINE T == AllKeys \ {Key(i)}
           f == [k \in 1 .. Len(dedup) |-> ReplyKey(dedup[k])]
           g == [k \in 1 .. Len(log) |-> Key(k)]
           h == [k \in 1 .. asides |-> AsideKey(k)]
<1>1. Len(dedup) \in Nat /\ Len(log) \in Nat /\ DOMAIN log = 1 .. Len(log)
      /\ DOMAIN dedup = 1 .. Len(dedup) /\ asides \in Nat
  BY DEF CacheInv, CacheType
<1>2. IsFiniteSet(T)
  <2>1. g \in Surjection(1 .. Len(log), KeysUpTo(Len(log)))
    BY DEF Surjection, KeysUpTo
  <2>2. IsFiniteSet(KeysUpTo(Len(log)))
    BY <1>1, <2>1, FS_Interval, FS_Surjection
  <2>3. h \in Surjection(1 .. asides, AsidesUpTo(asides))
    BY DEF Surjection, AsidesUpTo
  <2>4. IsFiniteSet(AsidesUpTo(asides))
    BY <1>1, <2>3, FS_Interval, FS_Surjection
  <2>5. IsFiniteSet(AllKeys)
    BY <2>2, <2>4, FS_Union DEF AllKeys
  <2> QED  BY <2>5, FS_RemoveElement
<1>3. f \in Injection(1 .. Len(dedup), T)
  <2>1. ASSUME NEW k \in 1 .. Len(dedup)
        PROVE  f[k] \in T
    <3>1. CASE dedup[k].aside = 0
      <4>1. dedup[k].rev \in 1 .. Len(log) /\ log[dedup[k].rev].op # log[i].op
        BY <1>1, <3>1 DEF CacheInv, RepliesReal, IsCached
      <4>2. Key(dedup[k].rev) # Key(i)
        BY <4>1 DEF Key
      <4> QED  BY <3>1, <4>1, <4>2 DEF KeysUpTo, AllKeys, ReplyKey
    <3>2. CASE dedup[k].aside # 0
      <4>1. dedup[k].aside \in 1 .. asides
        BY <1>1, <3>2 DEF CacheInv, RepliesReal
      <4>2. AsideKey(dedup[k].aside) # Key(i)
        BY DEF Key, AsideKey
      <4> QED  BY <3>2, <4>1, <4>2 DEF AsidesUpTo, AllKeys, ReplyKey
    <3> QED  BY <3>1, <3>2
  <2>2. ASSUME NEW k \in 1 .. Len(dedup), NEW l \in 1 .. Len(dedup), f[k] = f[l]
        PROVE  k = l
    BY <1>1, <2>2 DEF CacheInv, KeysDistinct
  <2> HIDE DEF T
  <2> QED  BY <2>1, <2>2 DEF Injection, IsInjective
<1>4. Cardinality(1 .. Len(dedup)) = Len(dedup)
  <2>1. 1 \in Int /\ Len(dedup) \in Int
    BY <1>1
  <2>2. Cardinality(1 .. Len(dedup)) = IF 1 > Len(dedup) THEN 0 ELSE Len(dedup) - 1 + 1
    BY <2>1, FS_Interval, Zenon
  <2> QED  BY <1>1, <2>2
<1>5. Cardinality(1 .. Len(dedup)) <= Cardinality(T)
  <2> HIDE DEF T, f
  <2> QED  BY <1>2, <1>3, FS_Injection
<1>6. Len(dedup) = plan.dedup
  BY <1>1 DEF CacheInv, CacheFull
<1>7. Cardinality(T) \in Nat
  BY <1>2, FS_CardinalityType
<1> HIDE DEF T
<1> QED  BY <1>1, <1>4, <1>5, <1>6, <1>7 DEF T

\* What was committed twice, or not, stays so.
LEMMA TwiceStays ==
  ASSUME TwiceOnlyIfEvicted, log' = log, SameBound
  PROVE  TwiceOnlyIfEvicted'
<1>1. ASSUME NEW n
      PROVE  KeysBefore(n)' = KeysBefore(n)
  BY DEF KeysBefore, Key, AsideKey
<1>2. \A i : Key(i)' = Key(i)
  BY DEF Key
<1> QED  BY <1>1, <1>2 DEF TwiceOnlyIfEvicted, SameBound

\* A step that touches neither the log nor the cache.
LEMMA NeitherKeeps ==
  ASSUME Inv, log' = log, dedup' = dedup, asides' = asides, SameBound
  PROVE  Inv'
<1>1. \A k : ReplyKey(dedup[k])' = ReplyKey(dedup[k])
  BY DEF ReplyKey, Key, AsideKey
<1>2. \A q : IsCached(q)' <=> IsCached(q)
  BY DEF IsCached
<1>3. CacheType' /\ RepliesReal' /\ CacheFull'
  BY <1>2 DEF Inv, CacheInv, CacheType, RepliesReal, CacheFull, SameBound
<1>4. KeysDistinct'
  BY <1>1 DEF Inv, CacheInv, KeysDistinct
<1>5. TwiceOnlyIfEvicted'
  BY TwiceStays DEF Inv
<1> QED  BY <1>3, <1>4, <1>5 DEF Inv, CacheInv

\* A reply given again.
LEMMA HitKeeps ==
  ASSUME Inv, NEW k \in DOMAIN dedup, dedup' = Refreshed(k), log' = log, asides' = asides, SameBound
  PROVE  Inv'
<1> DEFINE at(n) == IF n < k THEN n ELSE IF n = Len(dedup) THEN k ELSE n + 1
<1>1. /\ dedup' \in Seq(CachedReply) /\ Len(dedup') = Len(dedup)
      /\ DOMAIN dedup' = DOMAIN dedup
      /\ \A n \in DOMAIN dedup : dedup'[n] = dedup[at(n)]
  BY RefreshedIs DEF Inv, CacheInv, CacheType
<1>2. DOMAIN dedup = 1 .. Len(dedup) /\ Len(dedup) \in Nat
  BY DEF Inv, CacheInv, CacheType
<1>3. \A n \in DOMAIN dedup : at(n) \in DOMAIN dedup
  BY <1>2
<1>4. \A n, l \in DOMAIN dedup : at(n) = at(l) => n = l
  BY <1>2
<1>5. \A l \in DOMAIN dedup : \E n \in DOMAIN dedup : at(n) = l
  <2> TAKE l \in DOMAIN dedup
  <2>1. CASE l < k
    BY <1>2, <2>1
  <2>2. CASE l = k
    BY <1>2, <2>2
  <2>3. CASE l > k
    <3>1. l - 1 \in DOMAIN dedup /\ at(l - 1) = l
      BY <1>2, <2>3
    <3> QED  BY <3>1
  <2> QED  BY <1>2, <2>1, <2>2, <2>3
<1> HIDE DEF at
<1>6. CacheType' /\ TwiceOnlyIfEvicted'
  BY <1>1, TwiceStays DEF Inv, CacheInv, CacheType, SameBound
<1>7. RepliesReal'
  BY <1>1, <1>3 DEF Inv, CacheInv, RepliesReal
<1>8. KeysDistinct'
  <2>1. \A n \in DOMAIN dedup : ReplyKey(dedup[n])' = ReplyKey(dedup[at(n)])
    BY <1>1 DEF ReplyKey, Key, AsideKey
  <2> QED  BY <1>1, <1>3, <1>4, <2>1 DEF Inv, CacheInv, KeysDistinct
<1>9. \A q : IsCached(q) => IsCached(q)'
  BY <1>1, <1>5 DEF IsCached
<1>10. CacheFull'
  BY <1>1, <1>9 DEF Inv, CacheInv, CacheFull, SameBound
<1> QED  BY <1>6, <1>7, <1>8, <1>10 DEF Inv, CacheInv

\* Key and IsCached of a given log and a given cache.
KeyIn(l, k) == IF l[k].op = NoOp THEN <<NoOp, k, 0>> ELSE <<l[k].op, 0, 0>>
ReplyKeyIn(l, d) == IF d.aside = 0 THEN KeyIn(l, d.rev) ELSE AsideKey(d.aside)
HasReply(d, q) == \E k \in DOMAIN d : d[k].op = q

\* A commit, of another client or of an operation that has no reply in the cache.
LEMMA CommitKeeps ==
  ASSUME Inv, NEW p \in Op \cup {NoOp}, p = NoOp \/ ~ IsCached(p), Commit(p)
  PROVE  Inv'
<1> DEFINE N == Len(log) + 1
           D == Len(dedup')
<1>1. PICK hits \in SUBSET (Open \ {p}), big \in BOOLEAN, elided \in BOOLEAN :
        log' = Append(log, [op |-> p, hits |-> hits, big |-> big, elided |-> elided,
                            asides |-> asides])
  BY DEF Commit
<1>2. dedup' = Inserted(p, Len(log'), 0) /\ asides' = asides
  BY DEF Commit
<1>3. SameBound
  <2>1. \E huge, full \in BOOLEAN :
          plan' = [plan EXCEPT !.bigs = IF huge THEN @ - 1 ELSE @,
                               !.losses = IF full THEN @ - 1 ELSE @,
                               !.remotes = IF p = NoOp THEN @ - 1 ELSE @]
    BY DEF Commit
  <2> QED  BY <2>1 DEF SameBound, Inv, CacheInv, CacheType
<1>4. /\ log \in Seq(Entry) /\ dedup \in Seq(CachedReply)
      /\ Len(log) \in Nat /\ Len(dedup) \in Nat
      /\ DOMAIN log = 1 .. Len(log) /\ DOMAIN dedup = 1 .. Len(dedup)
      /\ plan.dedup \in Nat \ {0} /\ Len(dedup) <= plan.dedup /\ asides \in Nat
  BY DEF Inv, CacheInv, CacheType, CacheFull
<1>5. /\ log' \in Seq(Entry) /\ Len(log') = N /\ DOMAIN log' = 1 .. N
      /\ log'[N].op = p /\ log'[N].asides = asides
      /\ \A k \in 1 .. Len(log) : log'[k] = log[k]
  <2> DEFINE e == [op |-> p, hits |-> hits, big |-> big, elided |-> elided, asides |-> asides]
  <2>1. e \in Entry /\ e.op = p /\ e.asides = asides
    BY <1>4 DEF Entry, Open
  <2> HIDE DEF e
  <2>2. log' = Append(log, e)
    BY <1>1 DEF e
  <2> QED  BY <1>4, <2>1, <2>2
<1>6. /\ dedup' \in Seq(CachedReply) /\ DOMAIN dedup' = 1 .. D
      /\ D = Len(dedup) - Dropped + 1 /\ D \in Nat
      /\ dedup'[D] = [op |-> p, rev |-> N, aside |-> 0]
      /\ \A n \in 1 .. D - 1 : n + Dropped \in DOMAIN dedup /\ dedup'[n] = dedup[n + Dropped]
  <2>1. N \in Nat /\ 0 \in Nat /\ dedup' = Inserted(p, N, 0) /\ CacheType
    BY <1>2, <1>4, <1>5 DEF Inv, CacheInv
  <2>2. Dropped \in {0, 1} /\ (Dropped = 1 => Len(dedup) > 0)
    BY <1>4 DEF Dropped
  <2> HIDE DEF N
  <2>3. /\ dedup' \in Seq(CachedReply) /\ D = Len(dedup) - Dropped + 1
        /\ dedup'[Len(dedup) - Dropped + 1] = [op |-> p, rev |-> N, aside |-> 0]
        /\ \A n \in 1 .. Len(dedup) - Dropped :
             n + Dropped \in DOMAIN dedup /\ dedup'[n] = dedup[n + Dropped]
    <3>1. IsInserted(Inserted(p, N, 0), p, N, 0)
      BY <1>4, <2>1, InsertedIs
    <3>2. IsInserted(dedup', p, N, 0)
      BY <2>1, <3>1
    <3> QED  BY <3>2 DEF IsInserted
  <2>4. D \in Nat /\ D - 1 = Len(dedup) - Dropped /\ DOMAIN dedup' = 1 .. D
    BY <1>4, <2>2, <2>3
  <2> HIDE DEF D
  <2> QED  BY <2>3, <2>4
<1> HIDE DEF N, D
<1>7. CacheType'
  BY <1>2, <1>3, <1>4, <1>5, <1>6 DEF CacheType, SameBound
<1>8. RepliesReal'
  <2> SUFFICES ASSUME NEW n \in 1 .. D
               PROVE  IF dedup'[n].aside = 0
                      THEN dedup'[n].rev \in 1 .. N /\ log'[dedup'[n].rev].op = dedup'[n].op
                      ELSE dedup'[n].aside \in 1 .. asides /\ dedup'[n].op = NoOp
    BY <1>2, <1>5, <1>6 DEF RepliesReal
  <2>1. CASE n = D
    <3>1. N \in 1 .. N
      BY <1>4 DEF N
    <3> QED  BY <1>5, <1>6, <2>1, <3>1
  <2>2. CASE n # D
    <3>1. n + Dropped \in DOMAIN dedup /\ dedup'[n] = dedup[n + Dropped]
      <4>1. n \in 1 .. D - 1
        BY <1>6, <2>2
      <4> QED  BY <1>6, <4>1
    <3> QED  BY <1>4, <1>5, <3>1 DEF Inv, CacheInv, RepliesReal, N
  <2> QED  BY <2>1, <2>2
<1>9. \A k \in 1 .. Len(log) : Key(k)' = Key(k)
  BY <1>4, <1>5 DEF Key
<1>10. KeysDistinct'
  <2>1. ASSUME NEW n \in 1 .. D - 1
        PROVE  /\ ReplyKeyIn(log', dedup'[n]) = ReplyKey(dedup[n + Dropped])
               /\ ReplyKeyIn(log', dedup'[n]) # KeyIn(log', N)
    <3>1. n + Dropped \in DOMAIN dedup /\ dedup'[n] = dedup[n + Dropped]
      BY <1>6
    <3>2. CASE dedup'[n].aside # 0
      <4>1. ReplyKeyIn(log', dedup'[n]) = AsideKey(dedup'[n].aside)
        BY <3>2 DEF ReplyKeyIn
      <4>2. ReplyKey(dedup[n + Dropped]) = AsideKey(dedup'[n].aside)
        BY <3>1, <3>2 DEF ReplyKey
      <4>3. AsideKey(dedup'[n].aside) # KeyIn(log', N)
        BY <3>2 DEF AsideKey, KeyIn
      <4> QED  BY <4>1, <4>2, <4>3
    <3>3. CASE dedup'[n].aside = 0
      <4>1. dedup'[n].rev \in 1 .. Len(log) /\ log[dedup'[n].rev].op = dedup[n + Dropped].op
        BY <1>4, <3>1, <3>3 DEF Inv, CacheInv, RepliesReal
      <4>2. ReplyKeyIn(log', dedup'[n]) = KeyIn(log', dedup'[n].rev)
        BY <3>3 DEF ReplyKeyIn
      <4>3. KeyIn(log', dedup'[n].rev) = ReplyKey(dedup[n + Dropped])
        BY <1>5, <3>1, <3>3, <4>1 DEF Key, KeyIn, ReplyKey
      <4>4. CASE p = NoOp
        <5>1. KeyIn(log', N) = <<NoOp, N, 0>>
          BY <1>5, <4>4 DEF KeyIn
        <5>2. dedup'[n].rev # N
          BY <1>4, <4>1 DEF N
        <5>3. log'[dedup'[n].rev] = log[dedup'[n].rev]
          BY <1>5, <4>1
        <5>4. KeyIn(log', dedup'[n].rev) # <<NoOp, N, 0>>
          BY <5>2, <5>3 DEF KeyIn
        <5> QED  BY <4>2, <4>3, <5>1, <5>4
      <4>5. CASE p # NoOp
        <5>1. dedup[n + Dropped].op # p
          BY <3>1, <4>5 DEF IsCached
        <5>2. log'[dedup'[n].rev].op # p
          BY <1>5, <4>1, <5>1
        <5>3. KeyIn(log', dedup'[n].rev) # KeyIn(log', N)
          BY <1>5, <4>5, <5>2 DEF KeyIn
        <5> QED  BY <4>2, <4>3, <5>3
      <4> QED  BY <4>4, <4>5
    <3> QED  BY <3>2, <3>3
  <2>2. ReplyKeyIn(log', dedup'[D]) = KeyIn(log', N)
    BY <1>6 DEF ReplyKeyIn
  <2>3. ASSUME NEW n \in 1 .. D - 1, NEW l \in 1 .. D - 1, n # l
        PROVE  ReplyKeyIn(log', dedup'[n]) # ReplyKeyIn(log', dedup'[l])
    <3>1. n + Dropped \in DOMAIN dedup /\ l + Dropped \in DOMAIN dedup /\ n + Dropped # l + Dropped
      BY <1>4, <1>6, <2>3 DEF Dropped
    <3>2. ReplyKey(dedup[n + Dropped]) # ReplyKey(dedup[l + Dropped])
      BY <3>1 DEF Inv, CacheInv, KeysDistinct
    <3> QED  BY <2>1, <3>2
  <2>4. ASSUME NEW n \in 1 .. D, NEW l \in 1 .. D, n # l
        PROVE  ReplyKeyIn(log', dedup'[n]) # ReplyKeyIn(log', dedup'[l])
    <3>1. n \in 1 .. D - 1 \/ n = D
      BY <1>6
    <3>2. l \in 1 .. D - 1 \/ l = D
      BY <1>6
    <3> QED  BY <3>1, <3>2, <2>1, <2>2, <2>3, <2>4
  <2> QED  BY <1>6, <2>4 DEF KeysDistinct, ReplyKey, ReplyKeyIn, Key, KeyIn, AsideKey
<1>11. CacheFull'
  <2>1. D <= plan'.dedup
    BY <1>3, <1>4, <1>6 DEF SameBound, Dropped
  <2>2. ASSUME NEW i \in 1 .. N
        PROVE  log'[i].op = NoOp \/ HasReply(dedup', log'[i].op) \/ D = plan'.dedup
    <3>1. CASE i = N
      <4>1. D \in DOMAIN dedup' /\ dedup'[D].op = log'[i].op
        BY <1>4, <1>5, <1>6, <3>1 DEF Dropped
      <4> QED  BY <4>1 DEF HasReply
    <3>2. CASE Len(dedup) = plan.dedup
      BY <1>3, <1>4, <1>6, <3>2 DEF SameBound, Dropped
    <3>3. CASE i # N /\ Len(dedup) # plan.dedup
      <4>1. i \in DOMAIN log /\ log'[i] = log[i]
        BY <1>4, <1>5, <3>3 DEF N
      <4>2. log[i].op = NoOp \/ IsCached(log[i].op)
        BY <3>3, <4>1 DEF Inv, CacheInv, CacheFull
      <4>3. ASSUME NEW k \in DOMAIN dedup
            PROVE  k \in DOMAIN dedup' /\ dedup'[k] = dedup[k]
        <5>1. Dropped = 0 /\ k \in 1 .. D - 1 /\ k + Dropped = k
          BY <1>4, <1>6, <3>3 DEF Dropped
        <5> QED  BY <1>6, <5>1
      <4> QED  BY <4>1, <4>2, <4>3 DEF IsCached, HasReply
    <3> QED  BY <3>1, <3>2, <3>3
  <2> QED  BY <1>5, <2>1, <2>2 DEF CacheFull, D, IsCached, HasReply
<1>12. TwiceOnlyIfEvicted'
  <2> SUFFICES ASSUME NEW i \in 1 .. N, NEW j \in 1 .. N, i < j,
                      log'[i].op = log'[j].op, log'[i].op # NoOp
               PROVE  Cardinality(KeysBefore(j)' \ {Key(i)'}) >= plan'.dedup
    BY <1>5 DEF TwiceOnlyIfEvicted
  <2>1. i \in DOMAIN log /\ log'[i] = log[i] /\ j - 1 \in 0 .. Len(log) /\ j \in Nat
    BY <1>4, <1>5 DEF N
  <2>2. KeysBefore(j)' = KeysUpTo(j - 1) \cup AsidesUpTo(log'[j].asides) /\ Key(i)' = Key(i)
    <3>1. \A k \in 1 .. j - 1 : Key(k)' = Key(k)
      BY <1>4, <1>9, <2>1
    <3>2. {Key(k) : k \in 1 .. j - 1}' = KeysUpTo(j - 1)
      BY <3>1 DEF KeysUpTo
    <3> QED  BY <1>4, <1>9, <2>1, <3>2 DEF KeysBefore, AsidesUpTo, AsideKey
  <2>3. plan'.dedup = plan.dedup
    BY <1>3 DEF SameBound
  <2>4. CASE j = N
    <3>1. ~ IsCached(log[i].op) /\ log[i].op # NoOp
      BY <1>5, <2>1, <2>4
    <3>2. Cardinality(AllKeys \ {Key(i)}) >= plan.dedup
      BY <2>1, <3>1, ForgottenMeansFull DEF Inv
    <3>3. j - 1 = Len(log) /\ log'[j].asides = asides
      BY <1>4, <1>5, <2>4 DEF N
    <3>4. KeysBefore(j)' = AllKeys
      BY <2>2, <3>3 DEF AllKeys
    <3> QED  BY <2>2, <2>3, <3>2, <3>4
  <2>5. CASE j # N
    <3>1. j \in DOMAIN log /\ log'[j] = log[j]
      BY <1>4, <1>5, <2>5 DEF N
    <3>2. Cardinality(KeysBefore(j) \ {Key(i)}) >= plan.dedup
      BY <2>1, <3>1 DEF Inv, TwiceOnlyIfEvicted
    <3>3. KeysBefore(j)' = KeysBefore(j)
      BY <2>2, <3>1 DEF KeysBefore, KeysUpTo, AsidesUpTo
    <3> QED  BY <2>2, <2>3, <3>2, <3>3
  <2> QED  BY <2>4, <2>5
<1> QED  BY <1>7, <1>8, <1>10, <1>11, <1>12 DEF Inv, CacheInv

\* A request that commits nothing is answered and remembered.
LEMMA AsideKeeps ==
  ASSUME Inv, Aside
  PROVE  Inv'
<1> DEFINE A == asides + 1
           D == Len(dedup')
<1>1. log' = log /\ asides' = A /\ dedup' = Inserted(NoOp, 0, A)
  BY DEF Aside
<1>2. SameBound
  BY SpendIs DEF Aside, Inv, CacheInv
<1>3. /\ log \in Seq(Entry) /\ dedup \in Seq(CachedReply) /\ asides \in Nat /\ A \in Nat
      /\ Len(dedup) \in Nat /\ DOMAIN dedup = 1 .. Len(dedup)
      /\ plan.dedup \in Nat \ {0} /\ Len(dedup) <= plan.dedup /\ CacheType
  BY DEF Inv, CacheInv, CacheType, CacheFull
<1>4. Dropped \in {0, 1} /\ (Dropped = 1 => Len(dedup) > 0)
  BY <1>3 DEF Dropped
<1>5. /\ dedup' \in Seq(CachedReply) /\ D = Len(dedup) - Dropped + 1
      /\ dedup'[Len(dedup) - Dropped + 1] = [op |-> NoOp, rev |-> 0, aside |-> A]
      /\ \A n \in 1 .. Len(dedup) - Dropped :
           n + Dropped \in DOMAIN dedup /\ dedup'[n] = dedup[n + Dropped]
  <2>1. NoOp \in Op \cup {NoOp} /\ 0 \in Nat
    OBVIOUS
  <2> HIDE DEF A
  <2>2. IsInserted(Inserted(NoOp, 0, A), NoOp, 0, A)
    BY <1>3, <2>1, InsertedIs
  <2>3. IsInserted(dedup', NoOp, 0, A)
    BY <1>1, <2>2
  <2> QED  BY <2>3 DEF IsInserted
<1>6. /\ D \in Nat /\ DOMAIN dedup' = 1 .. D
      /\ dedup'[D] = [op |-> NoOp, rev |-> 0, aside |-> A]
      /\ \A n \in 1 .. D - 1 : n + Dropped \in DOMAIN dedup /\ dedup'[n] = dedup[n + Dropped]
  BY <1>3, <1>4, <1>5
<1> HIDE DEF D
<1>7. CacheType' /\ TwiceOnlyIfEvicted'
  BY <1>1, <1>2, <1>3, <1>5, TwiceStays DEF Inv, CacheType, SameBound
<1>8. ASSUME NEW n \in 1 .. D, n # D
      PROVE  n \in 1 .. D - 1 /\ n + Dropped \in DOMAIN dedup /\ dedup'[n] = dedup[n + Dropped]
  BY <1>6, <1>8
<1>9. RepliesReal'
  <2> SUFFICES ASSUME NEW n \in 1 .. D
               PROVE  IF dedup'[n].aside = 0
                      THEN dedup'[n].rev \in DOMAIN log /\ log[dedup'[n].rev].op = dedup'[n].op
                      ELSE dedup'[n].aside \in 1 .. A /\ dedup'[n].op = NoOp
    BY <1>1, <1>6 DEF RepliesReal
  <2>1. CASE n = D
    BY <1>3, <1>6, <2>1
  <2>2. CASE n # D
    <3>1. 1 .. asides \subseteq 1 .. A
      BY <1>3
    <3> QED  BY <1>8, <2>2, <3>1 DEF Inv, CacheInv, RepliesReal
  <2> QED  BY <2>1, <2>2
<1>10. KeysDistinct'
  <2>1. ASSUME NEW n \in 1 .. D, n # D
        PROVE  /\ ReplyKeyIn(log, dedup'[n]) = ReplyKey(dedup[n + Dropped])
               /\ ReplyKeyIn(log, dedup'[n]) # AsideKey(A)
    <3>1. n + Dropped \in DOMAIN dedup /\ dedup'[n] = dedup[n + Dropped]
      BY <1>8, <2>1
    <3>2. ReplyKeyIn(log, dedup'[n]) = ReplyKey(dedup[n + Dropped])
      BY <3>1 DEF ReplyKeyIn, ReplyKey, Key, KeyIn
    <3>3. dedup'[n].aside = 0 \/ dedup'[n].aside \in 1 .. asides
      BY <3>1 DEF Inv, CacheInv, RepliesReal
    <3>4. dedup'[n].aside # A
      BY <1>3, <3>3
    <3>5. ReplyKeyIn(log, dedup'[n]) # AsideKey(A)
      BY <1>3, <3>4 DEF ReplyKeyIn, KeyIn, AsideKey
    <3> QED  BY <3>2, <3>5
  <2>2. ReplyKeyIn(log, dedup'[D]) = AsideKey(A)
    BY <1>3, <1>6 DEF ReplyKeyIn
  <2>3. ASSUME NEW n \in 1 .. D, NEW l \in 1 .. D, n # D, l # D, n # l
        PROVE  ReplyKeyIn(log, dedup'[n]) # ReplyKeyIn(log, dedup'[l])
    <3>1. n + Dropped \in DOMAIN dedup /\ l + Dropped \in DOMAIN dedup /\ n + Dropped # l + Dropped
      BY <1>4, <1>6, <1>8, <2>3
    <3>2. ReplyKey(dedup[n + Dropped]) # ReplyKey(dedup[l + Dropped])
      BY <3>1 DEF Inv, CacheInv, KeysDistinct
    <3> QED  BY <2>1, <2>3, <3>2
  <2>4. ASSUME NEW n \in 1 .. D, NEW l \in 1 .. D, n # l
        PROVE  ReplyKeyIn(log, dedup'[n]) # ReplyKeyIn(log, dedup'[l])
    BY <2>1, <2>2, <2>3, <2>4
  <2>5. \A n \in 1 .. D : ReplyKey(dedup[n])' = ReplyKeyIn(log, dedup'[n])
    BY <1>1 DEF ReplyKey, ReplyKeyIn, Key, KeyIn, AsideKey
  <2> QED  BY <1>6, <2>4, <2>5 DEF KeysDistinct
<1>11. CacheFull'
  <2>1. D <= plan'.dedup
    BY <1>2, <1>3, <1>5 DEF SameBound, Dropped, D
  <2>2. ASSUME NEW i \in DOMAIN log
        PROVE  log[i].op = NoOp \/ HasReply(dedup', log[i].op) \/ D = plan'.dedup
    <3>1. CASE Len(dedup) = plan.dedup
      BY <1>2, <1>3, <1>5, <3>1 DEF SameBound, Dropped, D
    <3>2. CASE Len(dedup) # plan.dedup
      <4>1. log[i].op = NoOp \/ IsCached(log[i].op)
        BY <3>2 DEF Inv, CacheInv, CacheFull
      <4>2. ASSUME NEW k \in DOMAIN dedup
            PROVE  k \in DOMAIN dedup' /\ dedup'[k] = dedup[k]
        <5>1. Dropped = 0 /\ D = Len(dedup) + 1
          BY <1>3, <1>5, <3>2 DEF Dropped, D
        <5>2. k \in 1 .. D - 1 /\ k + Dropped = k /\ k \in 1 .. D
          BY <1>3, <5>1
        <5> QED  BY <1>6, <5>2
      <4> QED  BY <4>1, <4>2 DEF IsCached, HasReply
    <3> QED  BY <3>1, <3>2
  <2> QED  BY <1>1, <2>1, <2>2 DEF CacheFull, D, IsCached, HasReply
<1> QED  BY <1>7, <1>9, <1>10, <1>11 DEF Inv, CacheInv

\* The daemon serves an operation: from the cache, by a commit, or not at all.
LEMMA ServeKeeps ==
  ASSUME Inv, NEW p \in Op, Serve(p)
  PROVE  Inv'
<1>1. CASE IsCached(p) /\ dedup' = Refreshed(CachedAt(p)) /\ UNCHANGED <<plan, log, asides>>
  <2>1. CachedAt(p) \in DOMAIN dedup
    BY <1>1 DEF CachedAt, IsCached
  <2>2. SameBound
    BY <1>1 DEF SameBound, Inv, CacheInv, CacheType
  <2> QED  BY <1>1, <2>1, <2>2, HitKeeps
<1>2. CASE ~ IsCached(p) /\ Commit(p)
  BY <1>2, CommitKeeps
<1>3. CASE UNCHANGED <<plan, server>>
  <2>1. SameBound
    BY <1>3 DEF SameBound, Inv, CacheInv, CacheType
  <2> QED  BY <1>3, <2>1, NeitherKeeps DEF server
<1> QED  BY <1>1, <1>2, <1>3 DEF Serve

-----------------------------------------------------------------------------
(* The theorem *)

LEMMA InvInit == Init => Inv
<1> SUFFICES ASSUME Init PROVE Inv
  OBVIOUS
<1>1. plan \in Budgets /\ plan.dedup > 0
  BY PlansAssumption DEF Init
<1>2. "dedup" \in DOMAIN plan /\ plan.dedup \in Nat \ {0}
  BY <1>1 DEF Budgets
<1>3. log = <<>> /\ dedup = <<>> /\ asides = 0
  BY DEF Init
<1> QED  BY <1>2, <1>3 DEF Inv, CacheInv, CacheType, RepliesReal, KeysDistinct, CacheFull,
                           TwiceOnlyIfEvicted

LEMMA InvNext == Inv /\ [Next]_vars => Inv'
<1> SUFFICES ASSUME Inv, [Next]_vars
             PROVE  Inv'
  OBVIOUS
<1> USE DEF Has
<1>1. CacheType
  BY DEF Inv, CacheInv
<1>2. UNCHANGED plan => SameBound
  BY <1>1 DEF SameBound, CacheType
<1>3. CASE UNCHANGED vars
  BY <1>2, <1>3, NeitherKeeps DEF vars
<1>4. CASE Ask \/ TakeTheirs
  BY <1>2, <1>4, NeitherKeeps DEF Ask, TakeTheirs, server
<1>5. CASE Remote
  BY <1>5, CommitKeeps DEF Remote
<1>6. CASE RemoteAgain
  <2>1. SameBound
    BY <1>1, <1>6, SpendIs DEF RemoteAgain
  <2> QED  BY <1>6, <2>1, HitKeeps DEF RemoteAgain
<1>7. CASE TurnAway("refusals", "refused") \/ TurnAway("busies", "busy")
  <2>1. Spend("refusals") \/ Spend("busies")
    BY <1>7 DEF TurnAway
  <2>2. SameBound
    BY <1>1, <2>1, SpendIs
  <2> QED  BY <1>7, <2>2, NeitherKeeps DEF TurnAway, server
<1>13. CASE Aside
  BY <1>13, AsideKeeps
<1>14. CASE \E rd \in m.reads : ReadRefused(rd)
  <2>1. Spend("unread") /\ UNCHANGED server
    BY <1>14 DEF ReadRefused
  <2>2. SameBound
    BY <1>1, <2>1, SpendIs
  <2> QED  BY <2>1, <2>2, NeitherKeeps DEF server
<1>8. CASE PublishLost \/ ResyncDropped \/ PublishOther \/ Reconnect \/ Deadline
  <2>1. \E what \in {"losses", "silents", "others", "reconnects", "deadlines"} : Spend(what)
    BY <1>8 DEF PublishLost, ResyncDropped, PublishOther, Reconnect, Deadline
  <2>2. SameBound
    BY <1>1, <2>1, SpendIs
  <2>3. log' = log /\ dedup' = dedup /\ asides' = asides
    BY <1>8 DEF PublishLost, ResyncDropped, PublishOther, Reconnect, Deadline, server
  <2> QED  BY <2>2, <2>3, NeitherKeeps
<1>9. CASE \E p \in Op : ServeRequest(p) \/ ServeLate(p)
  BY <1>9, ServeKeeps DEF ServeRequest, ServeLate
<1>10. CASE \E rd \in m.reads : AnswerRead(rd) \/ ReadReply(rd)
  BY <1>2, <1>10, NeitherKeeps DEF AnswerRead, ReadReply, server
<1>11. CASE Publish \/ PublishResync
  BY <1>2, <1>11, NeitherKeeps DEF Publish, PublishResync
<1>12. CASE Deliver \/ Reply \/ Retry \/ EchoTimeout
  BY <1>2, <1>12, NeitherKeeps DEF Deliver, Reply, Retry, EchoTimeout, server
<1> QED
  BY <1>3, <1>4, <1>5, <1>6, <1>7, <1>8, <1>9, <1>10, <1>11, <1>12, <1>13, <1>14
     DEF Next, Environment, Daemon, Editor

\* actor.rs serve and DedupCache: however often an operation is sent again, served
\* late, or served after the mirror has given it up, and whatever other clients do,
\* it is committed a second time only once the cache has filled up with replies to
\* other requests.
THEOREM AtMostOnceWhileCached == Spec => []TwiceOnlyIfEvicted
<1>1. Inv => TwiceOnlyIfEvicted
  BY DEF Inv
<1> QED  BY <1>1, InvInit, InvNext, PTL DEF Spec

-----------------------------------------------------------------------------
(* The mirror: the inductive invariant.  Its parts take the kinds of the   *)
(* operations and the log as arguments, so that one lemma serves a mirror  *)
(* before and after the log has grown.                                     *)

\* IsEdit for given kinds.
EditIn(kd, p) == p # NoOp /\ kd[p] = "edit"

\* Types of what the mirror keeps.
Ops == Op \cup {NoOp}
\* The slot in flight.
SlotType == [op : Ops, st : {"none", "sent", "replied", "uncertain", "doomed"}, at : Nat,
             present : BOOLEAN]
\* The request the controller waits for.
RequestType == [op : Ops, st : {"none", "sent", "ok", "refused", "busy"}, at : Nat]
\* The reconciliation that is open.
ReconType == [op : Ops, since : Nat]
\* A read, with its answer.
ReadType == [kind : {"recover", "recon", "page"}, op : Ops, since : Nat,
             st : {"asked", "answered"}, ans : [rev : Nat, oldest : Nat]]
\* A text.
TextType == [ext : SUBSET Nat, own : [Op -> Int]]
\* The mirror.
MirrorType ==
  [phase : {"live", "history", "snapshot"}, rev : Nat, view : TextType, asked : Nat,
   fl : SlotType, queue : Seq(Op), retries : Nat, waiting : BOOLEAN,
   req : RequestType, late : [Op -> Nat], base : [Op -> Nat],
   recon : ReconType, reads : SUBSET ReadType, due : BOOLEAN, paging : BOOLEAN,
   buffered : Seq(Nat), resuspect : BOOLEAN, echo : BOOLEAN,
   copy : BOOLEAN, handed : SUBSET Op]

\* Every rev the mirror knows of is one of the log.
Within(lg, s) ==
  /\ s.rev <= Len(lg)
  /\ \A i \in DOMAIN s.buffered : s.buffered[i] \in 1 .. Len(lg)
  /\ \A rd \in s.reads : rd.ans.rev <= Len(lg)

\* Operations are sent in the order they were asked for.
InOrder(kd, s) ==
  /\ s.asked <= Len(kd) /\ s.fl.op <= s.asked
  /\ \A i \in DOMAIN s.queue : s.fl.op < s.queue[i] /\ s.queue[i] <= s.asked
  /\ \A i, j \in DOMAIN s.queue : i < j => s.queue[i] < s.queue[j]

\* What has not been sent is unknown to the daemon.
Unsent(s, p) == p > s.asked \/ \E i \in DOMAIN s.queue : p = s.queue[i]
\* Nobody waits for it, nothing of it is late or committed.
UnsentOK(lg, s) ==
  \A p \in Op : Unsent(s, p) =>
    /\ s.req.op # p /\ s.late[p] = 0 /\ s.recon.op # p
    /\ \A k \in DOMAIN lg : lg[k].op # p

\* The slot, its request and its reconciliation.
RequestOK(lg, s) ==
  /\ (s.fl.st = "none") <=> (s.fl.op = NoOp)
  /\ s.fl.st = "replied" => s.fl.at \in DOMAIN lg /\ lg[s.fl.at].op = s.fl.op
  /\ s.req.st = "none" => s.req = NoReq
  /\ s.req.st # "none" =>
       s.req.op = s.fl.op /\ s.fl.st \in {"sent", "doomed"} /\ ~s.waiting /\ s.recon.op # s.fl.op
  /\ s.req.st = "ok" => s.req.at \in DOMAIN lg /\ lg[s.req.at].op = s.fl.op
  /\ s.waiting => s.fl.st = "sent" /\ s.recon.op # s.fl.op
  /\ s.recon.op = NoOp => s.recon = NoRecon
  /\ s.recon.op # NoOp /\ s.recon.op = s.fl.op => s.fl.st \in {"uncertain", "doomed"}

\* An edit in flight that is in the view is not committed in the text under it; one that
\* was reverted overlaps an entry the daemon will refuse it for.
SlotOK(kd, lg, s) ==
  /\ s.fl.present =>
       /\ EditIn(kd, s.fl.op) /\ s.fl.st # "doomed" /\ s.base[s.fl.op] <= s.rev
       /\ \A k \in 1 .. s.rev : lg[k].op # s.fl.op
  /\ s.fl.st = "doomed" =>
       /\ EditIn(kd, s.fl.op)
       /\ \E k \in DOMAIN lg : k > s.base[s.fl.op] /\ s.fl.op \in lg[k].hits

\* A snapshot is paged in only with no edit of unknown fate and none queued.
PagedOK(kd, s) ==
  /\ (s.phase = "snapshot") <=> (s.due \/ s.paging)
  /\ s.paging =>
       /\ ~s.due
       /\ \A i \in DOMAIN s.queue : ~EditIn(kd, s.queue[i])
       /\ EditIn(kd, s.fl.op) => s.fl.st = "replied"

\* What an entry overlaps was not committed before it, and is later only if it was sent
\* on top of that entry.
HitsOK(lg, base) ==
  \A j, k \in DOMAIN lg : lg[j].op \in lg[k].hits => k < j /\ k <= base[lg[j].op]

\* All but the view.
Core(kd, lg, s) ==
  /\ s \in MirrorType /\ Within(lg, s) /\ InOrder(kd, s) /\ UnsentOK(lg, s)
  /\ RequestOK(lg, s) /\ SlotOK(kd, lg, s) /\ PagedOK(kd, s) /\ HitsOK(lg, s.base)

\* Text and PresentOps for a given log and given kinds.
TextIn(lg, r) == [ext |-> {k \in 1..r : lg[k].op = NoOp},
                  own |-> [p \in Op |-> Cardinality({k \in 1..r : lg[k].op = p})]]
\* The operations in the view that are not confirmed.
PresentIn(kd, s) ==
  {p \in Op : (s.fl.present /\ p = s.fl.op) \/ (EditIn(kd, p) /\ \E i \in DOMAIN s.queue : p = s.queue[i])}

\* The view, unless a snapshot is about to replace it.
ViewOK(kd, lg, s) == s.phase # "snapshot" => s.view = With(TextIn(lg, s.rev), PresentIn(kd, s))
\* The mirror's invariant.
Good(kd, lg, s) == Core(kd, lg, s) /\ ViewOK(kd, lg, s)

-----------------------------------------------------------------------------
(* Folds, round by round *)

\* Induction over a set of naturals.
LEMMA Induction ==
  ASSUME NEW T \in SUBSET Nat, 0 \in T, \A n \in T : n + 1 \in T
  PROVE  T = Nat
<1> DEFINE Out == Nat \ T
<1> SUFFICES ASSUME Out # {} PROVE FALSE
  OBVIOUS
<1>1. PICK x \in Out : \A y \in Out : ~(<<y, x>> \in OpToRel(<, Nat))
  <2> HIDE DEF Out
  <2>1. Out \subseteq Nat
    BY DEF Out
  <2> QED BY <2>1, WFMin, NatLessThanWellFounded
<1>2. x \in Nat /\ x # 0 /\ x \notin T
  OBVIOUS
<1>3. x - 1 \in Nat /\ x - 1 < x /\ (x - 1) + 1 = x
  BY <1>2
<1>4. x - 1 \notin T
  BY <1>2, <1>3
<1>5. <<x - 1, x>> \in OpToRel(<, Nat)
  BY <1>2, <1>3 DEF OpToRel
<1> QED BY <1>1, <1>3, <1>4, <1>5

\* One round of each fold of the model; the folds are told apart by a name.
Do(c, ops, a, x) ==
  CASE c = "keep"  -> (IF x \in ops THEN a ELSE Append(a, x))
    [] c = "edit"  -> OnEdit(a, x)
    [] c = "entry" -> FoldEntry(a, x)

\* g folds q over every set of its first n positions, the last position last.
IsIter(g, c, ops, b, q, n) ==
  g = [S \in SUBSET (1..n) |->
         IF S = {} THEN b ELSE Do(c, ops, g[S \ {Max(S)}], q[Max(S)])]

\* The last of the first n + 1 positions.
LEMMA MaxOf ==
  ASSUME NEW n \in Nat, NEW S \in SUBSET (1..(n + 1)), n + 1 \in S
  PROVE  Max(S) = n + 1 /\ S \ {n + 1} \in SUBSET (1..n)
<1>1. \A y \in S : n + 1 >= y
  OBVIOUS
<1>2. \A x \in S : (\A y \in S : x >= y) => x = n + 1
  OBVIOUS
<1>3. Max(S) \in S /\ \A y \in S : Max(S) >= y
  BY <1>1 DEF Max
<1>4. Max(S) = n + 1
  BY <1>2, <1>3
<1> QED BY <1>4

\* There is such a fold for every number of rounds.
LEMMA IterExists ==
  ASSUME NEW c, NEW ops, NEW b, NEW q, NEW n \in Nat
  PROVE  \E g : IsIter(g, c, ops, b, q, n)
<1> DEFINE T == {m0 \in Nat : \E g : IsIter(g, c, ops, b, q, m0)}
<1>1. 0 \in T
  <2> DEFINE g == [S \in {{}} |-> b]
  <2>1. SUBSET (1..0) = {{}}
    OBVIOUS
  <2>2. IsIter(g, c, ops, b, q, 0)
    BY <2>1 DEF IsIter
  <2> QED BY <2>2
<1>2. ASSUME NEW k \in T PROVE k + 1 \in T
  <2>1. PICK g : IsIter(g, c, ops, b, q, k)
    OBVIOUS
  <2> DEFINE h == [S \in SUBSET (1..(k + 1)) |->
                     IF k + 1 \in S THEN Do(c, ops, g[S \ {k + 1}], q[k + 1]) ELSE g[S]]
  <2>2. ASSUME NEW S \in SUBSET (1..(k + 1))
        PROVE  h[S] = IF S = {} THEN b ELSE Do(c, ops, h[S \ {Max(S)}], q[Max(S)])
    <3>1. CASE k + 1 \in S
      <4>1. Max(S) = k + 1 /\ S \ {k + 1} \in SUBSET (1..k) /\ k + 1 \notin S \ {k + 1}
        BY <3>1, MaxOf
      <4>2. S \ {k + 1} \in SUBSET (1..(k + 1))
        OBVIOUS
      <4>3. h[S \ {k + 1}] = g[S \ {k + 1}]
        BY <4>1, <4>2
      <4>4. h[S] = Do(c, ops, g[S \ {k + 1}], q[k + 1])
        BY <3>1
      <4> QED BY <3>1, <4>1, <4>3, <4>4
    <3>2. CASE k + 1 \notin S
      <4>1. S \in SUBSET (1..k)
        BY <3>2
      <4>2. h[S] = g[S]
        BY <3>2
      <4>3. /\ S \ {Max(S)} \in SUBSET (1..(k + 1)) /\ S \ {Max(S)} \in SUBSET (1..k)
            /\ k + 1 \notin S \ {Max(S)}
        BY <3>2, <4>1
      <4>4. h[S \ {Max(S)}] = g[S \ {Max(S)}]
        BY <4>3
      <4>5. g[S] = IF S = {} THEN b ELSE Do(c, ops, g[S \ {Max(S)}], q[Max(S)])
        BY <2>1, <4>1 DEF IsIter
      <4> QED BY <4>2, <4>4, <4>5
    <3> QED BY <3>1, <3>2
  <2>3. IsIter(h, c, ops, b, q, k + 1)
    <3> HIDE DEF h
    <3>1. DOMAIN h = SUBSET (1..(k + 1)) /\ h = [S \in DOMAIN h |-> h[S]]
      BY DEF h
    <3> QED BY <2>2, <3>1 DEF IsIter
  <2> QED BY <2>3
<1>3. T = Nat
  <2> HIDE DEF T
  <2>1. T \in SUBSET Nat BY DEF T
  <2> QED BY <1>1, <1>2, <2>1, Induction
<1> QED BY <1>3

\* it is the fold of the first k elements of q, for every k.
Rounds(it, c, ops, b, q) ==
  /\ it[{}] = b
  /\ \A k \in 0..(Len(q) - 1) : it[1..(k + 1)] = Do(c, ops, it[1..k], q[k + 1])

\* Its rounds, one after the other.
LEMMA IterRounds ==
  ASSUME NEW c, NEW ops, NEW b, NEW q, Len(q) \in Nat, NEW g, IsIter(g, c, ops, b, q, Len(q))
  PROVE  Rounds(g, c, ops, b, q)
<1> DEFINE n == Len(q)
<1>1. g[{}] = b
  BY DEF IsIter
<1>2. ASSUME NEW k \in 0..(n - 1)
      PROVE  g[1..(k + 1)] = Do(c, ops, g[1..k], q[k + 1])
  <2>1. k \in Nat /\ 1..(k + 1) \in SUBSET (1..n) /\ k + 1 \in 1..(k + 1)
    OBVIOUS
  <2>2. (1..(k + 1)) \ {k + 1} = 1..k /\ 1..(k + 1) # {} /\ 1..(k + 1) \in SUBSET (1..(k + 1))
    BY <2>1
  <2>3. Max(1..(k + 1)) = k + 1
    BY <2>1, <2>2, MaxOf
  <2> QED BY <2>1, <2>2, <2>3 DEF IsIter
<1> QED BY <1>1, <1>2 DEF Rounds

\* Keep, round by round.
LEMMA KeepFold ==
  ASSUME NEW S, NEW q \in Seq(S), NEW ops
  PROVE  \E it : Rounds(it, "keep", ops, <<>>, q) /\ Keep(q, ops) = it[1..Len(q)]
<1> DEFINE Th(a, x) == IF x \in ops THEN a ELSE Append(a, x)
           It(g) == g = [s \in SUBSET (DOMAIN q) |->
                           IF s = {} THEN <<>> ELSE Th(g[s \ {Max(s)}], q[Max(s)])]
           it == CHOOSE g : It(g)
<1>1. DOMAIN q = 1..Len(q) /\ Len(q) \in Nat
  BY LenProperties
<1>2. \A a, x : Do("keep", ops, a, x) = Th(a, x)
  BY DEF Do
<1>3. Keep(q, ops) = it[DOMAIN q]
  BY DEF Keep, FoldLeft, MapThenFoldSet
<1> HIDE DEF Th
<1>4. \A g : It(g) <=> IsIter(g, "keep", ops, <<>>, q, Len(q))
  BY <1>1, <1>2 DEF IsIter
<1>5. It(it)
  <2>1. \E g : It(g)
    <3> HIDE DEF It
    <3> QED BY <1>1, <1>4, IterExists
  <2> HIDE DEF It
  <2> QED BY <2>1
<1> HIDE DEF It, it
<1> QED BY <1>1, <1>3, <1>4, <1>5, IterRounds

\* The fold of GoLive over the buffered events, round by round.
LEMMA EditsFold ==
  ASSUME NEW b, NEW S, NEW q \in Seq(S)
  PROVE  \E it : Rounds(it, "edit", {}, b, q) /\ FoldLeft(OnEdit, b, q) = it[1..Len(q)]
<1> DEFINE It(g) == g = [s \in SUBSET (DOMAIN q) |->
                           IF s = {} THEN b ELSE OnEdit(g[s \ {Max(s)}], q[Max(s)])]
           it == CHOOSE g : It(g)
<1>1. DOMAIN q = 1..Len(q) /\ Len(q) \in Nat
  BY LenProperties
<1>2. \A a, x : Do("edit", {}, a, x) = OnEdit(a, x)
  BY DEF Do
<1>3. FoldLeft(OnEdit, b, q) = it[DOMAIN q]
  BY DEF FoldLeft, MapThenFoldSet
<1>4. \A g : It(g) <=> IsIter(g, "edit", {}, b, q, Len(q))
  BY <1>1, <1>2 DEF IsIter
<1>5. It(it)
  <2>1. \E g : It(g)
    <3> HIDE DEF It
    <3> QED BY <1>1, <1>4, IterExists
  <2> HIDE DEF It
  <2> QED BY <2>1
<1> HIDE DEF It, it
<1> QED BY <1>1, <1>3, <1>4, <1>5, IterRounds

\* FoldEntries, round by round.
LEMMA EntriesFold ==
  ASSUME NEW b, NEW S, NEW q \in Seq(S)
  PROVE  \E it : Rounds(it, "entry", {}, b, q) /\ FoldLeft(FoldEntry, b, q) = it[1..Len(q)]
<1> DEFINE It(g) == g = [s \in SUBSET (DOMAIN q) |->
                           IF s = {} THEN b ELSE FoldEntry(g[s \ {Max(s)}], q[Max(s)])]
           it == CHOOSE g : It(g)
<1>1. DOMAIN q = 1..Len(q) /\ Len(q) \in Nat
  BY LenProperties
<1>2. \A a, x : Do("entry", {}, a, x) = FoldEntry(a, x)
  BY DEF Do
<1>3. FoldLeft(FoldEntry, b, q) = it[DOMAIN q]
  BY DEF FoldLeft, MapThenFoldSet
<1>4. \A g : It(g) <=> IsIter(g, "entry", {}, b, q, Len(q))
  BY <1>1, <1>2 DEF IsIter
<1>5. It(it)
  <2>1. \E g : It(g)
    <3> HIDE DEF It
    <3> QED BY <1>1, <1>4, IterExists
  <2> HIDE DEF It
  <2> QED BY <2>1
<1> HIDE DEF It, it
<1> QED BY <1>1, <1>3, <1>4, <1>5, IterRounds

\* k is what is left of the first n elements of q without ops, in the same order.
IsKept(k, q, n, ops) ==
  /\ k \in Seq(Op)
  /\ \A i \in DOMAIN k : k[i] \notin ops /\ \E j \in 1..n : k[i] = q[j]
  /\ \A j \in 1..n : q[j] \notin ops => \E i \in DOMAIN k : k[i] = q[j]
  /\ \A i, j \in DOMAIN k : i < j => k[i] < k[j]

\* Keep drops what it is told to and leaves the rest in order.
LEMMA KeepIs ==
  ASSUME NEW q \in Seq(Op), NEW ops, \A i, j \in DOMAIN q : i < j => q[i] < q[j]
  PROVE  IsKept(Keep(q, ops), q, Len(q), ops)
<1>1. PICK it : Rounds(it, "keep", ops, <<>>, q) /\ Keep(q, ops) = it[1..Len(q)]
  BY KeepFold
<1>2. Len(q) \in Nat /\ DOMAIN q = 1..Len(q)
  OBVIOUS
<1> DEFINE T == {n \in Nat : n <= Len(q) => IsKept(it[1..n], q, n, ops)}
<1>3. 0 \in T
  <2>1. 1..0 = {} /\ it[{}] = <<>>
    BY <1>1 DEF Rounds
  <2>2. <<>> \in Seq(Op) /\ DOMAIN <<>> = {} /\ \A j : j \notin 1..0
    OBVIOUS
  <2>3. IsKept(it[1..0], q, 0, ops)
    <3> DEFINE e == <<>>
    <3>1. it[1..0] = e /\ e \in Seq(Op) /\ DOMAIN e = {}
      BY <2>1, <2>2
    <3> HIDE DEF e
    <3> QED  BY <2>2, <3>1 DEF IsKept
  <2> QED  BY <2>3
<1>4. ASSUME NEW n \in T PROVE n + 1 \in T
  <2> SUFFICES ASSUME n + 1 <= Len(q) PROVE IsKept(it[1..(n + 1)], q, n + 1, ops)
    OBVIOUS
  <2> DEFINE k == it[1..n]
             l == it[1..(n + 1)]
             x == q[n + 1]
  <2>1. n \in 0..(Len(q) - 1) /\ n \in Nat /\ IsKept(k, q, n, ops)
    BY <1>2
  <2>2. l = IF x \in ops THEN k ELSE Append(k, x)
    BY <1>1, <2>1 DEF Rounds, Do
  <2>3. x \in Op /\ \A j \in 1..n : q[j] < x
    BY <1>2, <2>1
  <2>5. k \in Seq(Op)
    BY <2>1 DEF IsKept
  <2> HIDE DEF k, l
  <2>4. CASE x \in ops
    <3>1. l = k /\ \A j \in 1..(n + 1) : q[j] \notin ops => j \in 1..n
      BY <2>1, <2>2, <2>4 DEF x
    <3>2. 1..n \subseteq 1..(n + 1)
      BY <2>1
    <3>3. IsKept(l, q, n + 1, ops)
      BY <2>1, <3>1, <3>2 DEF IsKept
    <3> QED  BY <3>3 DEF l
  <2>6. CASE x \notin ops
    <3>1. /\ l \in Seq(Op) /\ DOMAIN l = 1..(Len(k) + 1) /\ Len(k) \in Nat /\ DOMAIN k = 1..Len(k)
          /\ l[Len(k) + 1] = x /\ \A i \in 1..Len(k) : l[i] = k[i]
      BY <2>2, <2>3, <2>5, <2>6
    <3>2. ASSUME NEW i \in DOMAIN l PROVE l[i] \notin ops /\ \E j \in 1..(n + 1) : l[i] = q[j]
      <4>1. CASE i = Len(k) + 1
        BY <2>1, <2>6, <3>1, <4>1 DEF x
      <4>2. CASE i \in 1..Len(k)
        BY <2>1, <3>1, <4>2 DEF IsKept
      <4> QED  BY <3>1, <4>1, <4>2
    <3>3. ASSUME NEW j \in 1..(n + 1), q[j] \notin ops PROVE \E i \in DOMAIN l : l[i] = q[j]
      <4>1. CASE j = n + 1
        BY <2>1, <3>1, <4>1 DEF x
      <4>2. CASE j \in 1..n
        <5>1. PICK i \in DOMAIN k : k[i] = q[j]
          BY <2>1, <3>3, <4>2 DEF IsKept
        <5> QED  BY <3>1, <5>1
      <4> QED  BY <2>1, <4>1, <4>2
    <3>4. ASSUME NEW i \in DOMAIN l, NEW j \in DOMAIN l, i < j PROVE l[i] < l[j]
      <4>1. CASE j = Len(k) + 1
        <5>1. i \in DOMAIN k /\ l[i] = k[i] /\ l[j] = x
          BY <3>1, <3>4, <4>1
        <5>2. PICK h \in 1..n : k[i] = q[h]
          BY <2>1, <5>1 DEF IsKept
        <5> QED  BY <2>3, <5>1, <5>2
      <4>2. CASE j \in 1..Len(k)
        <5>1. i \in DOMAIN k /\ l[i] = k[i] /\ l[j] = k[j]
          BY <3>1, <3>4, <4>2
        <5> QED  BY <2>1, <3>1, <3>4, <4>2, <5>1 DEF IsKept
      <4> QED  BY <3>1, <4>1, <4>2
    <3>5. IsKept(l, q, n + 1, ops)
      <4> HIDE DEF x
      <4> QED  BY <3>1, <3>2, <3>3, <3>4 DEF IsKept
    <3> QED  BY <3>5 DEF l
  <2> QED  BY <2>4, <2>6 DEF l
<1>5. T = Nat
  <2> HIDE DEF T
  <2>1. T \in SUBSET Nat BY DEF T
  <2> QED BY <1>3, <1>4, <2>1, Induction
<1> QED BY <1>1, <1>2, <1>5

-----------------------------------------------------------------------------
(* Forgetting a request, freeing the slot *)

\* Operations are positive numbers.
LEMMA OpIs == \A p \in Op : p \in Nat /\ p > 0 /\ p # NoOp
BY MirrorAssumption DEF NoOp

\* A queue holds operations.
LEMMA QueueIs ==
  ASSUME NEW q \in Seq(Op), NEW i \in DOMAIN q
  PROVE  q[i] \in Op /\ q[i] \in Nat /\ q[i] > 0
<1>1. q[i] \in Op
  OBVIOUS
<1> QED  BY <1>1, OpIs

\* The controller forgets a request: types.
LEMMA UnlistenType ==
  ASSUME NEW s \in MirrorType
  PROVE  Unlisten(s) \in MirrorType
<1> DEFINE l == [p \in Op |-> IF s.req.st = "sent" /\ p = s.req.op THEN s.late[p] + 1 ELSE s.late[p]]
<1>1. l \in [Op -> Nat]
  BY DEF MirrorType
<1>2. Unlisten(s) = [s EXCEPT !.req = NoReq, !.late = l]
  BY DEF Unlisten
<1>3. NoReq \in RequestType
  BY DEF NoReq, NoOp, RequestType, Ops
<1> HIDE DEF l
<1> QED  BY <1>1, <1>2, <1>3 DEF MirrorType

\* The controller forgets a request.
LEMMA UnlistenKeeps ==
  ASSUME NEW kd, NEW lg, NEW s, Core(kd, lg, s)
  PROVE  Core(kd, lg, Unlisten(s))
<1>1. s \in MirrorType /\ Unlisten(s) \in MirrorType
  BY UnlistenType DEF Core
<1>2. Within(lg, Unlisten(s)) /\ InOrder(kd, Unlisten(s))
  BY <1>1 DEF Core, Unlisten, Within, InOrder, MirrorType
<1>3. UnsentOK(lg, Unlisten(s))
  <2> SUFFICES ASSUME NEW p \in Op, Unsent(s, p)
               PROVE  /\ Unlisten(s).req.op # p /\ Unlisten(s).late[p] = 0
                      /\ Unlisten(s).recon.op # p /\ \A k \in DOMAIN lg : lg[k].op # p
    BY <1>1 DEF Unlisten, UnsentOK, Unsent, MirrorType
  <2>1. s.req.op # p /\ s.late[p] = 0 /\ s.recon.op # p /\ \A k \in DOMAIN lg : lg[k].op # p
    BY DEF Core, UnsentOK
  <2> QED  BY <1>1, <2>1, MirrorAssumption DEF Unlisten, NoReq, NoOp, MirrorType
<1>4. RequestOK(lg, Unlisten(s))
  BY <1>1 DEF Core, Unlisten, RequestOK, NoReq, NoOp, MirrorType, SlotType, RequestType, ReconType, Ops
<1>5. SlotOK(kd, lg, Unlisten(s)) /\ PagedOK(kd, Unlisten(s)) /\ HitsOK(lg, Unlisten(s).base)
  BY <1>1 DEF Core, Unlisten, SlotOK, PagedOK, HitsOK, MirrorType
<1> QED  BY <1>1, <1>2, <1>3, <1>4, <1>5 DEF Core

\* clear_slot: types.
LEMMA FreeSlotIs ==
  ASSUME NEW s \in MirrorType
  PROVE  /\ FreeSlot(s) \in MirrorType
         /\ FreeSlot(s) = [Unlisten(s) EXCEPT !.fl = NoFlight, !.retries = 0, !.waiting = FALSE, !.echo = FALSE]
         /\ NoFlight \in SlotType
<1>1. NoFlight \in SlotType
  BY DEF NoFlight, NoOp, SlotType, Ops
<1> QED  BY <1>1, UnlistenType DEF FreeSlot, MirrorType

\* FreeSlot keeps all but what is in the view.
LEMMA FreeSlotKeeps ==
  ASSUME NEW kd, NEW lg, NEW s, Core(kd, lg, s)
  PROVE  Core(kd, lg, FreeSlot(s))
<1> DEFINE t == Unlisten(s)
<1>1. Core(kd, lg, t) /\ t \in MirrorType /\ t.req = NoReq
  <2>1. s \in MirrorType
    BY DEF Core
  <2>2. Unlisten(s) \in MirrorType /\ Unlisten(s).req = NoReq
    BY <2>1, UnlistenType DEF Unlisten, MirrorType
  <2> QED BY <2>2, UnlistenKeeps
<1> HIDE DEF t
<1>2. /\ FreeSlot(s) \in MirrorType
      /\ FreeSlot(s) = [t EXCEPT !.fl = NoFlight, !.retries = 0, !.waiting = FALSE, !.echo = FALSE]
  BY FreeSlotIs DEF Core, t
<1> DEFINE u == FreeSlot(s)
<1>3. /\ u.fl = NoFlight /\ u.waiting = FALSE
      /\ u.phase = t.phase /\ u.rev = t.rev /\ u.asked = t.asked /\ u.queue = t.queue
      /\ u.req = NoReq /\ u.late = t.late /\ u.base = t.base /\ u.recon = t.recon /\ u.reads = t.reads
      /\ u.due = t.due /\ u.paging = t.paging /\ u.buffered = t.buffered
  BY <1>1, <1>2 DEF MirrorType
<1> HIDE DEF u
<1>4. Within(lg, u) /\ UnsentOK(lg, u) /\ HitsOK(lg, u.base)
  BY <1>1, <1>3, MirrorAssumption DEF Core, Within, UnsentOK, Unsent, HitsOK, NoOp, NoReq, MirrorType
<1>6. InOrder(kd, u)
  <2>1. t.queue \in Seq(Op) /\ t.asked \in Nat
    BY <1>1 DEF MirrorType
  <2>2. \A i \in DOMAIN t.queue : t.queue[i] \in Nat /\ 0 < t.queue[i]
    BY <2>1, QueueIs
  <2> QED  BY <1>1, <1>3, <2>1, <2>2 DEF Core, InOrder, NoFlight, NoOp
<1>5. RequestOK(lg, u) /\ SlotOK(kd, lg, u) /\ PagedOK(kd, u)
  BY <1>1, <1>3 DEF Core, RequestOK, SlotOK, PagedOK, NoFlight, NoOp, NoReq, EditIn
<1> QED  BY <1>2, <1>4, <1>5, <1>6 DEF Core, u

-----------------------------------------------------------------------------
(* Texts *)

\* How often p is committed up to rev r.
Count(lg, r, p) == Cardinality({k \in 1..r : lg[k].op = p})

\* One more rev, at most one more commit.
LEMMA CountIs ==
  ASSUME NEW lg, NEW r \in Nat, NEW p
  PROVE  /\ Count(lg, r, p) \in Nat
         /\ Count(lg, r + 1, p) = Count(lg, r, p) + (IF lg[r + 1].op = p THEN 1 ELSE 0)
<1> DEFINE S == {k \in 1..r : lg[k].op = p}
           R == {k \in 1..(r + 1) : lg[k].op = p}
<1>1. IsFiniteSet(1..r)
  BY FS_Interval
<1>2. IsFiniteSet(S)
  <2>1. S \subseteq 1..r
    OBVIOUS
  <2> QED  BY <1>1, <2>1, FS_Subset
<1>3. R = IF lg[r + 1].op = p THEN S \cup {r + 1} ELSE S
  OBVIOUS
<1>4. r + 1 \notin S
  OBVIOUS
<1> HIDE DEF S, R
<1>5. Cardinality(S) \in Nat /\ Cardinality(S \cup {r + 1}) = Cardinality(S) + 1
  BY <1>2, <1>4, FS_AddElement, FS_CardinalityType
<1>6. Count(lg, r, p) = Cardinality(S) /\ Count(lg, r + 1, p) = Cardinality(R)
  BY DEF Count, S, R
<1> QED  BY <1>3, <1>5, <1>6

\* The fields of a text.
LEMMA TextIs ==
  ASSUME NEW lg, NEW r \in Nat
  PROVE  /\ TextIn(lg, r) \in TextType
         /\ TextIn(lg, r).ext = {k \in 1..r : lg[k].op = NoOp}
         /\ \A p \in Op : TextIn(lg, r).own[p] = Count(lg, r, p)
<1>1. \A p \in Op : Count(lg, r, p) \in Int
  <2>1. ASSUME NEW p \in Op PROVE Count(lg, r, p) \in Nat
    BY CountIs
  <2> QED  BY <2>1
<1>2. TextIn(lg, r) = [ext |-> {k \in 1..r : lg[k].op = NoOp}, own |-> [p \in Op |-> Count(lg, r, p)]]
  BY DEF TextIn, Count
<1> QED  BY <1>1, <1>2 DEF TextType

\* Texts with the same fields are the same.
LEMMA SameTextRecord ==
  ASSUME NEW t \in TextType, NEW u \in TextType, t.ext = u.ext, \A p \in Op : t.own[p] = u.own[p]
  PROVE  t = u
<1>1. t.own = u.own
  BY DEF TextType
<1> QED  BY <1>1 DEF TextType

\* The fields of a text with, or without, some operations.
LEMMA WithIs ==
  ASSUME NEW t \in TextType, NEW A
  PROVE  /\ With(t, A) \in TextType /\ With(t, A).ext = t.ext
         /\ \A p \in Op : With(t, A).own[p] = t.own[p] + (IF p \in A THEN 1 ELSE 0)
         /\ Without(t, A) \in TextType /\ Without(t, A).ext = t.ext
         /\ \A p \in Op : Without(t, A).own[p] = t.own[p] - (IF p \in A THEN 1 ELSE 0)
<1> DEFINE a == [p \in Op |-> IF p \in A THEN t.own[p] + 1 ELSE t.own[p]]
           b == [p \in Op |-> IF p \in A THEN t.own[p] - 1 ELSE t.own[p]]
<1>0. t.own \in [Op -> Int] /\ t.ext \in SUBSET Nat
  BY DEF TextType
<1>1. a \in [Op -> Int] /\ b \in [Op -> Int]
  BY <1>0
<1>2. With(t, A) = [t EXCEPT !.own = a] /\ Without(t, A) = [t EXCEPT !.own = b]
  BY DEF With, Without
<1>3. \A p \in Op : /\ a[p] = t.own[p] + (IF p \in A THEN 1 ELSE 0)
                    /\ b[p] = t.own[p] - (IF p \in A THEN 1 ELSE 0)
  BY <1>0
<1> HIDE DEF a, b
<1>4. [t EXCEPT !.own = a] \in TextType /\ [t EXCEPT !.own = b] \in TextType
  BY <1>1 DEF TextType
<1>5. /\ [t EXCEPT !.own = a].own = a /\ [t EXCEPT !.own = a].ext = t.ext
      /\ [t EXCEPT !.own = b].own = b /\ [t EXCEPT !.own = b].ext = t.ext
  BY DEF TextType
<1> QED  BY <1>2, <1>3, <1>4, <1>5

\* Some of what was put into a text is taken out of it.
LEMMA WithWithout ==
  ASSUME NEW t \in TextType, NEW A, NEW B \in SUBSET A
  PROVE  Without(With(t, A), B) = With(t, A \ B)
<1> DEFINE v == With(t, A)
           w == Without(v, B)
           u == With(t, A \ B)
<1>1. /\ v \in TextType /\ v.ext = t.ext
      /\ \A p \in Op : v.own[p] = t.own[p] + (IF p \in A THEN 1 ELSE 0)
  BY WithIs
<1>2. /\ u \in TextType /\ u.ext = t.ext
      /\ \A p \in Op : u.own[p] = t.own[p] + (IF p \in A \ B THEN 1 ELSE 0)
  BY WithIs
<1> HIDE DEF v, u
<1>3. /\ w \in TextType /\ w.ext = v.ext
      /\ \A p \in Op : w.own[p] = v.own[p] - (IF p \in B THEN 1 ELSE 0)
  BY <1>1, WithIs
<1> HIDE DEF w
<1>4. ASSUME NEW p \in Op PROVE w.own[p] = u.own[p]
  <2>1. t.own[p] \in Int
    BY DEF TextType
  <2> QED  BY <1>1, <1>2, <1>3, <2>1
<1>5. w = u
  BY <1>1, <1>2, <1>3, <1>4, SameTextRecord
<1> QED  BY <1>5 DEF w, v, u

\* Other operations are put into a text.
LEMMA WithMore ==
  ASSUME NEW t \in TextType, NEW A, NEW B, A \cap B = {}
  PROVE  With(With(t, A), B) = With(t, A \cup B)
<1> DEFINE v == With(t, A)
           w == With(v, B)
           u == With(t, A \cup B)
<1>1. /\ v \in TextType /\ v.ext = t.ext
      /\ \A p \in Op : v.own[p] = t.own[p] + (IF p \in A THEN 1 ELSE 0)
  BY WithIs
<1>2. /\ u \in TextType /\ u.ext = t.ext
      /\ \A p \in Op : u.own[p] = t.own[p] + (IF p \in A \cup B THEN 1 ELSE 0)
  BY WithIs
<1> HIDE DEF v, u
<1>3. /\ w \in TextType /\ w.ext = v.ext
      /\ \A p \in Op : w.own[p] = v.own[p] + (IF p \in B THEN 1 ELSE 0)
  BY <1>1, WithIs
<1> HIDE DEF w
<1>4. ASSUME NEW p \in Op PROVE w.own[p] = u.own[p]
  <2>1. t.own[p] \in Int
    BY DEF TextType
  <2> QED  BY <1>1, <1>2, <1>3, <2>1
<1>5. w = u
  BY <1>1, <1>2, <1>3, <1>4, SameTextRecord
<1> QED  BY <1>5 DEF w, v, u

\* No operation is put into a text.
LEMMA WithNothing ==
  ASSUME NEW t \in TextType
  PROVE  With(t, {}) = t
<1>1. /\ With(t, {}) \in TextType /\ With(t, {}).ext = t.ext
      /\ \A p \in Op : With(t, {}).own[p] = t.own[p] + (IF p \in {} THEN 1 ELSE 0)
  BY WithIs
<1>2. \A p \in Op : With(t, {}).own[p] = t.own[p]
  BY <1>1 DEF TextType
<1> QED  BY <1>1, <1>2, SameTextRecord

\* WithEntry adds the entry to any text.
LEMMA WithEntryIs ==
  ASSUME NEW t \in TextType, NEW r \in Nat, log[r].op \in Ops
  PROVE  /\ WithEntry(t, r) \in TextType
         /\ WithEntry(t, r).ext = t.ext \cup (IF log[r].op = NoOp THEN {r} ELSE {})
         /\ \A p \in Op : WithEntry(t, r).own[p] = t.own[p] + (IF log[r].op = p THEN 1 ELSE 0)
<1>0. t.own \in [Op -> Int] /\ t.ext \in SUBSET Nat
  BY DEF TextType
<1>1. CASE log[r].op = NoOp
  <2>1. WithEntry(t, r) = [t EXCEPT !.ext = t.ext \cup {r}]
    BY <1>1 DEF WithEntry
  <2>2. WithEntry(t, r) \in TextType /\ WithEntry(t, r).ext = t.ext \cup {r} /\ WithEntry(t, r).own = t.own
    BY <1>0, <2>1 DEF TextType
  <2>3. \A p \in Op : p # log[r].op /\ t.own[p] \in Int
    BY <1>0, <1>1, OpIs
  <2> QED  BY <1>1, <2>2, <2>3
<1>2. CASE log[r].op # NoOp
  <2> DEFINE q == log[r].op
             a == [t.own EXCEPT ![q] = t.own[q] + 1]
  <2>1. q \in Op
    BY <1>2 DEF Ops
  <2> HIDE DEF q
  <2>2. a \in [Op -> Int] /\ \A p \in Op : a[p] = t.own[p] + (IF q = p THEN 1 ELSE 0)
    BY <1>0, <2>1
  <2>3. WithEntry(t, r) = [t EXCEPT !.own = a]
    BY <1>2 DEF WithEntry, q
  <2> HIDE DEF a
  <2>4. [t EXCEPT !.own = a] \in TextType /\ [t EXCEPT !.own = a].ext = t.ext /\ [t EXCEPT !.own = a].own = a
    BY <1>0, <2>2 DEF TextType
  <2> QED  BY <1>2, <2>2, <2>3, <2>4 DEF q
<1> QED  BY <1>1, <1>2

\* Another entry is applied under the optimistic operations.
LEMMA NextText ==
  ASSUME NEW r \in Nat, log[r + 1].op \in Ops, NEW A
  PROVE  WithEntry(With(TextIn(log, r), A), r + 1) = With(TextIn(log, r + 1), A)
<1> DEFINE t == With(TextIn(log, r), A)
           u == With(TextIn(log, r + 1), A)
<1>1. /\ t \in TextType /\ t.ext = {k \in 1..r : log[k].op = NoOp}
      /\ \A p \in Op : t.own[p] = Count(log, r, p) + (IF p \in A THEN 1 ELSE 0)
  BY TextIs, WithIs
<1>2. /\ u \in TextType /\ u.ext = {k \in 1..(r + 1) : log[k].op = NoOp}
      /\ \A p \in Op : u.own[p] = Count(log, r + 1, p) + (IF p \in A THEN 1 ELSE 0)
  <2>1. r + 1 \in Nat
    OBVIOUS
  <2> QED BY <2>1, TextIs, WithIs
<1> HIDE DEF t, u
<1>3. /\ WithEntry(t, r + 1) \in TextType
      /\ WithEntry(t, r + 1).ext = t.ext \cup (IF log[r + 1].op = NoOp THEN {r + 1} ELSE {})
      /\ \A p \in Op : WithEntry(t, r + 1).own[p] = t.own[p] + (IF log[r + 1].op = p THEN 1 ELSE 0)
  <2>1. r + 1 \in Nat
    OBVIOUS
  <2> QED  BY <1>1, <2>1, WithEntryIs
<1>4. WithEntry(t, r + 1).ext = u.ext
  BY <1>1, <1>2, <1>3
<1>5. ASSUME NEW p \in Op PROVE WithEntry(t, r + 1).own[p] = u.own[p]
  BY <1>1, <1>2, <1>3, CountIs
<1> QED  BY <1>2, <1>3, <1>4, <1>5, SameTextRecord DEF t, u

\* An own entry is what was in the view already.
LEMMA EchoText ==
  ASSUME NEW r \in Nat, NEW A, NEW q \in Op \cap A, log[r + 1].op = q
  PROVE  With(TextIn(log, r), A) = With(TextIn(log, r + 1), A \ {q})
<1> DEFINE t == With(TextIn(log, r), A)
           u == With(TextIn(log, r + 1), A \ {q})
<1>1. /\ t \in TextType /\ t.ext = {k \in 1..r : log[k].op = NoOp}
      /\ \A p \in Op : t.own[p] = Count(log, r, p) + (IF p \in A THEN 1 ELSE 0)
  BY TextIs, WithIs
<1>2. /\ u \in TextType /\ u.ext = {k \in 1..(r + 1) : log[k].op = NoOp}
      /\ \A p \in Op : u.own[p] = Count(log, r + 1, p) + (IF p \in A \ {q} THEN 1 ELSE 0)
  <2>1. r + 1 \in Nat
    OBVIOUS
  <2> QED BY <2>1, TextIs, WithIs
<1> HIDE DEF t, u
<1>4. t.ext = u.ext
  BY <1>1, <1>2, OpIs
<1>5. ASSUME NEW p \in Op PROVE t.own[p] = u.own[p]
  BY <1>1, <1>2, CountIs
<1> QED  BY <1>1, <1>2, <1>4, <1>5, SameTextRecord DEF t, u

-----------------------------------------------------------------------------
(* The parts of the mirror no invariant is about, and reads *)

\* t is s but for fields no invariant is about, its view and its marks.
Alike(s, t) ==
  /\ t \in MirrorType
  /\ t.phase = s.phase /\ t.rev = s.rev /\ t.asked = s.asked /\ t.fl = s.fl /\ t.queue = s.queue
  /\ t.waiting = s.waiting /\ t.req = s.req /\ t.late = s.late /\ t.base = s.base
  /\ t.recon = s.recon /\ t.reads = s.reads /\ t.due = s.due /\ t.paging = s.paging
  /\ t.buffered = s.buffered

\* Core is about what such mirrors share.
LEMMA AlikeKeeps ==
  ASSUME NEW kd, NEW lg, NEW s, NEW t, Core(kd, lg, s), Alike(s, t)
  PROVE  Core(kd, lg, t)
<1>1. Within(lg, t) /\ InOrder(kd, t) /\ UnsentOK(lg, t)
  BY DEF Core, Alike, Within, InOrder, UnsentOK, Unsent
<1>2. RequestOK(lg, t) /\ SlotOK(kd, lg, t)
  BY DEF Core, Alike, RequestOK, SlotOK
<1>3. PagedOK(kd, t) /\ HitsOK(lg, t.base)
  BY DEF Core, Alike, PagedOK, HitsOK
<1> QED  BY <1>1, <1>2, <1>3 DEF Core, Alike

\* What ViewOK looks at.
SameView(s, t) ==
  t.phase = s.phase /\ t.view = s.view /\ t.rev = s.rev /\ t.fl = s.fl /\ t.queue = s.queue

\* ViewOK is about what such mirrors share.
LEMMA SameViewKeeps ==
  ASSUME NEW kd, NEW lg, NEW s, NEW t, ViewOK(kd, lg, s), SameView(s, t)
  PROVE  ViewOK(kd, lg, t)
BY DEF ViewOK, SameView, PresentIn

\* Neither the phase nor the position nor the promises about the snapshot change.
SamePlace(s, t) ==
  t.phase = s.phase /\ t.rev = s.rev /\ t.base = s.base /\ t.due = s.due /\ t.paging = s.paging

\* A read is sent.
LEMMA ReadKeeps ==
  ASSUME NEW kd, NEW lg, NEW s, Core(kd, lg, s), Len(lg) \in Nat,
         NEW kind \in {"recover", "recon", "page"}, NEW since \in Nat
  PROVE  /\ Core(kd, lg, Read(s, kind, since))
         /\ SameView(s, Read(s, kind, since)) /\ SamePlace(s, Read(s, kind, since))
<1> DEFINE x == [kind |-> kind, op |-> s.fl.op, since |-> since, st |-> "asked", ans |-> Unanswered]
           t == Read(s, kind, since)
<1>1. s \in MirrorType
  BY DEF Core
<1>2. x \in ReadType /\ x.ans.rev = 0
  <2>1. s.fl.op \in Ops
    BY <1>1 DEF MirrorType, SlotType
  <2> QED  BY <2>1 DEF ReadType, Unanswered
<1>3. t = [s EXCEPT !.reads = s.reads \cup {x}]
  BY DEF Read
<1> HIDE DEF x, t
<1>4. /\ t \in MirrorType /\ t.reads = s.reads \cup {x}
      /\ t.phase = s.phase /\ t.rev = s.rev /\ t.asked = s.asked /\ t.fl = s.fl /\ t.queue = s.queue
      /\ t.waiting = s.waiting /\ t.req = s.req /\ t.late = s.late /\ t.base = s.base
      /\ t.recon = s.recon /\ t.due = s.due /\ t.paging = s.paging
      /\ t.buffered = s.buffered /\ t.view = s.view
  BY <1>1, <1>2, <1>3 DEF MirrorType
<1>5. Within(lg, t)
  BY <1>2, <1>4 DEF Core, Within
<1>6. InOrder(kd, t) /\ UnsentOK(lg, t)
  BY <1>4 DEF Core, InOrder, UnsentOK, Unsent
<1>7. RequestOK(lg, t) /\ SlotOK(kd, lg, t) /\ PagedOK(kd, t) /\ HitsOK(lg, t.base)
  BY <1>4 DEF Core, RequestOK, SlotOK, PagedOK, HitsOK
<1> QED  BY <1>4, <1>5, <1>6, <1>7 DEF Core, SameView, SamePlace, t

\* A reconciliation is opened.
LEMMA StartReconKeeps ==
  ASSUME NEW kd, NEW lg, NEW s, Core(kd, lg, s), Len(lg) \in Nat,
         s.fl.st \in {"uncertain", "doomed"}, s.req.st = "none", ~s.waiting
  PROVE  /\ Core(kd, lg, StartRecon(s)) /\ SameView(s, StartRecon(s)) /\ SamePlace(s, StartRecon(s))
         /\ StartRecon(s).fl = s.fl
<1> DEFINE since == s.base[s.fl.op]
           x == [op |-> s.fl.op, since |-> since]
           t == [s EXCEPT !.recon = x]
<1>1. s \in MirrorType
  BY DEF Core
<1>2. s.fl.op # NoOp /\ s.fl.op \in Op /\ since \in Nat /\ x \in ReconType
  <2>1. s.fl.op \in Ops /\ s.base \in [Op -> Nat]
    BY <1>1 DEF MirrorType, SlotType
  <2>2. s.fl.op # NoOp
    BY DEF Core, RequestOK
  <2> QED  BY <2>1, <2>2 DEF Ops, ReconType
<1>3. x.op = s.fl.op
  OBVIOUS
<1> HIDE DEF x, since
<1>4. /\ t \in MirrorType /\ t.recon = x
      /\ t.phase = s.phase /\ t.rev = s.rev /\ t.asked = s.asked /\ t.fl = s.fl /\ t.queue = s.queue
      /\ t.waiting = s.waiting /\ t.req = s.req /\ t.late = s.late /\ t.base = s.base
      /\ t.reads = s.reads /\ t.due = s.due /\ t.paging = s.paging
      /\ t.buffered = s.buffered /\ t.view = s.view
  BY <1>1, <1>2 DEF MirrorType
<1> HIDE DEF t
<1>5. Within(lg, t) /\ InOrder(kd, t)
  BY <1>4 DEF Core, Within, InOrder
<1>6. UnsentOK(lg, t)
  <2> SUFFICES ASSUME NEW p \in Op, Unsent(s, p)
               PROVE  /\ s.req.op # p /\ s.late[p] = 0 /\ s.fl.op # p
                      /\ \A k \in DOMAIN lg : lg[k].op # p
    BY <1>3, <1>4 DEF UnsentOK, Unsent
  <2>1. s.asked \in Nat /\ s.fl.op \in Nat /\ s.fl.op <= s.asked /\ s.queue \in Seq(Op)
    BY <1>1, <1>2, OpIs DEF Core, InOrder, MirrorType
  <2>2. \A i \in DOMAIN s.queue : s.fl.op < s.queue[i] /\ s.queue[i] \in Nat
    BY <2>1, QueueIs DEF Core, InOrder
  <2>3. s.fl.op # p
    BY <2>1, <2>2, OpIs DEF Unsent
  <2> QED  BY <2>3 DEF Core, UnsentOK
<1>7. RequestOK(lg, t)
  BY <1>2, <1>3, <1>4 DEF Core, RequestOK
<1>8. SlotOK(kd, lg, t) /\ PagedOK(kd, t) /\ HitsOK(lg, t.base)
  BY <1>4 DEF Core, SlotOK, PagedOK, HitsOK
<1>9. Core(kd, lg, t)
  BY <1>4, <1>5, <1>6, <1>7, <1>8 DEF Core
<1>10. StartRecon(s) = Read(t, "recon", since)
  BY DEF StartRecon, t, x, since
<1>11. /\ Core(kd, lg, Read(t, "recon", since)) /\ SameView(t, Read(t, "recon", since))
       /\ SamePlace(t, Read(t, "recon", since))
  BY <1>2, <1>9, ReadKeeps
<1> QED  BY <1>4, <1>10, <1>11 DEF SameView, SamePlace

-----------------------------------------------------------------------------
(* revert_suffix *)

\* What Revert does before it looks at the slot.
Cut(s, ops) == [s EXCEPT !.queue = Keep(s.queue, ops), !.view = Without(s.view, ops),
                         !.handed = s.handed \cup ops]

\* All that Cut changes.
CutFrom(s, ops, t) ==
  /\ t \in MirrorType
  /\ t.queue = Keep(s.queue, ops) /\ t.view = Without(s.view, ops)
  /\ t.phase = s.phase /\ t.rev = s.rev /\ t.asked = s.asked /\ t.fl = s.fl
  /\ t.waiting = s.waiting /\ t.req = s.req /\ t.late = s.late /\ t.base = s.base
  /\ t.recon = s.recon /\ t.reads = s.reads /\ t.due = s.due /\ t.paging = s.paging
  /\ t.buffered = s.buffered

\* The first half of revert_suffix: the fields.
LEMMA CutIs ==
  ASSUME NEW s \in MirrorType, NEW ops \in SUBSET Op,
         \A i, j \in DOMAIN s.queue : i < j => s.queue[i] < s.queue[j]
  PROVE  CutFrom(s, ops, Cut(s, ops)) /\ IsKept(Keep(s.queue, ops), s.queue, Len(s.queue), ops)
<1>1. s.queue \in Seq(Op) /\ s.view \in TextType /\ s.handed \in SUBSET Op
  BY DEF MirrorType
<1>2. IsKept(Keep(s.queue, ops), s.queue, Len(s.queue), ops)
  BY <1>1, KeepIs
<1> DEFINE q == Keep(s.queue, ops)
           v == Without(s.view, ops)
           h == s.handed \cup ops
<1>3. q \in Seq(Op) /\ v \in TextType /\ h \in SUBSET Op
  BY <1>1, <1>2, WithIs DEF IsKept
<1>4. Cut(s, ops) = [s EXCEPT !.queue = q, !.view = v, !.handed = h]
  BY DEF Cut
<1> HIDE DEF q, v, h
<1>5. CutFrom(s, ops, [s EXCEPT !.queue = q, !.view = v, !.handed = h])
  BY <1>3 DEF MirrorType, CutFrom, q, v
<1> QED  BY <1>2, <1>4, <1>5

\* The first half of revert_suffix: Core.
LEMMA CutKeeps ==
  ASSUME NEW kd, NEW lg, NEW s, Core(kd, lg, s), NEW ops \in SUBSET Op
  PROVE  /\ Core(kd, lg, Cut(s, ops)) /\ CutFrom(s, ops, Cut(s, ops))
         /\ IsKept(Keep(s.queue, ops), s.queue, Len(s.queue), ops)
<1> DEFINE t == Cut(s, ops)
<1>1. CutFrom(s, ops, t) /\ IsKept(t.queue, s.queue, Len(s.queue), ops)
  BY CutIs DEF Core, InOrder, CutFrom
<1> HIDE DEF t
<1>2. s \in MirrorType /\ s.queue \in Seq(Op) /\ t.queue \in Seq(Op) /\ t \in MirrorType
  BY <1>1 DEF Core, MirrorType, CutFrom
<1>3. \A i \in DOMAIN t.queue : \E j \in DOMAIN s.queue : t.queue[i] = s.queue[j]
  BY <1>1, <1>2 DEF IsKept
<1>4. \A p \in Op : Unsent(t, p) => Unsent(s, p)
  BY <1>1, <1>3 DEF Unsent, CutFrom
<1>5. Within(lg, t) /\ UnsentOK(lg, t)
  BY <1>1, <1>4 DEF Core, CutFrom, Within, UnsentOK
<1>6. InOrder(kd, t)
  <2>1. \A i, j \in DOMAIN t.queue : i < j => t.queue[i] < t.queue[j]
    BY <1>1 DEF IsKept
  <2>2. \A i \in DOMAIN t.queue : s.fl.op < t.queue[i] /\ t.queue[i] <= s.asked
    BY <1>3 DEF Core, InOrder
  <2> QED  BY <1>1, <2>1, <2>2 DEF Core, CutFrom, InOrder
<1>7. RequestOK(lg, t) /\ SlotOK(kd, lg, t) /\ HitsOK(lg, t.base)
  BY <1>1 DEF Core, CutFrom, RequestOK, SlotOK, HitsOK
<1>8. PagedOK(kd, t)
  <2>1. \A i \in DOMAIN t.queue : s.paging => ~EditIn(kd, t.queue[i])
    BY <1>3 DEF Core, PagedOK
  <2> QED  BY <1>1, <2>1 DEF Core, CutFrom, PagedOK
<1>9. Core(kd, lg, t)
  BY <1>2, <1>5, <1>6, <1>7, <1>8 DEF Core
<1>10. t.queue = Keep(s.queue, ops)
  BY <1>1 DEF CutFrom
<1> QED  BY <1>1, <1>9, <1>10 DEF t

\* t has what is left of s without ops in its view, its queue and its slot.
LeftOf(s, ops, t) ==
  /\ t.phase = s.phase /\ t.rev = s.rev
  /\ t.view = Without(s.view, ops) /\ t.queue = Keep(s.queue, ops)
  /\ s.fl.present /\ s.fl.op \in ops => t.fl.present = FALSE
  /\ ~(s.fl.present /\ s.fl.op \in ops) => t.fl = s.fl

\* The first half of revert_suffix: the view.
LEMMA CutView ==
  ASSUME NEW kd, NEW lg, NEW s, Core(kd, lg, s), ViewOK(kd, lg, s),
         NEW ops \in SUBSET PresentIn(kd, s), NEW t, LeftOf(s, ops, t)
  PROVE  ViewOK(kd, lg, t) /\ PresentIn(kd, t) = PresentIn(kd, s) \ ops
<1>1. IsKept(Keep(s.queue, ops), s.queue, Len(s.queue), ops) /\ s \in MirrorType
  <2>1. ops \in SUBSET Op
    BY DEF PresentIn
  <2> QED BY <2>1, CutKeeps DEF Core
<1>2. s.queue \in Seq(Op) /\ t.queue \in Seq(Op)
  BY <1>1 DEF MirrorType, IsKept, LeftOf
<1>3. \A p : (\E i \in DOMAIN t.queue : p = t.queue[i])
               <=> (p \notin ops /\ \E i \in DOMAIN s.queue : p = s.queue[i])
  <2>1. DOMAIN s.queue = 1..Len(s.queue) /\ IsKept(t.queue, s.queue, Len(s.queue), ops)
    BY <1>1, <1>2 DEF LeftOf
  <2>2. ASSUME NEW i \in DOMAIN t.queue
        PROVE  t.queue[i] \notin ops /\ \E j \in DOMAIN s.queue : t.queue[i] = s.queue[j]
    BY <2>1 DEF IsKept
  <2>3. ASSUME NEW j \in DOMAIN s.queue, s.queue[j] \notin ops
        PROVE  \E i \in DOMAIN t.queue : s.queue[j] = t.queue[i]
    BY <2>1, <2>3 DEF IsKept
  <2> QED  BY <2>2, <2>3
<1>4. s.fl.present => s.fl.op \in PresentIn(kd, s) /\ EditIn(kd, s.fl.op)
  <2>1. s.fl.op \in Ops
    BY <1>1 DEF MirrorType, SlotType
  <2> QED  BY <2>1 DEF Core, SlotOK, PresentIn, EditIn, Ops
<1>5. \A i \in DOMAIN s.queue : s.queue[i] # s.fl.op
  <2>1. \A i \in DOMAIN s.queue : s.fl.op < s.queue[i] /\ s.queue[i] \in Nat
    BY <1>2, QueueIs DEF Core, InOrder
  <2>2. s.fl.op \in Nat
    BY <1>1, OpIs DEF MirrorType, SlotType, Ops, NoOp
  <2> QED  BY <2>1, <2>2
<1>6. PresentIn(kd, t) = PresentIn(kd, s) \ ops
  <2>1. CASE s.fl.present /\ s.fl.op \in ops
    BY <1>3, <2>1 DEF PresentIn, LeftOf
  <2>2. CASE ~(s.fl.present /\ s.fl.op \in ops)
    BY <1>3, <1>5, <2>2 DEF PresentIn, LeftOf
  <2> QED  BY <2>1, <2>2
<1>7. ASSUME s.phase # "snapshot" PROVE t.view = With(TextIn(lg, t.rev), PresentIn(kd, t))
  <2>1. s.view = With(TextIn(lg, s.rev), PresentIn(kd, s)) /\ s.rev \in Nat
    BY <1>1, <1>7 DEF ViewOK, MirrorType
  <2>2. TextIn(lg, s.rev) \in TextType
    BY <2>1, TextIs
  <2> QED  BY <1>6, <2>1, <2>2, WithWithout DEF LeftOf
<1> QED  BY <1>6, <1>7 DEF ViewOK, LeftOf

\* clear_slot: the fields.
LEMMA FreeSlotFields ==
  ASSUME NEW s \in MirrorType
  PROVE  /\ FreeSlot(s) \in MirrorType
         /\ FreeSlot(s).fl = NoFlight /\ FreeSlot(s).fl.present = FALSE /\ FreeSlot(s).fl.op = NoOp
         /\ FreeSlot(s).view = s.view /\ FreeSlot(s).queue = s.queue
         /\ FreeSlot(s).asked = s.asked /\ FreeSlot(s).recon = s.recon
         /\ FreeSlot(s).buffered = s.buffered /\ SamePlace(s, FreeSlot(s))
<1>1. s \in MirrorType /\ FreeSlot(s) \in MirrorType /\ Unlisten(s) \in MirrorType
  BY FreeSlotIs, UnlistenType
<1>2. NoFlight.present = FALSE /\ NoFlight.op = NoOp
  BY DEF NoFlight
<1> QED  BY <1>1, <1>2 DEF FreeSlot, Unlisten, MirrorType, SamePlace

\* What Revert does to an edit in flight that is not waiting.
Doom(s) == [s EXCEPT !.fl.present = FALSE, !.fl.st = IF @ = "replied" THEN @ ELSE "doomed"]

\* t is s with its edit in flight doomed.
DoomedFrom(s, t) ==
  /\ t \in MirrorType
  /\ t.fl.op = s.fl.op /\ t.fl.at = s.fl.at /\ t.fl.present = FALSE /\ t.fl.st = "doomed"
  /\ t.phase = s.phase /\ t.rev = s.rev /\ t.asked = s.asked /\ t.queue = s.queue
  /\ t.waiting = s.waiting /\ t.req = s.req /\ t.late = s.late /\ t.base = s.base
  /\ t.recon = s.recon /\ t.reads = s.reads /\ t.due = s.due /\ t.paging = s.paging
  /\ t.buffered = s.buffered /\ t.view = s.view

\* An edit in flight is doomed: the fields.
LEMMA DoomIs ==
  ASSUME NEW s \in MirrorType, s.fl.st # "replied"
  PROVE  DoomedFrom(s, Doom(s))
<1> DEFINE t == Doom(s)
           f == [s.fl EXCEPT !.present = FALSE, !.st = "doomed"]
<1>1. s.fl \in SlotType
  BY DEF MirrorType
<1>2. f \in SlotType /\ f.op = s.fl.op /\ f.at = s.fl.at /\ f.present = FALSE /\ f.st = "doomed"
  BY <1>1 DEF SlotType
<1>3. t = [s EXCEPT !.fl = f]
  BY <1>1 DEF MirrorType, SlotType, Doom
<1> HIDE DEF f, t
<1>4. DoomedFrom(s, t)
  BY <1>2, <1>3 DEF MirrorType, DoomedFrom
<1> QED  BY <1>4 DEF t

\* The three ways revert_suffix ends.
LEMMA RevertIs ==
  ASSUME NEW s, NEW ops
  PROVE  /\ ~(s.fl.present /\ s.fl.op \in ops) => Revert(s, ops) = Cut(s, ops)
         /\ s.fl.present /\ s.fl.op \in ops /\ s.waiting => Revert(s, ops) = FreeSlot(Cut(s, ops))
         /\ s.fl.present /\ s.fl.op \in ops /\ ~s.waiting =>
              Revert(s, ops) = Doom(Cut(s, ops))
BY DEF Revert, Cut, Doom

\* The operation in the slot was asked for before those in the queue.
LEMMA PresentSlot ==
  ASSUME NEW kd, NEW lg, NEW s, Core(kd, lg, s)
  PROVE  /\ s.fl.present => s.fl.op \in PresentIn(kd, s) /\ s.fl.op \in Op
         /\ \A i \in DOMAIN s.queue : s.queue[i] \in Op /\ s.queue[i] # s.fl.op /\ s.fl.op < s.queue[i]
         /\ s.fl.op \in Nat
<1>1. s.fl.op \in Ops /\ s.queue \in Seq(Op)
  BY DEF Core, MirrorType, SlotType
<1>2. s.fl.op \in Nat
  BY <1>1, OpIs DEF Ops, NoOp
<1>3. \A i \in DOMAIN s.queue : s.queue[i] \in Op /\ s.queue[i] \in Nat /\ s.fl.op < s.queue[i]
  BY <1>1, QueueIs DEF Core, InOrder
<1>4. s.fl.present => s.fl.op \in Op
  BY <1>1 DEF Core, SlotOK, EditIn, Ops
<1> QED  BY <1>2, <1>3, <1>4 DEF PresentIn

\* An edit in flight is reverted only for an entry it overlaps.
LEMMA RevertKeeps ==
  ASSUME NEW kd, NEW lg, NEW s, Core(kd, lg, s), ViewOK(kd, lg, s),
         NEW ops \in SUBSET PresentIn(kd, s),
         s.fl.present /\ s.fl.op \in ops =>
           /\ s.fl.st # "replied"
           /\ \E k \in DOMAIN lg : k > s.base[s.fl.op] /\ s.fl.op \in lg[k].hits
  PROVE  /\ Core(kd, lg, Revert(s, ops)) /\ ViewOK(kd, lg, Revert(s, ops))
         /\ SamePlace(s, Revert(s, ops))
         /\ PresentIn(kd, Revert(s, ops)) = PresentIn(kd, s) \ ops
         /\ Revert(s, ops).fl.present => Revert(s, ops).fl = s.fl
         /\ Revert(s, ops).fl.op \in {s.fl.op, NoOp}
         /\ ~s.fl.present => Revert(s, ops).fl = s.fl
<1> DEFINE c == Cut(s, ops)
           r == Revert(s, ops)
<1>1. ops \in SUBSET Op /\ s \in MirrorType
  BY DEF PresentIn, Core
<1>2. Core(kd, lg, c) /\ CutFrom(s, ops, c) /\ c \in MirrorType
  BY <1>1, CutKeeps DEF CutFrom
<1>3. CASE ~(s.fl.present /\ s.fl.op \in ops)
  <2>1. r = c
    BY <1>3, RevertIs
  <2> HIDE DEF c, r
  <2>2. ViewOK(kd, lg, r) /\ PresentIn(kd, r) = PresentIn(kd, s) \ ops
    <3>1. LeftOf(s, ops, r)
      BY <1>2, <1>3, <2>1 DEF CutFrom, LeftOf
    <3> QED  BY <3>1, CutView
  <2>3. SamePlace(s, r) /\ r.fl = s.fl
    BY <1>2, <2>1 DEF CutFrom, SamePlace
  <2>4. Core(kd, lg, r)
    BY <1>2, <2>1
  <2> QED  BY <2>2, <2>3, <2>4 DEF r
<1>4. CASE s.fl.present /\ s.fl.op \in ops /\ s.waiting
  <2>1. r = FreeSlot(c)
    BY <1>4, RevertIs
  <2> HIDE DEF c, r
  <2>2. Core(kd, lg, r)
    BY <1>2, <2>1, FreeSlotKeeps
  <2>3. /\ r.fl.present = FALSE /\ r.fl.op = NoOp /\ r.view = c.view /\ r.queue = c.queue
        /\ SamePlace(c, r)
    BY <1>2, <2>1, FreeSlotFields
  <2>4. ViewOK(kd, lg, r) /\ PresentIn(kd, r) = PresentIn(kd, s) \ ops
    <3>1. LeftOf(s, ops, r)
      BY <1>2, <1>4, <2>3 DEF CutFrom, SamePlace, LeftOf
    <3> QED  BY <3>1, CutView
  <2>5. SamePlace(s, r)
    BY <1>2, <2>3 DEF CutFrom, SamePlace
  <2> QED  BY <1>4, <2>2, <2>3, <2>4, <2>5 DEF r
<1>5. CASE s.fl.present /\ s.fl.op \in ops /\ ~s.waiting
  <2>1. r = Doom(c)
    BY <1>5, RevertIs
  <2> HIDE DEF c, r
  <2>2. c.fl = s.fl /\ s.fl.st # "replied"
    BY <1>2, <1>5 DEF CutFrom
  <2>3. /\ r \in MirrorType
        /\ r.fl.op = c.fl.op /\ r.fl.at = c.fl.at /\ r.fl.present = FALSE /\ r.fl.st = "doomed"
        /\ r.phase = c.phase /\ r.rev = c.rev /\ r.asked = c.asked /\ r.queue = c.queue
        /\ r.waiting = c.waiting /\ r.req = c.req /\ r.late = c.late /\ r.base = c.base
        /\ r.recon = c.recon /\ r.reads = c.reads /\ r.due = c.due /\ r.paging = c.paging
        /\ r.buffered = c.buffered /\ r.view = c.view
    BY <1>2, <2>1, <2>2, DoomIs DEF DoomedFrom
  <2>4. ViewOK(kd, lg, r) /\ PresentIn(kd, r) = PresentIn(kd, s) \ ops
    <3>1. LeftOf(s, ops, r)
      BY <1>2, <1>5, <2>3 DEF CutFrom, LeftOf
    <3> QED  BY <3>1, CutView
  <2>5. SamePlace(s, r)
    BY <1>2, <2>3 DEF CutFrom, SamePlace
  <2>6. Within(lg, r) /\ InOrder(kd, r) /\ UnsentOK(lg, r) /\ HitsOK(lg, r.base)
    BY <1>2, <2>3 DEF Core, Within, InOrder, UnsentOK, Unsent, HitsOK
  <2>7. EditIn(kd, s.fl.op) /\ s.fl.op # NoOp
    BY <1>5 DEF Core, SlotOK, EditIn
  <2>8. RequestOK(lg, r)
    BY <1>2, <1>5, <2>2, <2>3, <2>7 DEF Core, CutFrom, RequestOK
  <2>9. SlotOK(kd, lg, r)
    BY <1>2, <1>5, <2>2, <2>3, <2>7 DEF CutFrom, SlotOK
  <2>10. PagedOK(kd, r)
    BY <1>2, <2>2, <2>3, <2>7 DEF Core, PagedOK
  <2>11. Core(kd, lg, r)
    BY <2>3, <2>6, <2>8, <2>9, <2>10 DEF Core
  <2> QED  BY <1>5, <2>2, <2>3, <2>4, <2>5, <2>11 DEF r
<1> QED  BY <1>3, <1>4, <1>5

\* PresentOps as the invariant says it.
LEMMA QueuedIs ==
  ASSUME NEW kd, NEW lg, NEW s, Core(kd, lg, s), kd = plan.kinds
  PROVE  /\ QueuedEdits(s) \in SUBSET Op /\ s.fl.op \notin QueuedEdits(s)
         /\ \A p : p \in QueuedEdits(s) <=> EditIn(kd, p) /\ \E i \in DOMAIN s.queue : p = s.queue[i]
         /\ PresentOps(s) = PresentIn(kd, s)
         /\ \A p : IsEdit(p) <=> EditIn(kd, p)
<1>1. \A p : IsEdit(p) <=> EditIn(kd, p)
  BY DEF IsEdit, EditIn, NoOp
<1>2. \A p : p \in QueuedEdits(s) <=> EditIn(kd, p) /\ \E i \in DOMAIN s.queue : p = s.queue[i]
  BY <1>1 DEF QueuedEdits, ToSet
<1>3. QueuedEdits(s) \in SUBSET Op /\ s.fl.op \notin QueuedEdits(s)
  BY <1>2, PresentSlot
<1>4. PresentOps(s) = PresentIn(kd, s)
  BY <1>2, <1>3, PresentSlot DEF PresentOps, PresentIn
<1> QED  BY <1>1, <1>2, <1>3, <1>4

-----------------------------------------------------------------------------
(* Snapshots and recoveries *)

\* What is the same in every state: the log is one, and the kinds are kinds of operations.
Setting == log \in Seq(Entry) /\ plan.kinds \in Seq(Kinds) /\ DOMAIN plan.kinds \subseteq Op

\* Core in the state at hand.
CoreNow(s) == Core(plan.kinds, log, s)
\* Good in the state at hand.
GoodNow(s) == Good(plan.kinds, log, s)

\* What an entry of the log is.
LEMMA LogIs ==
  ASSUME Setting
  PROVE  /\ Len(log) \in Nat /\ DOMAIN log = 1..Len(log)
         /\ \A r \in DOMAIN log : log[r].op \in Ops /\ log[r].hits \in SUBSET Op
                                   /\ log[r].big \in BOOLEAN /\ log[r].elided \in BOOLEAN
<1>1. Len(log) \in Nat /\ DOMAIN log = 1..Len(log) /\ \A r \in DOMAIN log : log[r] \in Entry
  BY DEF Setting
<1> QED  BY <1>1 DEF Entry, Ops

\* A snapshot is asked for.
AskPage(s) == [s EXCEPT !.due = FALSE, !.paging = TRUE]

\* The first page of a snapshot is asked for.
LEMMA AskPageKeeps ==
  ASSUME NEW kd, NEW lg, NEW s, Core(kd, lg, s), s.phase = "snapshot",
         \A i \in DOMAIN s.queue : ~EditIn(kd, s.queue[i]),
         EditIn(kd, s.fl.op) => s.fl.st = "replied"
  PROVE  Core(kd, lg, AskPage(s)) /\ AskPage(s).phase = s.phase /\ AskPage(s).rev = s.rev
<1> DEFINE t == AskPage(s)
<1>1. /\ t \in MirrorType
      /\ t.phase = s.phase /\ t.rev = s.rev /\ t.asked = s.asked /\ t.fl = s.fl /\ t.queue = s.queue
      /\ t.waiting = s.waiting /\ t.req = s.req /\ t.late = s.late /\ t.base = s.base
      /\ t.recon = s.recon /\ t.reads = s.reads /\ t.due = FALSE /\ t.paging = TRUE
      /\ t.buffered = s.buffered
  BY DEF Core, MirrorType, AskPage
<1> HIDE DEF t
<1>2. Within(lg, t) /\ InOrder(kd, t) /\ UnsentOK(lg, t) /\ HitsOK(lg, t.base)
  BY <1>1 DEF Core, Within, InOrder, UnsentOK, Unsent, HitsOK
<1>3. RequestOK(lg, t) /\ SlotOK(kd, lg, t)
  BY <1>1 DEF Core, RequestOK, SlotOK
<1>4. PagedOK(kd, t)
  BY <1>1 DEF PagedOK
<1>5. Core(kd, lg, t)
  BY <1>1, <1>2, <1>3, <1>4 DEF Core
<1> QED  BY <1>1, <1>5 DEF t

\* try_snapshot.
LEMMA TrySnapshotKeeps ==
  ASSUME Setting, NEW s, GoodNow(s)
  PROVE  GoodNow(TrySnapshot(s)) /\ TrySnapshot(s).phase = s.phase /\ TrySnapshot(s).rev = s.rev
<1> DEFINE kd == plan.kinds
           open == IsEdit(s.fl.op) /\ s.fl.st # "replied"
<1>1. Core(kd, log, s) /\ ViewOK(kd, log, s) /\ s \in MirrorType /\ Len(log) \in Nat
  BY LogIs DEF GoodNow, Good, Core
<1>2. CASE ~s.due \/ s.paging
  BY <1>2 DEF TrySnapshot
<1>3. CASE s.due /\ ~s.paging /\ open
  <2>1. CASE s.fl.st = "uncertain" /\ s.recon = NoRecon
    <3>1. TrySnapshot(s) = StartRecon(s)
      BY <1>3, <2>1 DEF TrySnapshot
    <3>2. s.req.st = "none" /\ ~s.waiting
      BY <1>1, <2>1 DEF Core, RequestOK
    <3>3. Core(kd, log, StartRecon(s)) /\ SameView(s, StartRecon(s)) /\ SamePlace(s, StartRecon(s))
      BY <1>1, <2>1, <3>2, StartReconKeeps
    <3>4. ViewOK(kd, log, StartRecon(s))
      BY <1>1, <3>3, SameViewKeeps
    <3> QED  BY <3>1, <3>3, <3>4 DEF GoodNow, Good, SamePlace
  <2>2. CASE ~(s.fl.st = "uncertain" /\ s.recon = NoRecon)
    BY <1>3, <2>2 DEF TrySnapshot
  <2> QED  BY <2>1, <2>2
<1>4. CASE s.due /\ ~s.paging /\ ~open
  <2> DEFINE ops == QueuedEdits(s)
             w == Cut(s, ops)
             y == AskPage(w)
  <2>1. /\ ops \in SUBSET Op /\ s.fl.op \notin ops
        /\ \A p : p \in ops <=> EditIn(kd, p) /\ \E i \in DOMAIN s.queue : p = s.queue[i]
        /\ \A p : IsEdit(p) <=> EditIn(kd, p)
    BY <1>1, QueuedIs
  <2>2. TrySnapshot(s) = Read(y, "page", 0)
    <3>1. Revert(s, QueuedEdits(s)) = w
      BY <2>1, RevertIs
    <3>2. TrySnapshot(s) = Read(AskPage(Revert(s, QueuedEdits(s))), "page", 0)
      BY <1>4 DEF TrySnapshot, AskPage
    <3> QED  BY <3>1, <3>2
  <2>3. s.phase = "snapshot"
    BY <1>1, <1>4 DEF Core, PagedOK
  <2> HIDE DEF ops
  <2>4. Core(kd, log, w) /\ CutFrom(s, ops, w) /\ IsKept(w.queue, s.queue, Len(s.queue), ops)
    BY <1>1, <2>1, CutKeeps DEF CutFrom
  <2> HIDE DEF w
  <2>5. \A i \in DOMAIN w.queue : ~EditIn(kd, w.queue[i])
    <3>1. s.queue \in Seq(Op)
      BY <1>1 DEF MirrorType
    <3>2. ASSUME NEW i \in DOMAIN w.queue PROVE w.queue[i] \notin ops /\ \E j \in DOMAIN s.queue : w.queue[i] = s.queue[j]
      BY <2>4, <3>1 DEF IsKept
    <3> QED  BY <2>1, <3>2
  <2>6. EditIn(kd, w.fl.op) => w.fl.st = "replied"
    BY <1>4, <2>1, <2>4 DEF CutFrom
  <2>7. Core(kd, log, y) /\ y.phase = "snapshot" /\ y.rev = s.rev
    BY <2>3, <2>4, <2>5, <2>6, AskPageKeeps DEF CutFrom
  <2> HIDE DEF y
  <2>8. Core(kd, log, Read(y, "page", 0)) /\ SamePlace(y, Read(y, "page", 0))
    BY <1>1, <2>7, ReadKeeps
  <2> QED  BY <2>2, <2>3, <2>7, <2>8 DEF GoodNow, Good, ViewOK, SamePlace
<1> QED  BY <1>1, <1>2, <1>3, <1>4

\* What snapshot_fallback does before it tries to page.
FallBack(s, detach) ==
  [s EXCEPT !.copy = @ \/ detach,
            !.handed = IF detach /\ ~s.copy THEN @ \cup {p \in Op : s.view.own[p] > 0} ELSE @,
            !.buffered = IF s.phase = "live" THEN <<>> ELSE @,
            !.phase = "snapshot",
            !.reads = {x \in @ : x.kind # "recover"},
            !.due = TRUE]

\* snapshot_fallback needs no exact view: the snapshot replaces it.
LEMMA SnapshotFallbackKeeps ==
  ASSUME Setting, NEW s, CoreNow(s), ~s.paging, NEW detach \in BOOLEAN
  PROVE  /\ GoodNow(SnapshotFallback(s, detach))
         /\ SnapshotFallback(s, detach).phase = "snapshot" /\ SnapshotFallback(s, detach).rev = s.rev
<1> DEFINE kd == plan.kinds
           t == FallBack(s, detach)
           c == s.copy \/ detach
           h == IF detach /\ ~s.copy THEN s.handed \cup {p \in Op : s.view.own[p] > 0} ELSE s.handed
           b == IF s.phase = "live" THEN <<>> ELSE s.buffered
           r == {x \in s.reads : x.kind # "recover"}
<1>1. s \in MirrorType /\ Core(kd, log, s)
  BY DEF CoreNow, Core
<1>2. c \in BOOLEAN /\ h \in SUBSET Op /\ b \in Seq(Nat) /\ r \in SUBSET ReadType
  BY <1>1 DEF MirrorType
<1>3. t = [s EXCEPT !.copy = c, !.handed = h, !.buffered = b, !.phase = "snapshot", !.reads = r, !.due = TRUE]
  BY DEF FallBack
<1>4. SnapshotFallback(s, detach) = TrySnapshot(t)
  BY DEF SnapshotFallback, FallBack
<1>5. \A i \in DOMAIN b : b[i] \in 1..Len(log)
  BY <1>1 DEF Core, Within
<1>6. \A x \in r : x \in s.reads
  OBVIOUS
<1> HIDE DEF c, h, b, r, t
<1>7. /\ t \in MirrorType
      /\ t.phase = "snapshot" /\ t.rev = s.rev /\ t.asked = s.asked /\ t.fl = s.fl /\ t.queue = s.queue
      /\ t.waiting = s.waiting /\ t.req = s.req /\ t.late = s.late /\ t.base = s.base
      /\ t.recon = s.recon /\ t.reads = r /\ t.due = TRUE /\ t.paging = s.paging
      /\ t.buffered = b
  BY <1>1, <1>2, <1>3 DEF MirrorType
<1>8. Within(log, t)
  BY <1>1, <1>5, <1>6, <1>7 DEF Core, Within
<1>9. InOrder(kd, t) /\ UnsentOK(log, t) /\ HitsOK(log, t.base)
  BY <1>1, <1>7 DEF Core, InOrder, UnsentOK, Unsent, HitsOK
<1>10. RequestOK(log, t) /\ SlotOK(kd, log, t)
  BY <1>1, <1>7 DEF Core, RequestOK, SlotOK
<1>11. PagedOK(kd, t)
  BY <1>7 DEF PagedOK
<1>12. GoodNow(t)
  BY <1>7, <1>8, <1>9, <1>10, <1>11 DEF GoodNow, Good, Core, ViewOK
<1> QED  BY <1>4, <1>7, <1>12, TrySnapshotKeeps

\* A recovery is opened, or noted for later.
LEMMA SuspectKeeps ==
  ASSUME Setting, NEW s, GoodNow(s)
  PROVE  /\ GoodNow(Suspect(s)) /\ Suspect(s).rev = s.rev
         /\ s.phase = "live" => Suspect(s).phase = "history"
         /\ s.phase # "live" => Suspect(s).phase = s.phase
<1> DEFINE kd == plan.kinds
<1>1. s \in MirrorType /\ Core(kd, log, s) /\ ViewOK(kd, log, s) /\ Len(log) \in Nat
  BY LogIs DEF GoodNow, Good, Core
<1>2. CASE s.phase # "live"
  <2> DEFINE t == [s EXCEPT !.resuspect = TRUE]
  <2>1. Alike(s, t) /\ SameView(s, t)
    BY <1>1 DEF MirrorType, Alike, SameView
  <2>2. Suspect(s) = t
    BY <1>2 DEF Suspect
  <2> HIDE DEF t
  <2>3. Core(kd, log, t) /\ ViewOK(kd, log, t)
    BY <1>1, <2>1, AlikeKeeps, SameViewKeeps
  <2> QED  BY <1>2, <2>1, <2>2, <2>3 DEF GoodNow, Good, Alike
<1>3. CASE s.phase = "live"
  <2> DEFINE e == <<>>
             t == [s EXCEPT !.phase = "history", !.buffered = e]
  <2>0. e \in Seq(Nat) /\ DOMAIN e = {}
    OBVIOUS
  <2>1. Suspect(s) = Read(t, "recover", s.rev) /\ s.rev \in Nat
    BY <1>1, <1>3 DEF Suspect, MirrorType
  <2>2. /\ t \in MirrorType
        /\ t.phase = "history" /\ t.rev = s.rev /\ t.asked = s.asked /\ t.fl = s.fl /\ t.queue = s.queue
        /\ t.waiting = s.waiting /\ t.req = s.req /\ t.late = s.late /\ t.base = s.base
        /\ t.recon = s.recon /\ t.reads = s.reads /\ t.due = s.due /\ t.paging = s.paging
        /\ t.buffered = e /\ t.view = s.view
    <3> HIDE DEF e
    <3> QED  BY <1>1, <2>0 DEF MirrorType
  <2> HIDE DEF t, e
  <2>3. Within(log, t)
    BY <1>1, <2>0, <2>2 DEF Core, Within
  <2>4. InOrder(kd, t) /\ UnsentOK(log, t) /\ HitsOK(log, t.base)
    BY <1>1, <2>2 DEF Core, InOrder, UnsentOK, Unsent, HitsOK
  <2>5. RequestOK(log, t) /\ SlotOK(kd, log, t)
    BY <1>1, <2>2 DEF Core, RequestOK, SlotOK
  <2>6. PagedOK(kd, t)
    BY <1>1, <1>3, <2>2 DEF Core, PagedOK
  <2>7. Core(kd, log, t)
    BY <2>2, <2>3, <2>4, <2>5, <2>6 DEF Core
  <2>8. ViewOK(kd, log, t)
    BY <1>1, <1>3, <2>2 DEF ViewOK, PresentIn
  <2>9. /\ Core(kd, log, Read(t, "recover", s.rev)) /\ SameView(t, Read(t, "recover", s.rev))
        /\ SamePlace(t, Read(t, "recover", s.rev))
    BY <1>1, <2>1, <2>7, ReadKeeps
  <2>10. ViewOK(kd, log, Read(t, "recover", s.rev))
    BY <2>8, <2>9, SameViewKeeps
  <2> QED  BY <1>3, <2>1, <2>2, <2>9, <2>10 DEF GoodNow, Good, SamePlace
<1> QED  BY <1>2, <1>3

\* A slot whose edit is not in the view may be freed.
LEMMA FreeUnseen ==
  ASSUME NEW kd, NEW lg, NEW s, Good(kd, lg, s), ~s.fl.present
  PROVE  /\ Good(kd, lg, FreeSlot(s)) /\ SamePlace(s, FreeSlot(s))
         /\ FreeSlot(s).fl.op = NoOp /\ FreeSlot(s).queue = s.queue
<1>1. s \in MirrorType
  BY DEF Good, Core
<1>2. /\ FreeSlot(s).fl.present = FALSE /\ FreeSlot(s).view = s.view /\ FreeSlot(s).queue = s.queue
      /\ SamePlace(s, FreeSlot(s)) /\ FreeSlot(s).fl.op = NoOp
  BY <1>1, FreeSlotFields
<1>3. Core(kd, lg, FreeSlot(s))
  BY FreeSlotKeeps DEF Good
<1> DEFINE t == FreeSlot(s)
<1> HIDE DEF t
<1>4. ViewOK(kd, lg, t)
  <2>1. PresentIn(kd, t) = PresentIn(kd, s)
    BY <1>2 DEF PresentIn, t
  <2> QED  BY <1>2, <2>1 DEF Good, ViewOK, SamePlace, t
<1> QED  BY <1>2, <1>3, <1>4 DEF Good, t

\* check_barrier.
LEMMA BarrierKeeps ==
  ASSUME NEW s, GoodNow(s)
  PROVE  /\ GoodNow(Barrier(s)) /\ SamePlace(s, Barrier(s)) /\ Barrier(s).queue = s.queue
         /\ Barrier(s).fl \in {s.fl, NoFlight}
<1>1. CASE s.fl.op # NoOp /\ ~IsEdit(s.fl.op) /\ s.fl.st = "replied" /\ s.rev >= s.fl.at
  <2>1. ~s.fl.present
    BY <1>1 DEF GoodNow, Good, Core, SlotOK, EditIn, IsEdit, NoOp
  <2>2. s \in MirrorType
    BY DEF GoodNow, Good, Core
  <2> QED  BY <1>1, <2>1, <2>2, FreeUnseen, FreeSlotFields DEF GoodNow, Barrier
<1>2. CASE ~(s.fl.op # NoOp /\ ~IsEdit(s.fl.op) /\ s.fl.st = "replied" /\ s.rev >= s.fl.at)
  BY <1>2 DEF Barrier, SamePlace
<1> QED  BY <1>1, <1>2

-----------------------------------------------------------------------------
(* Folding an entry *)

\* The mirror takes over a remote entry.
Advance(s, r) == [s EXCEPT !.view = WithEntry(@, r), !.rev = r]

\* The entry reaches the text and rev moves on.
LEMMA AdvanceKeeps ==
  ASSUME Setting, NEW s, GoodNow(s), s.phase # "snapshot", NEW r \in DOMAIN log, r = s.rev + 1,
         s.fl.present => log[r].op # s.fl.op
  PROVE  /\ GoodNow(Advance(s, r)) /\ Advance(s, r).rev = r /\ Advance(s, r).fl = s.fl
         /\ Advance(s, r).phase = s.phase /\ Advance(s, r).due = s.due /\ Advance(s, r).paging = s.paging
<1> DEFINE kd == plan.kinds
           t == Advance(s, r)
           v == WithEntry(s.view, r)
<1>1. s \in MirrorType /\ Core(kd, log, s) /\ s.rev \in Nat /\ r \in Nat /\ r <= Len(log)
      /\ s.view \in TextType /\ log[r].op \in Ops /\ Len(log) \in Nat
  BY LogIs DEF GoodNow, Good, Core, MirrorType
<1>2. v \in TextType
  BY <1>1, WithEntryIs
<1>3. t = [s EXCEPT !.view = v, !.rev = r]
  BY DEF Advance
<1>4. v = With(TextIn(log, r), PresentIn(kd, s))
  <2>1. s.view = With(TextIn(log, s.rev), PresentIn(kd, s))
    BY DEF GoodNow, Good, ViewOK
  <2> QED  BY <1>1, <2>1, NextText
<1> HIDE DEF t, v
<1>5. /\ t \in MirrorType /\ t.view = v
      /\ t.phase = s.phase /\ t.rev = r /\ t.asked = s.asked /\ t.fl = s.fl /\ t.queue = s.queue
      /\ t.waiting = s.waiting /\ t.req = s.req /\ t.late = s.late /\ t.base = s.base
      /\ t.recon = s.recon /\ t.reads = s.reads /\ t.due = s.due /\ t.paging = s.paging
      /\ t.buffered = s.buffered
  BY <1>1, <1>2, <1>3 DEF MirrorType
<1>6. Within(log, t) /\ InOrder(kd, t) /\ UnsentOK(log, t)
  BY <1>1, <1>5 DEF Core, Within, InOrder, UnsentOK, Unsent
<1>7. RequestOK(log, t) /\ PagedOK(kd, t) /\ HitsOK(log, t.base)
  BY <1>1, <1>5 DEF Core, RequestOK, PagedOK, HitsOK
<1>8. SlotOK(kd, log, t)
  <2>1. ASSUME s.fl.present
        PROVE  /\ EditIn(kd, s.fl.op) /\ s.fl.st # "doomed" /\ s.base[s.fl.op] <= r
               /\ \A k \in 1..r : log[k].op # s.fl.op
    <3>1. /\ EditIn(kd, s.fl.op) /\ s.fl.st # "doomed" /\ s.base[s.fl.op] <= s.rev
          /\ \A k \in 1..s.rev : log[k].op # s.fl.op
      BY <1>1, <2>1 DEF Core, SlotOK
    <3>2. s.fl.op \in Op /\ s.base[s.fl.op] \in Nat
      BY <1>1, <2>1, PresentSlot DEF MirrorType
    <3>3. \A k \in 1..r : k \in 1..s.rev \/ k = r
      BY <1>1
    <3> QED  BY <1>1, <2>1, <3>1, <3>2, <3>3
  <2> QED  BY <1>1, <1>5, <2>1 DEF Core, SlotOK
<1>9. ViewOK(kd, log, t)
  <2>1. PresentIn(kd, t) = PresentIn(kd, s)
    BY <1>5 DEF PresentIn
  <2> QED  BY <1>4, <1>5, <2>1 DEF ViewOK
<1>10. GoodNow(t)
  BY <1>5, <1>6, <1>7, <1>8, <1>9 DEF GoodNow, Good, Core
<1> QED  BY <1>5, <1>10 DEF t

\* The next entry reverts an edit in flight only if they overlap, and then the daemon has
\* not replied to the edit.
LEMMA HitIs ==
  ASSUME Setting, NEW s, CoreNow(s), NEW r \in DOMAIN log, r = s.rev + 1
  PROVE  /\ Hit(s, r) \in SUBSET PresentIn(plan.kinds, s)
         /\ s.fl.present /\ s.fl.op \in Hit(s, r) =>
              /\ s.fl.st # "replied"
              /\ \E k \in DOMAIN log : k > s.base[s.fl.op] /\ s.fl.op \in log[k].hits
<1> DEFINE kd == plan.kinds
<1>1. Core(kd, log, s) /\ PresentOps(s) = PresentIn(kd, s) /\ s \in MirrorType
  BY QueuedIs DEF CoreNow, Core
<1>2. Hit(s, r) \in SUBSET PresentIn(kd, s)
  BY <1>1 DEF Hit
<1>3. ASSUME s.fl.present, s.fl.op \in Hit(s, r)
      PROVE  /\ s.fl.st # "replied"
             /\ \E k \in DOMAIN log : k > s.base[s.fl.op] /\ s.fl.op \in log[k].hits
  <2>1. PICK q \in PresentIn(kd, s) : q \in log[r].hits /\ q <= s.fl.op
    BY <1>1, <1>3 DEF Hit
  <2>2. /\ s.fl.op \in Op /\ s.fl.op \in Nat
        /\ \A i \in DOMAIN s.queue : s.queue[i] \in Op /\ s.fl.op < s.queue[i]
    BY <1>1, <1>3, PresentSlot
  <2>3. q = s.fl.op
    BY <2>1, <2>2, OpIs DEF PresentIn
  <2>4. s.base[s.fl.op] <= s.rev /\ s.base[s.fl.op] \in Nat /\ s.rev \in Nat
    BY <1>1, <1>3, <2>2 DEF Core, SlotOK, MirrorType
  <2>5. r > s.base[s.fl.op]
    BY <2>4
  <2>6. s.fl.st # "replied"
    <3> SUFFICES ASSUME s.fl.st = "replied" PROVE FALSE
      OBVIOUS
    <3>1. s.fl.at \in DOMAIN log /\ log[s.fl.at].op \in log[r].hits /\ log[s.fl.at].op = s.fl.op
      BY <1>1, <2>1, <2>3 DEF Core, RequestOK
    <3>2. r <= s.base[s.fl.op]
      BY <1>1, <3>1 DEF Core, HitsOK
    <3> QED  BY <2>4, <2>5, <3>2
  <2> QED  BY <2>1, <2>3, <2>5, <2>6
<1> QED  BY <1>2, <1>3

\* fold_remote never finds that the daemon accepted what it reverts.
LEMMA FoldRemoteKeeps ==
  ASSUME Setting, NEW s, GoodNow(s), s.phase # "snapshot", NEW r \in DOMAIN log, r = s.rev + 1,
         s.fl.present => log[r].op # s.fl.op
  PROVE  /\ GoodNow(FoldRemote(s, r)) /\ FoldRemote(s, r).rev = r /\ FoldRemote(s, r).phase = s.phase
         /\ FoldRemote(s, r).due = s.due /\ FoldRemote(s, r).paging = s.paging
         /\ ~s.fl.present => FoldRemote(s, r).fl = s.fl
<1> DEFINE kd == plan.kinds
           t == IF Hit(s, r) = {} THEN s ELSE Revert(s, Hit(s, r))
<1>1. Core(kd, log, s) /\ ViewOK(kd, log, s) /\ CoreNow(s)
  BY DEF GoodNow, Good, CoreNow
<1>2. /\ Hit(s, r) \in SUBSET PresentIn(kd, s)
      /\ s.fl.present /\ s.fl.op \in Hit(s, r) =>
           /\ s.fl.st # "replied"
           /\ \E k \in DOMAIN log : k > s.base[s.fl.op] /\ s.fl.op \in log[k].hits
  BY <1>1, HitIs
<1>3. FoldRemote(s, r) = Advance(t, r)
  BY <1>2 DEF FoldRemote, Advance
<1>4. /\ GoodNow(t) /\ SamePlace(s, t) /\ (t.fl.present => t.fl = s.fl)
      /\ (~s.fl.present => t.fl = s.fl)
  <2>1. CASE Hit(s, r) = {}
    BY <2>1 DEF SamePlace
  <2>2. CASE Hit(s, r) # {}
    BY <1>1, <1>2, <2>2, RevertKeeps DEF GoodNow, Good
  <2> QED  BY <2>1, <2>2
<1> HIDE DEF t
<1>5. /\ GoodNow(Advance(t, r)) /\ Advance(t, r).rev = r /\ Advance(t, r).fl = t.fl
      /\ Advance(t, r).phase = t.phase /\ Advance(t, r).due = t.due /\ Advance(t, r).paging = t.paging
  BY <1>4, AdvanceKeeps DEF SamePlace
<1> QED  BY <1>3, <1>4, <1>5 DEF SamePlace

\* t is s at rev r but for fields no invariant is about, and its view.
AlikeAt(s, t, r) ==
  /\ t \in MirrorType
  /\ t.phase = s.phase /\ t.rev = r /\ t.asked = s.asked /\ t.fl = s.fl /\ t.queue = s.queue
  /\ t.waiting = s.waiting /\ t.req = s.req /\ t.late = s.late /\ t.base = s.base
  /\ t.recon = s.recon /\ t.reads = s.reads /\ t.due = s.due /\ t.paging = s.paging
  /\ t.buffered = s.buffered

\* With no edit of the slot in the view, the rev may be any of the log.
LEMMA MovedKeeps ==
  ASSUME NEW kd, NEW lg, NEW s, Core(kd, lg, s), ~s.fl.present, NEW r \in Nat, r <= Len(lg),
         NEW t, AlikeAt(s, t, r)
  PROVE  Core(kd, lg, t)
<1>1. Within(lg, t) /\ InOrder(kd, t) /\ UnsentOK(lg, t)
  BY DEF Core, AlikeAt, Within, InOrder, UnsentOK, Unsent
<1>2. RequestOK(lg, t) /\ SlotOK(kd, lg, t)
  BY DEF Core, AlikeAt, RequestOK, SlotOK
<1>3. PagedOK(kd, t) /\ HitsOK(lg, t.base)
  BY DEF Core, AlikeAt, PagedOK, HitsOK
<1> QED  BY <1>1, <1>2, <1>3 DEF Core, AlikeAt

\* The slot is freed at rev r.
FreeAt(s, r) == FreeSlot([s EXCEPT !.rev = r])

\* The fields when an echo acknowledges.
LEMMA FreeAtIs ==
  ASSUME NEW s \in MirrorType, NEW r \in Nat
  PROVE  /\ AlikeAt(FreeSlot(s), FreeAt(s, r), r) /\ FreeAt(s, r).view = s.view
         /\ FreeAt(s, r).queue = s.queue /\ FreeAt(s, r).phase = s.phase
         /\ FreeAt(s, r).due = s.due /\ FreeAt(s, r).paging = s.paging
         /\ FreeAt(s, r).fl = NoFlight
<1> DEFINE u == [s EXCEPT !.rev = r]
           l == [p \in Op |-> IF s.req.st = "sent" /\ p = s.req.op THEN s.late[p] + 1 ELSE s.late[p]]
<1>1. u \in MirrorType /\ u.req = s.req /\ u.late = s.late
  BY DEF MirrorType
<1>2. FreeSlot(u) \in MirrorType /\ FreeSlot(s) \in MirrorType /\ l \in [Op -> Nat]
  <2>1. l \in [Op -> Nat]
    BY DEF MirrorType
  <2> HIDE DEF u, l
  <2> QED  BY <1>1, <2>1, FreeSlotIs
<1>3. FreeSlot(s) = [s EXCEPT !.req = NoReq, !.late = l, !.fl = NoFlight, !.retries = 0, !.waiting = FALSE, !.echo = FALSE]
  BY DEF FreeSlot, Unlisten
<1>4. FreeSlot(u) = [u EXCEPT !.req = NoReq, !.late = l, !.fl = NoFlight, !.retries = 0, !.waiting = FALSE, !.echo = FALSE]
  <2> HIDE DEF u
  <2> QED  BY <1>1 DEF FreeSlot, Unlisten
<1> HIDE DEF l
<1>5. FreeSlot(u) = [s EXCEPT !.rev = r, !.req = NoReq, !.late = l, !.fl = NoFlight, !.retries = 0, !.waiting = FALSE, !.echo = FALSE]
  BY <1>4 DEF MirrorType
<1> DEFINE v == FreeSlot(u)
           w == FreeSlot(s)
<1>6. /\ v.phase = s.phase /\ v.rev = r /\ v.asked = s.asked /\ v.fl = NoFlight /\ v.queue = s.queue
      /\ v.waiting = FALSE /\ v.req = NoReq /\ v.late = l /\ v.base = s.base
      /\ v.recon = s.recon /\ v.reads = s.reads /\ v.due = s.due /\ v.paging = s.paging
      /\ v.buffered = s.buffered /\ v.view = s.view
  BY <1>5 DEF MirrorType
<1>7. /\ w.phase = s.phase /\ w.asked = s.asked /\ w.fl = NoFlight /\ w.queue = s.queue
      /\ w.waiting = FALSE /\ w.req = NoReq /\ w.late = l /\ w.base = s.base
      /\ w.recon = s.recon /\ w.reads = s.reads /\ w.due = s.due /\ w.paging = s.paging
      /\ w.buffered = s.buffered
  BY <1>3 DEF MirrorType
<1> QED  BY <1>2, <1>6, <1>7 DEF FreeAt, AlikeAt

\* Our own echo: what was in the slot is in the text now.
LEMMA EchoKeeps ==
  ASSUME Setting, NEW s, GoodNow(s), s.phase # "snapshot", NEW r \in DOMAIN log, r = s.rev + 1,
         s.fl.present, log[r].op = s.fl.op
  PROVE  /\ GoodNow(FreeAt(s, r)) /\ FreeAt(s, r).rev = r /\ FreeAt(s, r).phase = s.phase
         /\ FreeAt(s, r).due = s.due /\ FreeAt(s, r).paging = s.paging
<1> DEFINE kd == plan.kinds
           t == FreeAt(s, r)
<1>1. /\ Core(kd, log, s) /\ ViewOK(kd, log, s) /\ s \in MirrorType /\ Len(log) \in Nat
      /\ r \in Nat /\ r <= Len(log) /\ s.rev \in Nat
  BY LogIs DEF GoodNow, Good, Core, MirrorType
<1>2. /\ AlikeAt(FreeSlot(s), t, r) /\ t.view = s.view /\ t.queue = s.queue /\ t.phase = s.phase
      /\ t.due = s.due /\ t.paging = s.paging /\ t.fl = NoFlight
  BY <1>1, FreeAtIs
<1>3. Core(kd, log, FreeSlot(s)) /\ ~FreeSlot(s).fl.present
  BY <1>1, FreeSlotKeeps, FreeSlotFields
<1> HIDE DEF t
<1>4. Core(kd, log, t)
  BY <1>1, <1>2, <1>3, MovedKeeps
<1>5. s.fl.op \in PresentIn(kd, s) /\ s.fl.op \in Op /\ \A i \in DOMAIN s.queue : s.queue[i] # s.fl.op
  BY <1>1, PresentSlot
<1>6. PresentIn(kd, t) = PresentIn(kd, s) \ {s.fl.op}
  BY <1>2, <1>5 DEF PresentIn, NoFlight
<1>7. With(TextIn(log, s.rev), PresentIn(kd, s)) = With(TextIn(log, r), PresentIn(kd, s) \ {s.fl.op})
  BY <1>1, <1>5, EchoText
<1>8. ViewOK(kd, log, t)
  BY <1>1, <1>2, <1>6, <1>7 DEF ViewOK, AlikeAt
<1> QED  BY <1>2, <1>4, <1>8 DEF GoodNow, Good, AlikeAt, t

\* What the daemon has committed it had not refused: a doomed edit is not in the log.
LEMMA DoomedUncommitted ==
  ASSUME Setting, NEW s, CoreNow(s), s.fl.st = "doomed"
  PROVE  \A r \in DOMAIN log : log[r].op # s.fl.op
<1> SUFFICES ASSUME NEW r \in DOMAIN log, log[r].op = s.fl.op PROVE FALSE
  OBVIOUS
<1>1. PICK k \in DOMAIN log : k > s.base[s.fl.op] /\ s.fl.op \in log[k].hits
  BY DEF CoreNow, Core, SlotOK
<1>2. k <= s.base[s.fl.op]
  BY <1>1 DEF CoreNow, Core, HitsOK
<1>3. s.fl.op \in Op /\ s.base[s.fl.op] \in Nat /\ k \in Nat
  <2>1. s.fl.op \in Ops /\ s.fl.op # NoOp /\ s.base \in [Op -> Nat]
    BY DEF CoreNow, Core, SlotOK, EditIn, MirrorType, SlotType
  <2> QED  BY <2>1, LogIs DEF Ops
<1> QED  BY <1>1, <1>2, <1>3

\* fold_edit.  Its branch for a doomed edit is never taken: DoomedUncommitted.
LEMMA FoldEditKeeps ==
  ASSUME Setting, NEW s, GoodNow(s), s.phase # "snapshot", NEW r \in DOMAIN log, r = s.rev + 1
  PROVE  /\ GoodNow(FoldEdit(s, r)) /\ FoldEdit(s, r).rev = r /\ FoldEdit(s, r).phase = s.phase
         /\ FoldEdit(s, r).due = s.due /\ FoldEdit(s, r).paging = s.paging
<1> DEFINE own == IsEdit(s.fl.op) /\ s.fl.op = log[r].op
<1>1. CoreNow(s) /\ (s.fl.present => IsEdit(s.fl.op))
  BY DEF GoodNow, Good, CoreNow, Core, SlotOK, EditIn, IsEdit, NoOp
<1>2. ~(own /\ s.fl.st = "doomed")
  BY <1>1, DoomedUncommitted
<1>3. CASE own /\ s.fl.present
  <2>1. FoldEdit(s, r) = FreeAt(s, r)
    BY <1>2, <1>3 DEF FoldEdit, FreeAt
  <2> QED  BY <1>3, <2>1, EchoKeeps
<1>4. CASE own /\ ~s.fl.present
  <2>1. FoldEdit(s, r) = FreeSlot(FoldRemote(s, r))
    BY <1>2, <1>4 DEF FoldEdit
  <2> DEFINE t == FoldRemote(s, r)
  <2>2. GoodNow(t) /\ t.rev = r /\ t.phase = s.phase /\ t.due = s.due /\ t.paging = s.paging /\ t.fl = s.fl
    BY <1>4, FoldRemoteKeeps
  <2> HIDE DEF t
  <2>3. GoodNow(FreeSlot(t)) /\ SamePlace(t, FreeSlot(t))
    BY <1>4, <2>2, FreeUnseen DEF GoodNow
  <2> QED  BY <2>1, <2>2, <2>3 DEF SamePlace, t
<1>5. CASE ~own
  <2>1. FoldEdit(s, r) = Barrier(FoldRemote(s, r))
    BY <1>5 DEF FoldEdit
  <2> DEFINE t == FoldRemote(s, r)
  <2>2. GoodNow(t) /\ t.rev = r /\ t.phase = s.phase /\ t.due = s.due /\ t.paging = s.paging
    BY <1>1, <1>5, FoldRemoteKeeps
  <2> HIDE DEF t
  <2>3. GoodNow(Barrier(t)) /\ SamePlace(t, Barrier(t))
    BY <2>2, BarrierKeeps
  <2> QED  BY <2>1, <2>2, <2>3 DEF SamePlace, t
<1> QED  BY <1>3, <1>4, <1>5

-----------------------------------------------------------------------------
(* Events, the end of a recovery, fold_entries *)

\* Other events wait for the end of a recovery.
LEMMA BufferKeeps ==
  ASSUME Setting, NEW s, GoodNow(s), NEW b \in Seq(Nat), \A i \in DOMAIN b : b[i] \in 1..Len(log)
  PROVE  /\ GoodNow([s EXCEPT !.buffered = b]) /\ [s EXCEPT !.buffered = b].rev = s.rev
         /\ [s EXCEPT !.buffered = b].phase = s.phase
<1> DEFINE kd == plan.kinds
           t == [s EXCEPT !.buffered = b]
<1>1. s \in MirrorType /\ Core(kd, log, s) /\ ViewOK(kd, log, s)
  BY DEF GoodNow, Good, Core
<1>2. /\ t \in MirrorType /\ t.buffered = b
      /\ t.phase = s.phase /\ t.rev = s.rev /\ t.asked = s.asked /\ t.fl = s.fl /\ t.queue = s.queue
      /\ t.waiting = s.waiting /\ t.req = s.req /\ t.late = s.late /\ t.base = s.base
      /\ t.recon = s.recon /\ t.reads = s.reads /\ t.due = s.due /\ t.paging = s.paging
      /\ t.view = s.view
  BY <1>1 DEF MirrorType
<1> HIDE DEF t
<1>3. Within(log, t) /\ InOrder(kd, t) /\ UnsentOK(log, t)
  BY <1>1, <1>2 DEF Core, Within, InOrder, UnsentOK, Unsent
<1>4. RequestOK(log, t) /\ SlotOK(kd, log, t) /\ PagedOK(kd, t) /\ HitsOK(log, t.base)
  BY <1>1, <1>2 DEF Core, RequestOK, SlotOK, PagedOK, HitsOK
<1>5. ViewOK(kd, log, t)
  BY <1>1, <1>2, SameViewKeeps DEF SameView
<1> QED  BY <1>2, <1>3, <1>4, <1>5 DEF GoodNow, Good, Core, t

\* on_edit_event.
LEMMA OnEditKeeps ==
  ASSUME Setting, NEW s, GoodNow(s), NEW r \in DOMAIN log
  PROVE  GoodNow(OnEdit(s, r))
<1>1. r \in Nat /\ r \in 1..Len(log) /\ s.rev \in Nat /\ s.buffered \in Seq(Nat)
      /\ \A i \in DOMAIN s.buffered : s.buffered[i] \in 1..Len(log)
  BY LogIs DEF GoodNow, Good, Core, MirrorType, Within
<1>2. CASE s.phase # "live"
  <2> DEFINE b == Append(s.buffered, r)
  <2>1. b \in Seq(Nat) /\ \A i \in DOMAIN b : b[i] \in 1..Len(log)
    BY <1>1
  <2>2. OnEdit(s, r) = [s EXCEPT !.buffered = b]
    BY <1>2 DEF OnEdit
  <2> HIDE DEF b
  <2> QED  BY <2>1, <2>2, BufferKeeps
<1>3. CASE s.phase = "live" /\ r <= s.rev
  BY <1>3 DEF OnEdit
<1>4. CASE s.phase = "live" /\ ~(r <= s.rev) /\ r # s.rev + 1
  <2> DEFINE b == <<r>>
             t == Suspect(s)
  <2>1. b \in Seq(Nat) /\ \A i \in DOMAIN b : b[i] \in 1..Len(log)
    BY <1>1
  <2>2. OnEdit(s, r) = [t EXCEPT !.buffered = b]
    BY <1>4 DEF OnEdit
  <2>3. GoodNow(t)
    BY SuspectKeeps
  <2> HIDE DEF b, t
  <2> QED  BY <2>1, <2>2, <2>3, BufferKeeps
<1>5. CASE s.phase = "live" /\ ~(r <= s.rev) /\ r = s.rev + 1
  <2>1. OnEdit(s, r) = FoldEdit(s, r)
    BY <1>5 DEF OnEdit
  <2> QED  BY <1>5, <2>1, FoldEditKeeps
<1> QED  BY <1>2, <1>3, <1>4, <1>5

\* on_resync for an oversized event.
LEMMA OnOversizedKeeps ==
  ASSUME Setting, NEW s, GoodNow(s), NEW r \in DOMAIN log
  PROVE  GoodNow(OnOversized(s, r))
<1> DEFINE mine == /\ s.phase = "live" /\ s.rev + 1 = r
                   /\ IsEdit(s.fl.op) /\ s.fl.present /\ s.fl.st = "replied" /\ s.fl.at = r
<1>1. CASE s.phase = "live" /\ r <= s.rev
  BY <1>1 DEF OnOversized
<1>2. CASE ~(s.phase = "live" /\ r <= s.rev) /\ mine
  <2>1. OnOversized(s, r) = FreeAt(s, r)
    BY <1>2 DEF OnOversized, FreeAt
  <2>2. log[r].op = s.fl.op
    BY <1>2 DEF GoodNow, Good, Core, RequestOK
  <2>3. r = s.rev + 1 /\ s.phase # "snapshot" /\ s.fl.present
    BY <1>2
  <2> QED  BY <2>1, <2>2, <2>3, EchoKeeps
<1>3. CASE ~(s.phase = "live" /\ r <= s.rev) /\ ~mine
  <2>1. OnOversized(s, r) = Suspect(s)
    BY <1>3 DEF OnOversized
  <2> QED  BY <2>1, SuspectKeeps
<1> QED  BY <1>1, <1>2, <1>3

\* The events that waited, one after the other.
LEMMA OnEditsKeep ==
  ASSUME Setting, NEW s, GoodNow(s), NEW b \in Seq(Nat), \A i \in DOMAIN b : b[i] \in 1..Len(log)
  PROVE  GoodNow(FoldLeft(OnEdit, s, b))
<1>1. PICK it : Rounds(it, "edit", {}, s, b) /\ FoldLeft(OnEdit, s, b) = it[1..Len(b)]
  BY EditsFold
<1>2. Len(b) \in Nat /\ DOMAIN b = 1..Len(b) /\ DOMAIN log = 1..Len(log)
  BY LogIs
<1> DEFINE T == {n \in Nat : n <= Len(b) => GoodNow(it[1..n])}
<1>3. 0 \in T
  <2>1. 1..0 = {}
    OBVIOUS
  <2> QED  BY <1>1, <2>1 DEF Rounds
<1>4. ASSUME NEW n \in T PROVE n + 1 \in T
  <2> SUFFICES ASSUME n + 1 <= Len(b) PROVE GoodNow(it[1..(n + 1)])
    OBVIOUS
  <2>1. GoodNow(it[1..n]) /\ n \in 0..(Len(b) - 1) /\ n + 1 \in DOMAIN b
    BY <1>2
  <2>2. it[1..(n + 1)] = OnEdit(it[1..n], b[n + 1])
    BY <1>1, <2>1 DEF Rounds, Do
  <2>3. b[n + 1] \in DOMAIN log
    BY <1>2, <2>1
  <2> QED  BY <2>1, <2>2, <2>3, OnEditKeeps
<1>5. T = Nat
  <2> HIDE DEF T
  <2>1. T \in SUBSET Nat BY DEF T
  <2> QED  BY <1>3, <1>4, <2>1, Induction
<1> QED  BY <1>1, <1>2, <1>5

\* The mirror as a recovery ends, before it looks at the events that waited.
Live(s) == [s EXCEPT !.phase = "live", !.buffered = <<>>]

\* go_live: the buffered events are folded in.
LEMMA GoLiveKeeps ==
  ASSUME Setting, NEW s, GoodNow(Live(s)), s.buffered \in Seq(Nat),
         \A i \in DOMAIN s.buffered : s.buffered[i] \in 1..Len(log)
  PROVE  GoodNow(GoLive(s))
<1> DEFINE u == Barrier(Live(s))
           t == FoldLeft(OnEdit, u, s.buffered)
<1>1. GoLive(s) = IF t.phase = "live" /\ t.resuspect THEN Suspect([t EXCEPT !.resuspect = FALSE]) ELSE t
  BY DEF GoLive, Live
<1>2. GoodNow(u)
  BY BarrierKeeps
<1> HIDE DEF u
<1>3. GoodNow(t)
  BY <1>2, OnEditsKeep
<1> HIDE DEF t
<1> DEFINE v == [t EXCEPT !.resuspect = FALSE]
<1>4. t \in MirrorType /\ Core(plan.kinds, log, t) /\ ViewOK(plan.kinds, log, t)
  BY <1>3 DEF GoodNow, Good, Core
<1>5. Alike(t, v) /\ SameView(t, v)
  BY <1>4 DEF MirrorType, Alike, SameView
<1> HIDE DEF v
<1>6. GoodNow(v)
  BY <1>4, <1>5, AlikeKeeps, SameViewKeeps DEF GoodNow, Good
<1>7. GoodNow(Suspect(v))
  BY <1>6, SuspectKeeps
<1> QED  BY <1>1, <1>3, <1>7 DEF v

\* How far entries of a history have been folded.
Folded(s, a) ==
  /\ a = [s |-> a.s, ok |-> a.ok] /\ a.ok \in BOOLEAN
  /\ GoodNow(a.s) /\ a.s.phase = s.phase /\ a.s.due = s.due /\ a.s.paging = s.paging

\* One round of fold_entries.
LEMMA FoldEntryKeeps ==
  ASSUME Setting, NEW s, NEW a, Folded(s, a), NEW r \in DOMAIN log
  PROVE  Folded(s, FoldEntry(a, r))
<1> DEFINE u == a.s
<1>0. a = [s |-> u, ok |-> a.ok] /\ a.ok \in BOOLEAN
  BY DEF Folded
<1>1. CASE ~a.ok \/ a.s.due \/ a.s.paging \/ r <= a.s.rev
  BY <1>1 DEF FoldEntry
<1>2. CASE ~(~a.ok \/ a.s.due \/ a.s.paging \/ r <= a.s.rev) /\ (log[r].elided \/ r # a.s.rev + 1)
  <2>1. FoldEntry(a, r) = [s |-> u, ok |-> FALSE]
    BY <1>0, <1>2 DEF FoldEntry
  <2> QED  BY <2>1 DEF Folded
<1>3. CASE ~(~a.ok \/ a.s.due \/ a.s.paging \/ r <= a.s.rev) /\ ~(log[r].elided \/ r # a.s.rev + 1)
  <2>1. FoldEntry(a, r) = [s |-> FoldEdit(u, r), ok |-> a.ok]
    BY <1>0, <1>3 DEF FoldEntry
  <2>2. u.phase # "snapshot" /\ GoodNow(u) /\ r = u.rev + 1
    BY <1>3 DEF Folded, GoodNow, Good, Core, PagedOK
  <2>3. /\ GoodNow(FoldEdit(u, r)) /\ FoldEdit(u, r).phase = u.phase
        /\ FoldEdit(u, r).due = u.due /\ FoldEdit(u, r).paging = u.paging
    BY <2>2, FoldEditKeeps
  <2> QED  BY <1>0, <2>1, <2>3 DEF Folded
<1> QED  BY <1>1, <1>2, <1>3

\* fold_entries.
LEMMA FoldEntriesKeep ==
  ASSUME Setting, NEW s, GoodNow(s), NEW from \in Nat, NEW to \in Nat, to <= Len(log)
  PROVE  Folded(s, FoldEntries(s, from, to))
<1> DEFINE b == [s |-> s, ok |-> TRUE]
           q == [k \in 1..(to - from) |-> from + k]
<1>1. Len(log) \in Nat /\ DOMAIN log = 1..Len(log)
  BY LogIs
<1>2. q \in Seq(Nat) /\ Len(q) \in Nat /\ DOMAIN q = 1..Len(q) /\ \A k \in DOMAIN q : q[k] \in DOMAIN log
  <2> DEFINE n == IF from <= to THEN to - from ELSE 0
  <2>1. n \in Nat /\ 1..(to - from) = 1..n /\ \A k \in 1..n : from + k <= to /\ from + k \in Nat /\ from + k > 0
    OBVIOUS
  <2>2. q = [k \in 1..n |-> from + k]
    BY <2>1
  <2> HIDE DEF n
  <2>3. q \in Seq(Nat) /\ Len(q) = n
    <3> HIDE DEF q
    <3>1. \A k \in 1..n : from + k \in Nat
      BY <2>1
    <3> QED  BY <2>1, <2>2, <3>1, SeqDef, LenProperties
  <2>4. \A k \in DOMAIN q : q[k] \in DOMAIN log
    <3> HIDE DEF q
    <3>1. ASSUME NEW k \in 1..n PROVE from + k \in 1..Len(log)
      BY <1>1, <2>1
    <3> QED  BY <1>1, <2>2, <3>1
  <2> HIDE DEF q
  <2> QED  BY <2>1, <2>3, <2>4
<1>3. Folded(s, b)
  BY DEF Folded
<1>4. FoldEntries(s, from, to) = FoldLeft(FoldEntry, b, q)
  BY DEF FoldEntries
<1> HIDE DEF b, q
<1>5. PICK it : Rounds(it, "entry", {}, b, q) /\ FoldLeft(FoldEntry, b, q) = it[1..Len(q)]
  BY <1>2, EntriesFold
<1> DEFINE T == {n \in Nat : n <= Len(q) => Folded(s, it[1..n])}
<1>6. 0 \in T
  <2>1. 1..0 = {}
    OBVIOUS
  <2> QED  BY <1>3, <1>5, <2>1 DEF Rounds
<1>7. ASSUME NEW n \in T PROVE n + 1 \in T
  <2> SUFFICES ASSUME n + 1 <= Len(q) PROVE Folded(s, it[1..(n + 1)])
    OBVIOUS
  <2>1. Folded(s, it[1..n]) /\ n \in 0..(Len(q) - 1) /\ n + 1 \in DOMAIN q
    BY <1>2
  <2>2. it[1..(n + 1)] = FoldEntry(it[1..n], q[n + 1])
    BY <1>5, <2>1 DEF Rounds, Do
  <2>3. q[n + 1] \in DOMAIN log
    BY <1>2, <2>1
  <2> QED  BY <2>1, <2>2, <2>3, FoldEntryKeeps
<1>8. T = Nat
  <2> HIDE DEF T
  <2>1. T \in SUBSET Nat BY DEF T
  <2> QED  BY <1>6, <1>7, <2>1, Induction
<1> QED  BY <1>2, <1>4, <1>5, <1>8

-----------------------------------------------------------------------------
(* Answers to reads *)

\* A recovery by history ends.
LEMMA LiveKeeps ==
  ASSUME Setting, NEW s, GoodNow(s), s.phase # "snapshot"
  PROVE  GoodNow(Live(s))
<1> DEFINE kd == plan.kinds
           e == <<>>
           t == [s EXCEPT !.phase = "live", !.buffered = e]
<1>1. s \in MirrorType /\ Core(kd, log, s) /\ ViewOK(kd, log, s)
  BY DEF GoodNow, Good, Core
<1>2. e \in Seq(Nat) /\ DOMAIN e = {}
  OBVIOUS
<1>3. Live(s) = t
  BY DEF Live
<1> HIDE DEF e
<1>4. /\ t \in MirrorType /\ t.buffered = e
      /\ t.phase = "live" /\ t.rev = s.rev /\ t.asked = s.asked /\ t.fl = s.fl /\ t.queue = s.queue
      /\ t.waiting = s.waiting /\ t.req = s.req /\ t.late = s.late /\ t.base = s.base
      /\ t.recon = s.recon /\ t.reads = s.reads /\ t.due = s.due /\ t.paging = s.paging
      /\ t.view = s.view
  BY <1>1, <1>2 DEF MirrorType
<1> HIDE DEF t
<1>5. Within(log, t) /\ InOrder(kd, t) /\ UnsentOK(log, t)
  BY <1>1, <1>2, <1>4 DEF Core, Within, InOrder, UnsentOK, Unsent
<1>6. RequestOK(log, t) /\ SlotOK(kd, log, t) /\ HitsOK(log, t.base)
  BY <1>1, <1>4 DEF Core, RequestOK, SlotOK, HitsOK
<1>7. PagedOK(kd, t)
  BY <1>1, <1>4 DEF Core, PagedOK
<1>8. ViewOK(kd, log, t)
  BY <1>1, <1>4 DEF ViewOK, PresentIn
<1> QED  BY <1>3, <1>4, <1>5, <1>6, <1>7, <1>8 DEF GoodNow, Good, Core

\* A read that was answered from this log.
AnsweredBy(lg, rd) == rd \in ReadType /\ rd.ans.rev <= Len(lg)

\* Where the entries of a reply start.
LEMMA FromIs ==
  ASSUME NEW rd \in ReadType
  PROVE  From(rd) \in Nat /\ rd.ans.rev \in Nat
BY DEF From, ReadType

\* history_page for a recovery.
LEMMA OnRecoverKeeps ==
  ASSUME Setting, NEW s, GoodNow(s), NEW rd, AnsweredBy(log, rd)
  PROVE  GoodNow(OnRecover(s, rd))
<1> DEFINE a == FoldEntries(s, From(rd), rd.ans.rev)
<1>1. Folded(s, a)
  BY FromIs, FoldEntriesKeep DEF AnsweredBy
<1>2. OnRecover(s, rd) =
        IF s.phase # "history" THEN s
        ELSE IF rd.ans.oldest > s.rev /\ rd.ans.rev > s.rev THEN SnapshotFallback(s, FALSE)
        ELSE IF a.s.phase # "history" THEN a.s
        ELSE IF ~a.ok THEN SnapshotFallback(a.s, FALSE)
        ELSE GoLive(a.s)
  BY DEF OnRecover
<1> HIDE DEF a
<1>3. CASE s.phase # "history"
  BY <1>2, <1>3
<1>4. CASE s.phase = "history"
  <2>1. CoreNow(s) /\ ~s.paging
    BY <1>4 DEF GoodNow, Good, CoreNow, Core, PagedOK
  <2> DEFINE u == a.s
  <2>2. GoodNow(u) /\ CoreNow(u) /\ ~u.paging /\ u.phase = "history"
    BY <1>1, <1>4, <2>1 DEF Folded, GoodNow, Good, CoreNow
  <2>3. u.buffered \in Seq(Nat) /\ \A i \in DOMAIN u.buffered : u.buffered[i] \in 1..Len(log)
    BY <2>2 DEF GoodNow, Good, Core, MirrorType, Within
  <2> HIDE DEF u
  <2>4. GoodNow(SnapshotFallback(s, FALSE)) /\ GoodNow(SnapshotFallback(u, FALSE))
    BY <2>1, <2>2, SnapshotFallbackKeeps
  <2>5. GoodNow(Live(u))
    BY <2>2, LiveKeeps
  <2>6. GoodNow(GoLive(u))
    BY <2>3, <2>5, GoLiveKeeps
  <2> QED  BY <1>2, <1>4, <2>2, <2>4, <2>6 DEF u
<1> QED  BY <1>3, <1>4

-----------------------------------------------------------------------------

\* Nothing about the operation in the slot is under way.
Alone(s) == s.fl.op # NoOp /\ s.req.st = "none" /\ ~s.waiting /\ s.recon.op # s.fl.op

\* t is s with another slot.
SlotOf(s, t, f) ==
  /\ t \in MirrorType /\ t.fl = f
  /\ t.phase = s.phase /\ t.rev = s.rev /\ t.asked = s.asked /\ t.queue = s.queue
  /\ t.waiting = s.waiting /\ t.req = s.req /\ t.late = s.late /\ t.base = s.base
  /\ t.recon = s.recon /\ t.reads = s.reads /\ t.due = s.due /\ t.paging = s.paging
  /\ t.buffered = s.buffered /\ t.view = s.view

\* The slot is marked replied: the fields.
LEMMA RepliedIs ==
  ASSUME NEW s \in MirrorType, NEW r \in Nat
  PROVE  SlotOf(s, Replied(s, r), [op |-> s.fl.op, st |-> "replied", at |-> r, present |-> s.fl.present])
<1> DEFINE f == [op |-> s.fl.op, st |-> "replied", at |-> r, present |-> s.fl.present]
           t == Replied(s, r)
<1>1. f \in SlotType
  BY DEF SlotType, MirrorType
<1>2. t = [s EXCEPT !.fl = f]
  <2> DEFINE g == [s.fl EXCEPT !.st = "replied", !.at = r]
  <2>1. g = f
    <3>1. s.fl \in SlotType
      BY DEF MirrorType
    <3>2. g \in SlotType /\ g.op = f.op /\ g.st = f.st /\ g.at = f.at /\ g.present = f.present
      BY <3>1 DEF SlotType
    <3> HIDE DEF f, g
    <3> QED  BY <1>1, <3>2 DEF SlotType
  <2>2. t = [s EXCEPT !.fl = g]
    BY DEF Replied, MirrorType
  <2> QED  BY <2>1, <2>2
<1> HIDE DEF f, t
<1>3. SlotOf(s, t, f)
  BY <1>1, <1>2 DEF SlotOf, MirrorType
<1> QED  BY <1>3 DEF f, t

\* The slot is marked replied by the rev that has its operation.
LEMMA RepliedKeeps ==
  ASSUME NEW kd, NEW lg, NEW s, Good(kd, lg, s), Alone(s), NEW r \in DOMAIN lg, r \in Nat,
         lg[r].op = s.fl.op
  PROVE  /\ Good(kd, lg, Replied(s, r)) /\ SamePlace(s, Replied(s, r))
         /\ Replied(s, r).fl.op = s.fl.op /\ Replied(s, r).fl.present = s.fl.present
         /\ Replied(s, r).fl.st = "replied" /\ Replied(s, r).fl.at = r
         /\ Replied(s, r).recon = s.recon
<1> DEFINE t == Replied(s, r)
           f == [op |-> s.fl.op, st |-> "replied", at |-> r, present |-> s.fl.present]
<1>1. SlotOf(s, t, f) /\ s \in MirrorType /\ Core(kd, lg, s) /\ ViewOK(kd, lg, s)
  BY RepliedIs DEF Good, Core
<1>2. f.op = s.fl.op /\ f.st = "replied" /\ f.at = r /\ f.present = s.fl.present
  OBVIOUS
<1> HIDE DEF t, f
<1>3. Within(lg, t) /\ UnsentOK(lg, t) /\ HitsOK(lg, t.base)
  BY <1>1 DEF SlotOf, Core, Within, UnsentOK, Unsent, HitsOK
<1>4. InOrder(kd, t)
  BY <1>1, <1>2 DEF SlotOf, Core, InOrder
<1>5. RequestOK(lg, t)
  BY <1>1, <1>2 DEF SlotOf, Core, RequestOK, Alone
<1>6. SlotOK(kd, lg, t)
  BY <1>1, <1>2 DEF SlotOf, Core, SlotOK
<1>7. PagedOK(kd, t)
  BY <1>1, <1>2 DEF SlotOf, Core, PagedOK
<1>8. ViewOK(kd, lg, t)
  <2>1. PresentIn(kd, t) = PresentIn(kd, s)
    BY <1>1, <1>2 DEF SlotOf, PresentIn
  <2> QED  BY <1>1, <2>1 DEF SlotOf, ViewOK
<1> QED  BY <1>1, <1>2, <1>3, <1>4, <1>5, <1>6, <1>7, <1>8 DEF Good, Core, SlotOf, SamePlace, t

\* The reconciliation is over.
Unreconciled(s) == [s EXCEPT !.recon = NoRecon]

\* A reconciliation is closed.
LEMMA UnreconciledKeeps ==
  ASSUME NEW kd, NEW lg, NEW s, Good(kd, lg, s)
  PROVE  /\ Good(kd, lg, Unreconciled(s)) /\ Unreconciled(s).recon = NoRecon
         /\ Unreconciled(s).fl = s.fl /\ Unreconciled(s).req = s.req /\ Unreconciled(s).waiting = s.waiting
<1> DEFINE t == Unreconciled(s)
<1>1. s \in MirrorType /\ Core(kd, lg, s) /\ ViewOK(kd, lg, s)
  BY DEF Good, Core
<1>2. NoRecon \in ReconType /\ NoRecon.op = NoOp
  BY DEF NoRecon, ReconType, NoOp, Ops
<1>3. /\ t \in MirrorType /\ t.recon = NoRecon
      /\ t.phase = s.phase /\ t.rev = s.rev /\ t.asked = s.asked /\ t.fl = s.fl /\ t.queue = s.queue
      /\ t.waiting = s.waiting /\ t.req = s.req /\ t.late = s.late /\ t.base = s.base
      /\ t.reads = s.reads /\ t.due = s.due /\ t.paging = s.paging
      /\ t.buffered = s.buffered /\ t.view = s.view
  BY <1>1, <1>2 DEF MirrorType, Unreconciled
<1> HIDE DEF t
<1>4. Within(lg, t) /\ InOrder(kd, t) /\ HitsOK(lg, t.base)
  BY <1>1, <1>3 DEF Core, Within, InOrder, HitsOK
<1>5. UnsentOK(lg, t)
  BY <1>1, <1>2, <1>3, OpIs DEF Core, UnsentOK, Unsent
<1>6. RequestOK(lg, t)
  <2>1. s.req.st # "none" \/ s.waiting => s.fl.op # NoOp
    BY <1>1 DEF Core, RequestOK
  <2> QED  BY <1>1, <1>2, <1>3, <2>1 DEF Core, RequestOK
<1>7. SlotOK(kd, lg, t) /\ PagedOK(kd, t)
  BY <1>1, <1>3 DEF Core, SlotOK, PagedOK
<1>8. ViewOK(kd, lg, t)
  BY <1>1, <1>3, SameViewKeeps DEF SameView
<1> QED  BY <1>3, <1>4, <1>5, <1>6, <1>7, <1>8 DEF Good, Core, t

\* The operation in the slot is that of a request whose reply is not known.
Reconciling(s) ==
  Alone(s) /\ s.recon = NoRecon /\ s.fl.st \in {"uncertain", "doomed"} /\ s.fl.op \in Op

\* finish_recon when the history has the operation.
LEMMA ReconFoundKeeps ==
  ASSUME Setting, NEW s, GoodNow(s), Reconciling(s), NEW rd, AnsweredBy(log, rd),
         NEW r \in DOMAIN log, log[r].op = s.fl.op
  PROVE  GoodNow(ReconFound(s, rd, r))
<1> DEFINE t == Replied(s, r)
           a == FoldEntries(t, From(rd), rd.ans.rev)
           folded == IF s.phase # "live" THEN t
                     ELSE IF a.ok THEN a.s ELSE SnapshotFallback(a.s, FALSE)
<1>1. r \in Nat /\ CoreNow(s)
  BY LogIs DEF GoodNow, Good, CoreNow
<1>2. s.fl.st # "doomed"
  BY <1>1, DoomedUncommitted
<1>3. ReconFound(s, rd, r) = IF r > s.rev THEN (IF IsEdit(s.fl.op) THEN folded ELSE Barrier(folded))
                             ELSE IF IsEdit(s.fl.op) THEN FreeSlot(t) ELSE Barrier(t)
  BY <1>2 DEF ReconFound
<1>4. GoodNow(t) /\ SamePlace(s, t) /\ t.fl.present = s.fl.present
  BY <1>1, RepliedKeeps DEF GoodNow, Reconciling
<1> HIDE DEF t
<1>5. Folded(t, a)
  BY <1>4, FromIs, FoldEntriesKeep DEF AnsweredBy
<1> HIDE DEF a
<1>6. GoodNow(folded)
  <2> DEFINE u == a.s
  <2>1. GoodNow(u) /\ CoreNow(u) /\ (s.phase = "live" => ~u.paging)
    BY <1>4, <1>5 DEF Folded, SamePlace, GoodNow, Good, CoreNow, Core, PagedOK
  <2> HIDE DEF u
  <2>2. CASE s.phase # "live"
    BY <1>4, <2>2
  <2>3. CASE s.phase = "live"
    <3>1. GoodNow(SnapshotFallback(u, FALSE))
      BY <2>1, <2>3, SnapshotFallbackKeeps
    <3> QED  BY <2>1, <2>3, <3>1 DEF u
  <2> QED  BY <2>2, <2>3
<1> HIDE DEF folded
<1>7. GoodNow(Barrier(folded)) /\ GoodNow(Barrier(t))
  BY <1>4, <1>6, BarrierKeeps
<1>8. ASSUME ~(r > s.rev) PROVE GoodNow(FreeSlot(t))
  <2>1. s.rev \in Nat
    BY DEF GoodNow, Good, Core, MirrorType
  <2>2. r \in 1..s.rev
    BY <1>8, <2>1, LogIs
  <2>3. ~s.fl.present
    BY <1>1, <2>2 DEF CoreNow, Core, SlotOK
  <2> QED  BY <1>4, <2>3, FreeUnseen DEF GoodNow
<1> QED  BY <1>3, <1>6, <1>7, <1>8

\* The user is told of an operation that was not applied.
HandBack(s) == [s EXCEPT !.handed = @ \cup {s.fl.op}]

\* An undo is handed back.
LEMMA HandBackKeeps ==
  ASSUME Setting, NEW s, GoodNow(s), s.fl.op \in Op, ~IsEdit(s.fl.op)
  PROVE  GoodNow(FreeSlot(HandBack(s)))
<1> DEFINE kd == plan.kinds
           t == HandBack(s)
           h == s.handed \cup {s.fl.op}
<1>1. s \in MirrorType /\ Core(kd, log, s) /\ ViewOK(kd, log, s)
  BY DEF GoodNow, Good, Core
<1>2. h \in SUBSET Op /\ t = [s EXCEPT !.handed = h]
  BY <1>1 DEF MirrorType, HandBack
<1> HIDE DEF h, t
<1>3. Alike(s, t) /\ SameView(s, t)
  BY <1>1, <1>2 DEF MirrorType, Alike, SameView
<1>4. Good(kd, log, t)
  BY <1>1, <1>3, AlikeKeeps, SameViewKeeps DEF Good
<1>5. ~t.fl.present
  BY <1>1, <1>3 DEF Alike, Core, SlotOK, EditIn, IsEdit, NoOp
<1> QED  BY <1>4, <1>5, FreeUnseen DEF GoodNow, t

\* The request of the operation in the slot is on its way, once more perhaps.
SentFrom(s, t) ==
  /\ t \in MirrorType
  /\ t.fl.op = s.fl.op /\ t.fl.st = "sent" /\ t.fl.present = s.fl.present
  /\ t.req = [op |-> s.fl.op, st |-> "sent", at |-> 0] /\ t.waiting = FALSE
  /\ t.phase = s.phase /\ t.rev = s.rev /\ t.asked = s.asked /\ t.queue = s.queue
  /\ t.late = s.late /\ t.base = s.base
  /\ t.recon = s.recon /\ t.reads = s.reads /\ t.due = s.due /\ t.paging = s.paging
  /\ t.buffered = s.buffered /\ t.view = s.view

\* The same request is sent again.
LEMMA SentKeeps ==
  ASSUME NEW kd, NEW lg, NEW s, Good(kd, lg, s), s.fl.st \in {"sent", "uncertain"},
         s.recon.op # s.fl.op, NEW t, SentFrom(s, t)
  PROVE  Good(kd, lg, t)
<1>1. s \in MirrorType /\ Core(kd, lg, s) /\ ViewOK(kd, lg, s)
  BY DEF Good, Core
<1>2. t.req.op = s.fl.op /\ t.req.st = "sent"
  BY DEF SentFrom
<1>3. Within(lg, t) /\ HitsOK(lg, t.base)
  BY <1>1 DEF SentFrom, Core, Within, HitsOK
<1>4. InOrder(kd, t)
  BY <1>1 DEF SentFrom, Core, InOrder
<1>5. UnsentOK(lg, t)
  <2> SUFFICES ASSUME NEW p \in Op, Unsent(s, p)
               PROVE  /\ s.fl.op # p /\ s.late[p] = 0 /\ s.recon.op # p
                      /\ \A k \in DOMAIN lg : lg[k].op # p
    BY <1>2 DEF SentFrom, UnsentOK, Unsent
  <2>0. s.fl.op \in Nat /\ \A i \in DOMAIN s.queue : s.queue[i] # s.fl.op
    BY <1>1, PresentSlot
  <2>1. /\ s.asked \in Nat /\ s.fl.op \in Nat /\ s.fl.op <= s.asked
        /\ \A i \in DOMAIN s.queue : s.queue[i] # s.fl.op
    BY <1>1, <2>0 DEF Core, InOrder, MirrorType
  <2>2. s.fl.op # p
    BY <2>1, OpIs DEF Unsent
  <2> QED  BY <1>1, <2>2 DEF Core, UnsentOK
<1>6. RequestOK(lg, t)
  BY <1>1, <1>2 DEF SentFrom, Core, RequestOK
<1>7. SlotOK(kd, lg, t)
  BY <1>1 DEF SentFrom, Core, SlotOK
<1>8. PagedOK(kd, t)
  BY <1>1 DEF SentFrom, Core, PagedOK
<1>9. ViewOK(kd, lg, t)
  <2>1. PresentIn(kd, t) = PresentIn(kd, s)
    BY DEF SentFrom, PresentIn
  <2> QED  BY <1>1, <2>1 DEF SentFrom, ViewOK
<1> QED  BY <1>3, <1>4, <1>5, <1>6, <1>7, <1>8, <1>9 DEF Good, Core, SentFrom

\* finish_recon when the history does not have the operation.
LEMMA ReconAbsentKeeps ==
  ASSUME Setting, NEW s, GoodNow(s), Reconciling(s)
  PROVE  GoodNow(ReconAbsent(s))
<1>1. s \in MirrorType /\ Core(plan.kinds, log, s)
  BY DEF GoodNow, Good, Core
<1>2. CASE ~IsEdit(s.fl.op)
  <2>1. ReconAbsent(s) = FreeSlot(HandBack(s))
    BY <1>2 DEF ReconAbsent, HandBack
  <2> QED  BY <1>2, <2>1, HandBackKeeps DEF Reconciling
<1>3. CASE IsEdit(s.fl.op) /\ s.fl.st = "doomed"
  <2>1. ReconAbsent(s) = FreeSlot(s) /\ ~s.fl.present
    BY <1>1, <1>3 DEF ReconAbsent, Core, SlotOK
  <2> QED  BY <2>1, FreeUnseen DEF GoodNow
<1>4. CASE IsEdit(s.fl.op) /\ s.fl.st # "doomed"
  <2> DEFINE f == [s.fl EXCEPT !.st = "sent"]
             q == [op |-> s.fl.op, st |-> "sent", at |-> 0]
             t == [s EXCEPT !.fl = f, !.req = q]
  <2>1. s.fl \in SlotType /\ f \in SlotType /\ f.op = s.fl.op /\ f.st = "sent" /\ f.present = s.fl.present
    BY <1>1 DEF MirrorType, SlotType
  <2>2. q \in RequestType
    BY <2>1 DEF SlotType, RequestType
  <2>3. ReconAbsent(s) = t
    BY <1>1, <1>4 DEF ReconAbsent, Request, MirrorType
  <2>4. s.waiting = FALSE /\ s.recon.op # s.fl.op /\ s.fl.st = "uncertain"
    BY <1>1, <1>4 DEF Reconciling, Alone, MirrorType
  <2>5. t \in MirrorType
    <3> HIDE DEF f, q
    <3> QED  BY <1>1, <2>1, <2>2 DEF MirrorType
  <2>6. SentFrom(s, t)
    <3>1. /\ t.fl = f /\ t.req = q /\ t.waiting = FALSE
          /\ t.phase = s.phase /\ t.rev = s.rev /\ t.asked = s.asked /\ t.queue = s.queue
          /\ t.late = s.late /\ t.base = s.base
          /\ t.recon = s.recon /\ t.reads = s.reads /\ t.due = s.due /\ t.paging = s.paging
          /\ t.buffered = s.buffered /\ t.view = s.view
      <4> HIDE DEF f, q
      <4> QED  BY <1>1, <2>4 DEF MirrorType
    <3> HIDE DEF f, t
    <3> QED  BY <2>1, <2>5, <3>1 DEF SentFrom
  <2> HIDE DEF t
  <2> QED  BY <2>3, <2>4, <2>6, SentKeeps DEF GoodNow
<1> QED  BY <1>2, <1>3, <1>4

\* The slot is given up; there is no request to unlisten.
LEMMA DropKeeps ==
  ASSUME NEW kd, NEW lg, NEW s, Core(kd, lg, s), s.req.st = "none", ~s.waiting
  PROVE  /\ Core(kd, lg, [s EXCEPT !.fl = NoFlight]) /\ [s EXCEPT !.fl = NoFlight].paging = s.paging
         /\ ~s.fl.present /\ ViewOK(kd, lg, s) => ViewOK(kd, lg, [s EXCEPT !.fl = NoFlight])
<1> DEFINE t == [s EXCEPT !.fl = NoFlight]
           g == FreeSlot(s)
           l == [p \in Op |-> IF s.req.st = "sent" /\ p = s.req.op THEN s.late[p] + 1 ELSE s.late[p]]
<1>1. s \in MirrorType /\ s.late \in [Op -> Nat] /\ NoFlight \in SlotType /\ s.req = NoReq /\ s.waiting = FALSE
  BY FreeSlotIs DEF Core, MirrorType, RequestOK
<1>2. l = s.late
  BY <1>1
<1>3. g = [s EXCEPT !.req = NoReq, !.late = l, !.fl = NoFlight, !.retries = 0, !.waiting = FALSE, !.echo = FALSE]
  BY DEF FreeSlot, Unlisten
<1>4. Core(kd, lg, g)
  BY FreeSlotKeeps
<1> HIDE DEF l
<1>5. Alike(g, t) /\ t.view = s.view /\ t.phase = s.phase /\ t.rev = s.rev /\ t.queue = s.queue
      /\ t.fl = NoFlight /\ t.paging = s.paging
  <2>1. /\ g.phase = s.phase /\ g.rev = s.rev /\ g.asked = s.asked /\ g.fl = NoFlight /\ g.queue = s.queue
        /\ g.waiting = FALSE /\ g.req = NoReq /\ g.late = l /\ g.base = s.base
        /\ g.recon = s.recon /\ g.reads = s.reads /\ g.due = s.due /\ g.paging = s.paging
        /\ g.buffered = s.buffered
    BY <1>1, <1>3 DEF MirrorType
  <2>2. /\ t \in MirrorType /\ t.view = s.view
        /\ t.phase = s.phase /\ t.rev = s.rev /\ t.asked = s.asked /\ t.fl = NoFlight /\ t.queue = s.queue
        /\ t.waiting = s.waiting /\ t.req = s.req /\ t.late = s.late /\ t.base = s.base
        /\ t.recon = s.recon /\ t.reads = s.reads /\ t.due = s.due /\ t.paging = s.paging
        /\ t.buffered = s.buffered
    BY <1>1 DEF MirrorType
  <2> QED  BY <1>1, <1>2, <2>1, <2>2 DEF Alike
<1> HIDE DEF g, t
<1>6. Core(kd, lg, t)
  BY <1>4, <1>5, AlikeKeeps
<1>7. ASSUME ~s.fl.present, ViewOK(kd, lg, s) PROVE ViewOK(kd, lg, t)
  <2>1. PresentIn(kd, t) = PresentIn(kd, s)
    BY <1>5, <1>7 DEF PresentIn, NoFlight
  <2> QED  BY <1>5, <1>7, <2>1 DEF ViewOK
<1> QED  BY <1>5, <1>6, <1>7 DEF t

\* finish_recon when the history no longer tells.
LEMMA ReconTrimmedKeeps ==
  ASSUME Setting, NEW s, GoodNow(s), Reconciling(s)
  PROVE  GoodNow(ReconTrimmed(s))
<1> DEFINE kd == plan.kinds
           t == [s EXCEPT !.fl = NoFlight]
<1>1. Core(kd, log, s) /\ ViewOK(kd, log, s)
  BY DEF GoodNow, Good
<1>2. /\ Core(kd, log, t) /\ t.paging = s.paging
      /\ ~s.fl.present => ViewOK(kd, log, t)
  BY <1>1, DropKeeps DEF Reconciling, Alone
<1>3. CASE ~IsEdit(s.fl.op)
  <2>1. ReconTrimmed(s) = Suspect(FreeSlot(HandBack(s)))
    BY <1>3 DEF ReconTrimmed, HandBack
  <2> DEFINE u == FreeSlot(HandBack(s))
  <2>2. GoodNow(u)
    BY <1>3, HandBackKeeps DEF Reconciling
  <2> HIDE DEF u
  <2>3. GoodNow(Suspect(u))
    BY <2>2, SuspectKeeps
  <2> QED  BY <2>1, <2>3 DEF u
<1>4. CASE IsEdit(s.fl.op) /\ s.fl.st = "doomed"
  <2>1. ReconTrimmed(s) = t /\ ~s.fl.present
    BY <1>1, <1>4 DEF ReconTrimmed, Core, SlotOK
  <2> QED  BY <1>2, <2>1 DEF GoodNow, Good
<1>5. CASE IsEdit(s.fl.op) /\ s.fl.st # "doomed"
  <2>1. ReconTrimmed(s) = SnapshotFallback(t, TRUE)
    BY <1>5 DEF ReconTrimmed
  <2>2. ~s.paging
    BY <1>1, <1>5 DEF Core, PagedOK, Reconciling, IsEdit, EditIn, NoOp
  <2> HIDE DEF t
  <2> QED  BY <1>2, <2>1, <2>2, SnapshotFallbackKeeps DEF CoreNow
<1> QED  BY <1>3, <1>4, <1>5

\* A set of revs has a last one.
LEMMA LastOf ==
  ASSUME NEW n \in Nat, NEW S \in SUBSET (1..n), S # {}
  PROVE  \E x \in S : \A y \in S : y <= x
<1> DEFINE D == {i \in Nat : n - i \in S}
<1>1. D \in SUBSET Nat /\ D # {}
  <2>1. PICK x \in S : TRUE
    OBVIOUS
  <2>2. n - x \in Nat /\ n - (n - x) = x
    BY <2>1
  <2> QED  BY <2>1, <2>2
<1>2. PICK x \in D : \A y \in D : ~(<<y, x>> \in OpToRel(<, Nat))
  <2> HIDE DEF D
  <2> QED  BY <1>1, WFMin, NatLessThanWellFounded
<1>3. \A y \in D : y >= x
  <2> SUFFICES ASSUME NEW y \in D, ~(y >= x) PROVE FALSE
    OBVIOUS
  <2>1. y \in Nat /\ x \in Nat
    BY <1>1
  <2>2. y < x
    BY <2>1
  <2>3. <<y, x>> \in OpToRel(<, Nat)
    BY <2>1, <2>2 DEF OpToRel
  <2> QED  BY <1>2, <2>3
<1>4. \A y \in S : y <= n - x
  <2> SUFFICES ASSUME NEW y \in S PROVE y <= n - x
    OBVIOUS
  <2>1. n - y \in Nat /\ n - (n - y) = y /\ y \in Nat
    OBVIOUS
  <2>2. n - y \in D
    BY <2>1
  <2> QED  BY <1>3, <2>1, <2>2
<1> QED  BY <1>2, <1>4

\* history_page for a reconciliation.
LEMMA OnReconKeeps ==
  ASSUME Setting, NEW s, GoodNow(s), NEW rd, AnsweredBy(log, rd)
  PROVE  GoodNow(OnRecon(s, rd))
<1> DEFINE rc == s.recon
           t == Unreconciled(s)
           hits == {k \in From(rd) + 1 .. rd.ans.rev : log[k].op = rc.op}
           found == CHOOSE k \in hits : \A j \in hits : j <= k
<1>1. OnRecon(s, rd) = IF rc = NoRecon THEN s
                       ELSE IF s.fl.op # rc.op THEN t
                       ELSE IF hits # {} THEN ReconFound(t, rd, found)
                       ELSE IF rd.ans.oldest > rc.since THEN ReconTrimmed(t)
                       ELSE ReconAbsent(t)
  BY DEF OnRecon, Unreconciled
<1>2. GoodNow(t) /\ t.recon = NoRecon /\ t.fl = s.fl /\ t.req = s.req /\ t.waiting = s.waiting
  BY UnreconciledKeeps DEF GoodNow
<1> HIDE DEF t
<1>3. ASSUME rc # NoRecon, s.fl.op = rc.op PROVE Reconciling(t)
  <2>1. rc.op # NoOp /\ s.fl.st \in {"uncertain", "doomed"} /\ s.req.st = "none" /\ ~s.waiting
    BY <1>3 DEF GoodNow, Good, Core, RequestOK
  <2>2. s.fl.op \in Ops /\ NoRecon.op = NoOp
    BY DEF GoodNow, Good, Core, MirrorType, SlotType, NoRecon
  <2> QED  BY <1>2, <1>3, <2>1, <2>2 DEF Reconciling, Alone, Ops
<1>4. ASSUME hits # {} PROVE found \in DOMAIN log /\ log[found].op = rc.op
  <2>1. /\ Len(log) \in Nat /\ From(rd) \in Nat /\ rd.ans.rev \in Nat /\ rd.ans.rev <= Len(log)
        /\ DOMAIN log = 1..Len(log)
    BY FromIs, LogIs DEF AnsweredBy
  <2>2. hits \in SUBSET (1..Len(log))
    BY <2>1
  <2>3. \E x \in hits : \A y \in hits : y <= x
    <3> HIDE DEF hits
    <3> QED  BY <1>4, <2>1, <2>2, LastOf
  <2>4. found \in hits
    BY <2>3
  <2> QED  BY <2>1, <2>2, <2>4
<1> HIDE DEF hits, found
<1>5. CASE rc = NoRecon \/ s.fl.op # rc.op
  BY <1>1, <1>2, <1>5
<1>6. CASE rc # NoRecon /\ s.fl.op = rc.op
  <2>1. Reconciling(t)
    BY <1>3, <1>6
  <2>2. ASSUME hits # {} PROVE GoodNow(ReconFound(t, rd, found))
    BY <1>2, <1>4, <1>6, <2>1, <2>2, ReconFoundKeeps
  <2>3. GoodNow(ReconTrimmed(t)) /\ GoodNow(ReconAbsent(t))
    BY <1>2, <2>1, ReconTrimmedKeeps, ReconAbsentKeeps
  <2> QED  BY <1>1, <1>6, <2>2, <2>3
<1> QED  BY <1>5, <1>6

\* read_refused for a reconciliation.
LEMMA OnReconRefusedKeeps ==
  ASSUME Setting, NEW s, GoodNow(s)
  PROVE  GoodNow(OnReconRefused(s))
<1> DEFINE rc == s.recon
           t == Unreconciled(s)
<1>1. OnReconRefused(s) = IF rc = NoRecon THEN s
                          ELSE IF s.fl.op # rc.op THEN t
                          ELSE ReconTrimmed(t)
  BY DEF OnReconRefused, Unreconciled
<1>2. GoodNow(t) /\ t.recon = NoRecon /\ t.fl = s.fl /\ t.req = s.req /\ t.waiting = s.waiting
  BY UnreconciledKeeps DEF GoodNow
<1> HIDE DEF t
<1>3. ASSUME rc # NoRecon, s.fl.op = rc.op PROVE GoodNow(ReconTrimmed(t))
  <2>1. rc.op # NoOp /\ s.fl.st \in {"uncertain", "doomed"} /\ s.req.st = "none" /\ ~s.waiting
    BY <1>3 DEF GoodNow, Good, Core, RequestOK
  <2>2. s.fl.op \in Ops /\ NoRecon.op = NoOp
    BY DEF GoodNow, Good, Core, MirrorType, SlotType, NoRecon
  <2>3. Reconciling(t)
    BY <1>2, <1>3, <2>1, <2>2 DEF Reconciling, Alone, Ops
  <2> QED  BY <1>2, <2>3, ReconTrimmedKeeps
<1> QED  BY <1>1, <1>2, <1>3

-----------------------------------------------------------------------------

\* t is g with the text of rev r in its view.
PagedFrom(lg, g, t, r) ==
  /\ t \in MirrorType
  /\ t.phase = "live" /\ t.rev = r /\ t.view = TextIn(lg, r) /\ t.buffered = <<>>
  /\ t.due = FALSE /\ t.paging = FALSE
  /\ t.asked = g.asked /\ t.fl = g.fl /\ t.queue = g.queue
  /\ t.waiting = g.waiting /\ t.req = g.req /\ t.late = g.late /\ t.base = g.base
  /\ t.recon = g.recon /\ t.reads = g.reads

\* The text of rev r replaces the view.
LEMMA PagedKeeps ==
  ASSUME NEW kd, NEW lg, NEW g, Core(kd, lg, g), g.paging, ~g.fl.present, NEW r \in Nat, r <= Len(lg),
         NEW t, PagedFrom(lg, g, t, r)
  PROVE  Good(kd, lg, t)
<1>1. DOMAIN t.buffered = {}
  BY DEF PagedFrom
<1>2. Within(lg, t) /\ InOrder(kd, t) /\ UnsentOK(lg, t) /\ HitsOK(lg, t.base)
  BY <1>1 DEF PagedFrom, Core, Within, InOrder, UnsentOK, Unsent, HitsOK
<1>3. RequestOK(lg, t) /\ SlotOK(kd, lg, t)
  BY DEF PagedFrom, Core, RequestOK, SlotOK
<1>4. PagedOK(kd, t)
  BY DEF PagedFrom, PagedOK
<1>5. PresentIn(kd, t) = {}
  BY DEF PagedFrom, Core, PagedOK, PresentIn
<1>6. With(TextIn(lg, r), {}) = TextIn(lg, r)
  BY TextIs, WithNothing
<1>7. ViewOK(kd, lg, t)
  BY <1>5, <1>6 DEF PagedFrom, ViewOK
<1> QED  BY <1>2, <1>3, <1>4, <1>7 DEF Good, Core, PagedFrom

\* The edit in the slot is not in the view.
Unseen(s) == [s EXCEPT !.fl.present = FALSE]

\* The slot's edit is no longer in the view.
LEMMA UnseenKeeps ==
  ASSUME NEW kd, NEW lg, NEW s, Core(kd, lg, s)
  PROVE  Core(kd, lg, Unseen(s)) /\ SlotOf(s, Unseen(s), [s.fl EXCEPT !.present = FALSE])
         /\ Unseen(s).fl.present = FALSE
<1> DEFINE t == Unseen(s)
           f == [s.fl EXCEPT !.present = FALSE]
<1>1. s \in MirrorType /\ s.fl \in SlotType
  BY DEF Core, MirrorType
<1>2. f \in SlotType /\ f.op = s.fl.op /\ f.st = s.fl.st /\ f.at = s.fl.at /\ f.present = FALSE
  BY <1>1 DEF SlotType
<1>3. t = [s EXCEPT !.fl = f]
  BY <1>1 DEF Unseen, MirrorType
<1> HIDE DEF f, t
<1>4. SlotOf(s, t, f)
  BY <1>1, <1>2, <1>3 DEF SlotOf, MirrorType
<1>5. Within(lg, t) /\ UnsentOK(lg, t) /\ HitsOK(lg, t.base)
  BY <1>4 DEF SlotOf, Core, Within, UnsentOK, Unsent, HitsOK
<1>6. InOrder(kd, t)
  BY <1>2, <1>4 DEF SlotOf, Core, InOrder
<1>7. RequestOK(lg, t)
  BY <1>2, <1>4 DEF SlotOf, Core, RequestOK
<1>8. SlotOK(kd, lg, t) /\ PagedOK(kd, t)
  BY <1>2, <1>4 DEF SlotOf, Core, SlotOK, PagedOK
<1> QED  BY <1>2, <1>4, <1>5, <1>6, <1>7, <1>8 DEF Core, SlotOf, t, f

\* on_page and finish_snapshot.
LEMMA OnPageKeeps ==
  ASSUME Setting, NEW s, GoodNow(s), NEW r \in Nat, r <= Len(log)
  PROVE  GoodNow(OnPage(s, r))
<1> DEFINE kd == plan.kinds
           x == TextIn(log, r)
           t == [s EXCEPT !.view = x, !.rev = r, !.paging = FALSE]
           contained == IsEdit(s.fl.op) /\ s.fl.st = "replied" /\ s.fl.at <= r
           e == <<>>
<1>1. /\ s \in MirrorType /\ Core(kd, log, s) /\ s.buffered \in Seq(Nat)
      /\ \A i \in DOMAIN s.buffered : s.buffered[i] \in 1..Len(log)
  BY DEF GoodNow, Good, Core, MirrorType, Within
<1>2. x \in TextType /\ e \in Seq(Nat)
  BY TextIs
<1>3. Text(r) = x
  BY DEF Text, TextIn
<1>4. OnPage(s, r) = IF ~s.paging THEN s
                     ELSE IF contained THEN GoLive(FreeSlot(t))
                     ELSE GoLive(Unseen(t))
  BY <1>3 DEF OnPage, Unseen
<1> HIDE DEF x
<1>5. /\ t \in MirrorType /\ t.view = x /\ t.rev = r /\ t.paging = FALSE
      /\ t.phase = s.phase /\ t.asked = s.asked /\ t.fl = s.fl /\ t.queue = s.queue
      /\ t.waiting = s.waiting /\ t.req = s.req /\ t.late = s.late /\ t.base = s.base
      /\ t.recon = s.recon /\ t.reads = s.reads /\ t.due = s.due
      /\ t.buffered = s.buffered
  BY <1>1, <1>2 DEF MirrorType
<1> HIDE DEF t, e
<1>6. ASSUME s.paging PROVE GoodNow(GoLive(FreeSlot(t)))
  <2> DEFINE l == [p \in Op |-> IF s.req.st = "sent" /\ p = s.req.op THEN s.late[p] + 1 ELSE s.late[p]]
             g == FreeSlot(s)
             u == FreeSlot(t)
             v == [u EXCEPT !.phase = "live", !.buffered = e]
  <2>1. g \in MirrorType /\ u \in MirrorType
    BY <1>1, <1>5, FreeSlotIs
  <2>2. g = [s EXCEPT !.req = NoReq, !.late = l, !.fl = NoFlight, !.retries = 0, !.waiting = FALSE, !.echo = FALSE]
    BY DEF FreeSlot, Unlisten
  <2>3. u = [t EXCEPT !.req = NoReq, !.late = l, !.fl = NoFlight, !.retries = 0, !.waiting = FALSE, !.echo = FALSE]
    BY <1>5 DEF FreeSlot, Unlisten
  <2> HIDE DEF l
  <2>4. /\ g.asked = s.asked /\ g.fl = NoFlight /\ g.queue = s.queue
        /\ g.waiting = FALSE /\ g.req = NoReq /\ g.late = l /\ g.base = s.base
        /\ g.recon = s.recon /\ g.reads = s.reads /\ g.due = s.due /\ g.paging = s.paging
    BY <1>1, <2>2 DEF MirrorType
  <2>5. /\ u.asked = s.asked /\ u.fl = NoFlight /\ u.queue = s.queue
        /\ u.waiting = FALSE /\ u.req = NoReq /\ u.late = l /\ u.base = s.base
        /\ u.recon = s.recon /\ u.reads = s.reads /\ u.due = s.due /\ u.paging = FALSE
        /\ u.view = x /\ u.rev = r /\ u.buffered = s.buffered
    BY <1>5, <2>3 DEF MirrorType
  <2>6. Core(kd, log, g) /\ NoFlight.present = FALSE /\ s.due = FALSE
    BY <1>1, <1>6, FreeSlotKeeps DEF NoFlight, Core, PagedOK, MirrorType
  <2> HIDE DEF g, u
  <2>7. /\ v \in MirrorType
        /\ v.asked = u.asked /\ v.fl = u.fl /\ v.queue = u.queue
        /\ v.waiting = u.waiting /\ v.req = u.req /\ v.late = u.late /\ v.base = u.base
        /\ v.recon = u.recon /\ v.reads = u.reads /\ v.due = u.due /\ v.paging = u.paging
        /\ v.view = u.view /\ v.rev = u.rev /\ v.buffered = e /\ v.phase = "live"
    BY <1>2, <2>1 DEF MirrorType
  <2>8. Live(u) = v
    BY DEF Live, e
  <2> HIDE DEF v
  <2>9. PagedFrom(log, g, v, r)
    BY <2>4, <2>5, <2>6, <2>7 DEF PagedFrom, x, e
  <2>10. GoodNow(v)
    BY <1>6, <2>4, <2>6, <2>9, PagedKeeps DEF GoodNow
  <2>11. GoodNow(GoLive(u))
    BY <1>1, <2>5, <2>8, <2>10, GoLiveKeeps
  <2> QED  BY <2>11 DEF u
<1>7. ASSUME s.paging PROVE GoodNow(GoLive(Unseen(t)))
  <2> DEFINE g == Unseen(s)
             f == [s.fl EXCEPT !.present = FALSE]
             u == Unseen(t)
             v == [u EXCEPT !.phase = "live", !.buffered = e]
  <2>1. Core(kd, log, g) /\ SlotOf(s, g, f) /\ g.fl.present = FALSE /\ s.due = FALSE
    <3>1. s.due = FALSE
      BY <1>1, <1>7 DEF Core, PagedOK, MirrorType
    <3> QED  BY <1>1, <3>1, UnseenKeeps
  <2>2. s.fl \in SlotType /\ f \in SlotType
    BY <1>1 DEF MirrorType, SlotType
  <2>3. u = [t EXCEPT !.fl = f]
    BY <1>5 DEF Unseen, MirrorType
  <2> HIDE DEF f, g, u
  <2>4. /\ u \in MirrorType
        /\ u.asked = s.asked /\ u.fl = f /\ u.queue = s.queue
        /\ u.waiting = s.waiting /\ u.req = s.req /\ u.late = s.late /\ u.base = s.base
        /\ u.recon = s.recon /\ u.reads = s.reads /\ u.due = s.due /\ u.paging = FALSE
        /\ u.view = x /\ u.rev = r /\ u.buffered = s.buffered
    BY <1>5, <2>2, <2>3 DEF MirrorType
  <2>7. /\ v \in MirrorType
        /\ v.asked = u.asked /\ v.fl = u.fl /\ v.queue = u.queue
        /\ v.waiting = u.waiting /\ v.req = u.req /\ v.late = u.late /\ v.base = u.base
        /\ v.recon = u.recon /\ v.reads = u.reads /\ v.due = u.due /\ v.paging = u.paging
        /\ v.view = u.view /\ v.rev = u.rev /\ v.buffered = e /\ v.phase = "live"
    BY <1>2, <2>4 DEF MirrorType
  <2>8. Live(u) = v
    BY DEF Live, e
  <2> HIDE DEF v
  <2>9. PagedFrom(log, g, v, r)
    BY <2>1, <2>4, <2>7 DEF PagedFrom, SlotOf, x, e
  <2>10. GoodNow(v)
    BY <1>7, <2>1, <2>9, PagedKeeps DEF GoodNow, SlotOf
  <2>11. GoodNow(GoLive(u))
    BY <1>1, <2>4, <2>8, <2>10, GoLiveKeeps
  <2> QED  BY <2>11 DEF u
<1> QED  BY <1>4, <1>6, <1>7

-----------------------------------------------------------------------------
(* Replies *)

\* The reply to the request of the slot is being handled.
Answering(s) == Alone(s) /\ s.fl.op \in Op /\ s.fl.st \in {"sent", "doomed"}

\* reply_ok.
LEMMA ReplyOkKeeps ==
  ASSUME Setting, NEW s, GoodNow(s), Answering(s), NEW r \in DOMAIN log, log[r].op = s.fl.op
  PROVE  GoodNow(ReplyOk(s, r))
<1> DEFINE kd == plan.kinds
           u == [s EXCEPT !.retries = 0, !.waiting = FALSE]
           t == Replied(u, r)
<1>1. s \in MirrorType /\ Core(kd, log, s) /\ ViewOK(kd, log, s) /\ r \in Nat /\ s.waiting = FALSE
  BY LogIs DEF GoodNow, Good, Core, Answering, Alone, MirrorType
<1>2. Alike(s, u) /\ SameView(s, u)
  BY <1>1 DEF MirrorType, Alike, SameView
<1>3. ReplyOk(s, r) = IF ~IsEdit(s.fl.op) THEN Barrier(t)
                      ELSE IF r <= s.rev THEN FreeSlot(t) ELSE t
  <2>1. s.fl.st # "doomed"
    BY <1>1, DoomedUncommitted DEF CoreNow
  <2> QED  BY <2>1 DEF ReplyOk
<1> HIDE DEF u
<1>4. Good(kd, log, u)
  BY <1>1, <1>2, AlikeKeeps, SameViewKeeps DEF Good
<1>5. Alone(u) /\ u.fl = s.fl
  BY <1>2 DEF Alike, Alone, Answering
<1>6. Good(kd, log, t) /\ t.fl.present = s.fl.present
  BY <1>1, <1>4, <1>5, RepliedKeeps
<1> HIDE DEF t
<1>7. GoodNow(Barrier(t)) /\ GoodNow(t)
  BY <1>6, BarrierKeeps DEF GoodNow
<1>8. ASSUME r <= s.rev PROVE GoodNow(FreeSlot(t))
  <2>1. s.rev \in Nat
    BY <1>1 DEF MirrorType
  <2>2. r \in 1..s.rev
    BY <1>8, <2>1, LogIs
  <2>3. ~s.fl.present
    BY <1>1, <2>2 DEF Core, SlotOK
  <2> QED  BY <1>6, <2>3, FreeUnseen DEF GoodNow
<1> QED  BY <1>3, <1>7, <1>8

\* c and d differ in the slot only.
ButSlot(c, d) ==
  /\ c \in MirrorType /\ d \in MirrorType
  /\ d.phase = c.phase /\ d.rev = c.rev /\ d.asked = c.asked /\ d.queue = c.queue
  /\ d.req = c.req /\ d.late = c.late /\ d.base = c.base
  /\ d.recon = c.recon /\ d.reads = c.reads /\ d.due = c.due /\ d.paging = c.paging
  /\ d.buffered = c.buffered /\ d.view = c.view

\* clear_slot forgets what was in the slot.
LEMMA FreeSlotAlike ==
  ASSUME NEW c, NEW d, ButSlot(c, d)
  PROVE  Alike(FreeSlot(c), FreeSlot(d)) /\ FreeSlot(d).view = c.view
<1> DEFINE l == [p \in Op |-> IF c.req.st = "sent" /\ p = c.req.op THEN c.late[p] + 1 ELSE c.late[p]]
           g == FreeSlot(c)
           u == FreeSlot(d)
<1>1. g \in MirrorType /\ u \in MirrorType /\ c \in MirrorType /\ d \in MirrorType
  BY FreeSlotIs DEF ButSlot
<1>2. g = [c EXCEPT !.req = NoReq, !.late = l, !.fl = NoFlight, !.retries = 0, !.waiting = FALSE, !.echo = FALSE]
  BY DEF FreeSlot, Unlisten
<1>3. u = [d EXCEPT !.req = NoReq, !.late = l, !.fl = NoFlight, !.retries = 0, !.waiting = FALSE, !.echo = FALSE]
  BY DEF FreeSlot, Unlisten, ButSlot
<1> HIDE DEF l
<1>4. /\ g.asked = c.asked /\ g.fl = NoFlight /\ g.queue = c.queue /\ g.phase = c.phase /\ g.rev = c.rev
      /\ g.waiting = FALSE /\ g.req = NoReq /\ g.late = l /\ g.base = c.base /\ g.buffered = c.buffered
      /\ g.recon = c.recon /\ g.reads = c.reads /\ g.due = c.due /\ g.paging = c.paging
  BY <1>1, <1>2 DEF MirrorType
<1>5. /\ u.asked = d.asked /\ u.fl = NoFlight /\ u.queue = d.queue /\ u.phase = d.phase /\ u.rev = d.rev
      /\ u.waiting = FALSE /\ u.req = NoReq /\ u.late = l /\ u.base = d.base /\ u.buffered = d.buffered
      /\ u.recon = d.recon /\ u.reads = d.reads /\ u.due = d.due /\ u.paging = d.paging /\ u.view = d.view
  BY <1>1, <1>3 DEF MirrorType
<1> HIDE DEF g, u
<1>6. Alike(g, u) /\ u.view = c.view
  BY <1>1, <1>4, <1>5 DEF ButSlot, Alike
<1> QED  BY <1>6 DEF g, u

\* reply_refused.
LEMMA ReplyRefusedKeeps ==
  ASSUME Setting, NEW s, GoodNow(s), s.fl.op \in Op, s.fl.st # "replied"
  PROVE  GoodNow(ReplyRefused(s))
<1> DEFINE kd == plan.kinds
           ops == PresentOps(s)
           c == Cut(s, ops)
           d == Revert(s, ops)
           t == FreeSlot(d)
<1>1. s \in MirrorType /\ Core(kd, log, s) /\ ViewOK(kd, log, s)
  BY DEF GoodNow, Good, Core
<1>2. CASE ~IsEdit(s.fl.op)
  <2>1. ReplyRefused(s) = FreeSlot(HandBack(s))
    BY <1>2 DEF ReplyRefused, HandBack
  <2> QED  BY <1>2, <2>1, HandBackKeeps
<1>3. CASE IsEdit(s.fl.op) /\ ~s.fl.present
  <2>1. ReplyRefused(s) = FreeSlot(s)
    BY <1>3 DEF ReplyRefused
  <2> QED  BY <1>3, <2>1, FreeUnseen DEF GoodNow
<1>4. CASE IsEdit(s.fl.op) /\ s.fl.present
  <2>1. ReplyRefused(s) = t
    BY <1>4 DEF ReplyRefused
  <2>2. ops = PresentIn(kd, s) /\ ops \in SUBSET Op /\ s.fl.op \in ops
    BY <1>1, <1>4, QueuedIs DEF PresentOps, PresentIn
  <2>3. d = IF s.waiting THEN FreeSlot(c) ELSE Doom(c)
    BY <1>4, <2>2, RevertIs
  <2> HIDE DEF ops, d, t
  <2>4. Core(kd, log, c) /\ CutFrom(s, ops, c)
    BY <1>1, <2>2, CutKeeps
  <2> HIDE DEF c
  <2>5. Core(kd, log, t) /\ t.phase = s.phase /\ t.rev = s.rev /\ t.view = c.view /\ t.queue = c.queue
        /\ t.fl.present = FALSE
    <3>1. CASE s.waiting
      <4>1. d = FreeSlot(c)
        BY <2>3, <3>1
      <4>2. Core(kd, log, d) /\ d \in MirrorType /\ c \in MirrorType
        BY <2>4, <4>1, FreeSlotKeeps DEF Core
      <4>3. d.view = c.view /\ d.queue = c.queue /\ SamePlace(c, d)
        BY <4>1, <4>2, FreeSlotFields
      <4>4. Core(kd, log, FreeSlot(d)) /\ FreeSlot(d).view = d.view /\ FreeSlot(d).queue = d.queue
            /\ SamePlace(d, FreeSlot(d)) /\ FreeSlot(d).fl.present = FALSE
        BY <4>2, FreeSlotKeeps, FreeSlotFields
      <4> QED  BY <2>4, <4>3, <4>4 DEF t, CutFrom, SamePlace
    <3>2. CASE ~s.waiting
      <4>1. d = Doom(c) /\ c \in MirrorType /\ c.fl.st # "replied"
        BY <2>3, <2>4, <3>2 DEF CutFrom
      <4>2. DoomedFrom(c, d)
        BY <4>1, DoomIs
      <4>3. ButSlot(c, d)
        BY <4>1, <4>2 DEF ButSlot, DoomedFrom
      <4>4. Alike(FreeSlot(c), FreeSlot(d)) /\ FreeSlot(d).view = c.view
        BY <4>3, FreeSlotAlike
      <4>5. Core(kd, log, FreeSlot(c)) /\ FreeSlot(c).queue = c.queue /\ SamePlace(c, FreeSlot(c))
            /\ FreeSlot(c).fl.present = FALSE
        BY <2>4, <4>1, FreeSlotKeeps, FreeSlotFields
      <4>6. Core(kd, log, FreeSlot(d))
        BY <4>4, <4>5, AlikeKeeps
      <4> QED  BY <2>4, <4>4, <4>5, <4>6 DEF t, CutFrom, SamePlace, Alike
    <3> QED  BY <3>1, <3>2
  <2>6. LeftOf(s, ops, t)
    BY <1>4, <2>2, <2>4, <2>5 DEF LeftOf, CutFrom
  <2>7. ViewOK(kd, log, t)
    BY <1>1, <2>2, <2>6, CutView
  <2> QED  BY <2>1, <2>5, <2>7 DEF GoodNow, Good
<1> QED  BY <1>2, <1>3, <1>4

\* arm_retry.
LEMMA ReplyBusyKeeps ==
  ASSUME Setting, NEW s, GoodNow(s), Answering(s)
  PROVE  GoodNow(ReplyBusy(s))
<1> DEFINE kd == plan.kinds
           n == s.retries + 1
           t == [s EXCEPT !.retries = n, !.waiting = TRUE]
           given == (IsEdit(s.fl.op) /\ ~s.fl.present) \/ s.retries + 1 > RetryMax
<1>1. s \in MirrorType /\ Core(kd, log, s) /\ ViewOK(kd, log, s)
  BY DEF GoodNow, Good, Core
<1>2. CASE given
  <2>1. ReplyBusy(s) = ReplyRefused(s)
    BY <1>2 DEF ReplyBusy
  <2> QED  BY <2>1, ReplyRefusedKeeps DEF Answering
<1>3. CASE ~given
  <2>1. ReplyBusy(s) = t
    BY <1>3 DEF ReplyBusy
  <2>2. s.fl.st = "sent"
    BY <1>1, <1>3 DEF Core, SlotOK, Answering, IsEdit, EditIn, NoOp
  <2>0. n \in Nat
    BY <1>1 DEF MirrorType
  <2> HIDE DEF n
  <2>3. /\ t \in MirrorType /\ t.waiting = TRUE
        /\ t.phase = s.phase /\ t.rev = s.rev /\ t.asked = s.asked /\ t.fl = s.fl /\ t.queue = s.queue
        /\ t.req = s.req /\ t.late = s.late /\ t.base = s.base
        /\ t.recon = s.recon /\ t.reads = s.reads /\ t.due = s.due /\ t.paging = s.paging
        /\ t.buffered = s.buffered /\ t.view = s.view
    BY <1>1, <2>0 DEF MirrorType
  <2> HIDE DEF t
  <2>4. Within(log, t) /\ InOrder(kd, t) /\ UnsentOK(log, t) /\ HitsOK(log, t.base)
    BY <1>1, <2>3 DEF Core, Within, InOrder, UnsentOK, Unsent, HitsOK
  <2>5. RequestOK(log, t)
    BY <1>1, <2>2, <2>3 DEF Core, RequestOK, Answering, Alone
  <2>6. SlotOK(kd, log, t) /\ PagedOK(kd, t)
    BY <1>1, <2>3 DEF Core, SlotOK, PagedOK
  <2>7. ViewOK(kd, log, t)
    BY <1>1, <2>3, SameViewKeeps DEF SameView
  <2> QED  BY <2>1, <2>3, <2>4, <2>5, <2>6, <2>7 DEF GoodNow, Good, Core
<1> QED  BY <1>2, <1>3

\* watch_echo.
LEMMA WatchEchoKeeps ==
  ASSUME NEW s, GoodNow(s)
  PROVE  GoodNow(WatchEcho(s))
<1> DEFINE b == ReplyWaits(s)
           t == [s EXCEPT !.echo = b]
<1>1. s \in MirrorType /\ Core(plan.kinds, log, s) /\ ViewOK(plan.kinds, log, s)
  BY DEF GoodNow, Good, Core
<1>2. b \in BOOLEAN
  BY DEF ReplyWaits
<1>3. WatchEcho(s) = t
  BY DEF WatchEcho
<1> HIDE DEF b
<1>4. Alike(s, t) /\ SameView(s, t)
  BY <1>1, <1>2 DEF MirrorType, Alike, SameView
<1> HIDE DEF t
<1> QED  BY <1>1, <1>3, <1>4, AlikeKeeps, SameViewKeeps DEF GoodNow, Good

-----------------------------------------------------------------------------
(* Sending, deadlines, typing *)

\* t is s with the first operation of its queue in the slot.
DrainedFrom(kd, s, t, p) ==
  /\ t \in MirrorType
  /\ t.fl = [op |-> p, st |-> "sent", at |-> 0, present |-> EditIn(kd, p)]
  /\ t.req = [op |-> p, st |-> "sent", at |-> 0]
  /\ t.queue = Tail(s.queue) /\ t.base = [s.base EXCEPT ![p] = s.rev]
  /\ t.phase = s.phase /\ t.rev = s.rev /\ t.asked = s.asked
  /\ t.waiting = s.waiting /\ t.late = s.late
  /\ t.recon = s.recon /\ t.reads = s.reads /\ t.due = s.due /\ t.paging = s.paging
  /\ t.buffered = s.buffered /\ t.view = s.view

\* The first operation of the queue is sent.
LEMMA DrainedKeeps ==
  ASSUME NEW kd, NEW lg \in Seq(Entry), NEW s, Good(kd, lg, s), s.phase = "live", s.fl.op = NoOp, s.queue # <<>>,
         NEW t, DrainedFrom(kd, s, t, Head(s.queue))
  PROVE  Good(kd, lg, t)
<1> DEFINE p == Head(s.queue)
           q == s.queue
<1>1. s \in MirrorType /\ Core(kd, lg, s) /\ ViewOK(kd, lg, s) /\ q \in Seq(Op) /\ s.rev \in Nat
      /\ s.asked \in Nat /\ s.base \in [Op -> Nat]
  BY DEF Good, Core, MirrorType
<1>2. /\ p \in Op /\ p = q[1] /\ 1 \in DOMAIN q /\ Tail(q) \in Seq(Op)
      /\ \A i \in DOMAIN Tail(q) : i + 1 \in DOMAIN q /\ Tail(q)[i] = q[i + 1] /\ i \in Nat /\ i > 0
      /\ \A i \in DOMAIN q : i = 1 \/ (i - 1 \in DOMAIN Tail(q) /\ Tail(q)[i - 1] = q[i])
  <2>1. Len(q) \in Nat /\ Len(q) > 0 /\ DOMAIN q = 1..Len(q) /\ DOMAIN Tail(q) = 1..(Len(q) - 1)
    BY <1>1
  <2>2. /\ \A i \in DOMAIN Tail(q) : i + 1 \in DOMAIN q /\ Tail(q)[i] = q[i + 1] /\ i \in Nat /\ i > 0
        /\ p = q[1] /\ 1 \in DOMAIN q /\ Tail(q) \in Seq(Op)
    BY <1>1, <2>1
  <2>3. ASSUME NEW i \in DOMAIN q, i # 1 PROVE i - 1 \in DOMAIN Tail(q) /\ Tail(q)[i - 1] = q[i]
    <3>1. i - 1 \in DOMAIN Tail(q) /\ (i - 1) + 1 = i
      BY <2>1, <2>3
    <3> QED  BY <2>2, <3>1
  <2>4. p \in Op
    BY <1>1, <2>2
  <2> QED  BY <2>2, <2>3, <2>4
<1>3. \A i \in DOMAIN q : q[i] \in Nat /\ q[i] <= s.asked /\ (i # 1 => p < q[i])
  <2>1. \A i \in DOMAIN q : q[i] \in Nat /\ q[i] <= s.asked
    BY <1>1, QueueIs DEF Core, InOrder
  <2>2. ASSUME NEW i \in DOMAIN q, i # 1 PROVE p < q[i]
    <3>1. 1 < i
      BY <1>1, <2>2
    <3> QED  BY <1>1, <1>2, <3>1 DEF Core, InOrder
  <2> QED  BY <2>1, <2>2
<1> HIDE DEF p, q
<1>4. /\ t \in MirrorType /\ t.queue = Tail(q) /\ t.base = [s.base EXCEPT ![p] = s.rev]
      /\ t.fl.op = p /\ t.fl.st = "sent" /\ t.fl.present = EditIn(kd, p)
      /\ t.req.op = p /\ t.req.st = "sent"
      /\ t.phase = s.phase /\ t.rev = s.rev /\ t.asked = s.asked
      /\ t.waiting = s.waiting /\ t.late = s.late
      /\ t.recon = s.recon /\ t.reads = s.reads /\ t.due = s.due /\ t.paging = s.paging
      /\ t.buffered = s.buffered /\ t.view = s.view
  BY DEF DrainedFrom, p, q
<1>5. s.fl.present = FALSE /\ s.waiting = FALSE /\ s.req.st = "none"
  <2>1. s.fl.present \in BOOLEAN /\ s.waiting \in BOOLEAN
    BY <1>1 DEF MirrorType, SlotType
  <2> QED  BY <1>1, <2>1 DEF Core, RequestOK, SlotOK, EditIn
<1>6. Within(lg, t)
  BY <1>1, <1>4 DEF Core, Within
<1>7. InOrder(kd, t)
  <2>1. p <= s.asked /\ p \in Nat
    BY <1>2, <1>3
  <2>2. \A i \in DOMAIN t.queue : p < t.queue[i] /\ t.queue[i] <= s.asked
    <3> SUFFICES ASSUME NEW i \in DOMAIN t.queue PROVE p < t.queue[i] /\ t.queue[i] <= s.asked
      OBVIOUS
    <3>1. i + 1 \in DOMAIN q /\ t.queue[i] = q[i + 1] /\ i + 1 # 1
      BY <1>2, <1>4
    <3> QED  BY <1>3, <3>1
  <2>3. ASSUME NEW i \in DOMAIN t.queue, NEW j \in DOMAIN t.queue, i < j PROVE t.queue[i] < t.queue[j]
    <3>1. i + 1 \in DOMAIN q /\ t.queue[i] = q[i + 1] /\ j + 1 \in DOMAIN q /\ t.queue[j] = q[j + 1]
          /\ i + 1 < j + 1
      BY <1>2, <1>4, <2>3
    <3> QED  BY <1>1, <3>1 DEF Core, InOrder, q
  <2> QED  BY <1>1, <1>4, <2>1, <2>2, <2>3 DEF Core, InOrder
<1>8. Unsent(s, p) /\ \A x \in Op : Unsent(t, x) => Unsent(s, x) /\ x # p
  <2>1. Unsent(s, p)
    BY <1>2 DEF Unsent, q
  <2> SUFFICES ASSUME NEW x \in Op, Unsent(t, x) PROVE Unsent(s, x) /\ x # p
    BY <2>1
  <2>2. CASE x > s.asked
    BY <1>1, <1>2, <1>3, <2>2, OpIs DEF Unsent
  <2>3. CASE \E i \in DOMAIN t.queue : x = t.queue[i]
    <3>1. PICK i \in DOMAIN t.queue : x = t.queue[i]
      BY <2>3
    <3>2. i + 1 \in DOMAIN q /\ x = q[i + 1] /\ i + 1 # 1
      BY <1>2, <1>4, <3>1
    <3>3. p < x /\ p \in Nat /\ x \in Nat
      BY <1>2, <1>3, <3>2
    <3> QED  BY <3>2, <3>3 DEF Unsent, q
  <2> QED  BY <1>4, <2>2, <2>3 DEF Unsent
<1>9. /\ s.late[p] = 0 /\ s.recon.op # p /\ \A k \in DOMAIN lg : lg[k].op # p
  BY <1>1, <1>2, <1>8 DEF Core, UnsentOK
<1>10. UnsentOK(lg, t)
  BY <1>1, <1>4, <1>8 DEF Core, UnsentOK
<1>11. RequestOK(lg, t)
  BY <1>1, <1>2, <1>4, <1>5, <1>9, OpIs DEF Core, RequestOK
<1>12. SlotOK(kd, lg, t)
  <2>1. t.base[p] = s.rev
    BY <1>1, <1>2, <1>4
  <2>2. \A k \in 1..s.rev : k \in DOMAIN lg
    BY <1>1 DEF Core, Within
  <2> QED  BY <1>1, <1>4, <1>9, <2>1, <2>2 DEF SlotOK
<1>13. PagedOK(kd, t)
  BY <1>1, <1>4 DEF Core, PagedOK
<1>14. HitsOK(lg, t.base)
  <2> SUFFICES ASSUME NEW j \in DOMAIN lg, NEW k \in DOMAIN lg, lg[j].op \in lg[k].hits
               PROVE  k < j /\ k <= t.base[lg[j].op]
    BY DEF HitsOK
  <2>1. k < j /\ k <= s.base[lg[j].op]
    BY <1>1 DEF Core, HitsOK
  <2>2. lg[j].op # p /\ lg[j].op \in Op
    <3>1. lg[k] \in Entry
      OBVIOUS
    <3> QED  BY <1>9, <3>1 DEF Entry
  <2> QED  BY <1>1, <1>4, <2>1, <2>2
<1>15. ViewOK(kd, lg, t)
  <2>1. PresentIn(kd, t) = PresentIn(kd, s)
    <3>1. ASSUME NEW x \in PresentIn(kd, t) PROVE x \in PresentIn(kd, s)
      <4>1. CASE x = p /\ EditIn(kd, p)
        BY <1>2, <4>1 DEF PresentIn, q
      <4>2. CASE EditIn(kd, x) /\ \E i \in DOMAIN t.queue : x = t.queue[i]
        <5>1. PICK i \in DOMAIN t.queue : x = t.queue[i]
          BY <4>2
        <5>2. i + 1 \in DOMAIN q /\ x = q[i + 1]
          BY <1>2, <1>4, <5>1
        <5> QED  BY <3>1, <4>2, <5>2 DEF PresentIn, q
      <4> QED  BY <1>4, <3>1, <4>1, <4>2 DEF PresentIn
    <3>2. ASSUME NEW x \in PresentIn(kd, s) PROVE x \in PresentIn(kd, t)
      <4>1. PICK i \in DOMAIN q : x = q[i] /\ EditIn(kd, x) /\ x \in Op
        BY <1>5, <3>2 DEF PresentIn, q
      <4>2. CASE i = 1
        BY <1>2, <1>4, <4>1, <4>2 DEF PresentIn
      <4>3. CASE i # 1
        <5>1. i - 1 \in DOMAIN t.queue /\ t.queue[i - 1] = x
          BY <1>2, <1>4, <4>1, <4>3
        <5> QED  BY <4>1, <5>1 DEF PresentIn
      <4> QED  BY <4>2, <4>3
    <3> QED  BY <3>1, <3>2
  <2> QED  BY <1>1, <1>4, <2>1 DEF ViewOK
<1> QED  BY <1>4, <1>6, <1>7, <1>10, <1>11, <1>12, <1>13, <1>14, <1>15 DEF Good, Core

\* next_outgoing.
LEMMA DrainKeeps ==
  ASSUME Setting, NEW s, GoodNow(s)
  PROVE  GoodNow(Drain(s))
<1> DEFINE kd == plan.kinds
           p == Head(s.queue)
           f == [op |-> p, st |-> "sent", at |-> 0, present |-> IsEdit(p)]
           x == [op |-> p, st |-> "sent", at |-> 0]
           b == [s.base EXCEPT ![p] = s.rev]
           q == Tail(s.queue)
           t == [s EXCEPT !.queue = q, !.fl = f, !.base = b, !.req = x]
<1>1. CASE s.phase # "live" \/ s.fl.op # NoOp \/ s.queue = <<>>
  BY <1>1 DEF Drain
<1>2. CASE ~(s.phase # "live" \/ s.fl.op # NoOp \/ s.queue = <<>>)
  <2>1. /\ s \in MirrorType /\ s.queue \in Seq(Op) /\ s.base \in [Op -> Nat] /\ s.rev \in Nat
        /\ s.queue # <<>> /\ s.phase = "live" /\ s.fl.op = NoOp
    BY <1>2 DEF GoodNow, Good, Core, MirrorType
  <2>2. p \in Op /\ q \in Seq(Op)
    BY <2>1
  <2>3. IsEdit(p) = EditIn(kd, p) /\ IsEdit(p) \in BOOLEAN
    BY DEF IsEdit, EditIn, NoOp
  <2>4. Drain(s) = t
    <3>1. Drain(s) = [[s EXCEPT !.queue = Tail(s.queue), !.fl = f, !.base[p] = s.rev] EXCEPT !.req = x]
      BY <1>2 DEF Drain, Request
    <3> HIDE DEF p, f, x
    <3> QED  BY <2>1, <3>1 DEF MirrorType
  <2>5. f \in SlotType /\ x \in RequestType /\ b \in [Op -> Nat]
    <3> HIDE DEF p
    <3> QED  BY <2>1, <2>2, <2>3 DEF SlotType, RequestType, Ops
  <2>6. /\ t \in MirrorType /\ t.fl = f /\ t.req = x /\ t.queue = q /\ t.base = b
        /\ t.phase = s.phase /\ t.rev = s.rev /\ t.asked = s.asked
        /\ t.waiting = s.waiting /\ t.late = s.late
        /\ t.recon = s.recon /\ t.reads = s.reads /\ t.due = s.due /\ t.paging = s.paging
        /\ t.buffered = s.buffered /\ t.view = s.view
    <3> HIDE DEF p, f, x, b, q
    <3> QED  BY <2>1, <2>2, <2>5 DEF MirrorType
  <2> HIDE DEF t
  <2>7. DrainedFrom(kd, s, t, p)
    BY <2>3, <2>6 DEF DrainedFrom
  <2> HIDE DEF f, x, b, q
  <2> QED  BY <2>1, <2>4, <2>7, DrainedKeeps DEF GoodNow, Setting
<1> QED  BY <1>1, <1>2

-----------------------------------------------------------------------------

\* The controller forgets a request: the view stays.
LEMMA UnlistenGood ==
  ASSUME NEW kd, NEW lg, NEW s, Good(kd, lg, s)
  PROVE  /\ Good(kd, lg, Unlisten(s)) /\ Unlisten(s).req = NoReq /\ Unlisten(s).fl = s.fl
         /\ Unlisten(s).waiting = s.waiting /\ Unlisten(s).recon = s.recon
<1> DEFINE t == Unlisten(s)
<1>1. s \in MirrorType /\ t \in MirrorType /\ Core(kd, lg, t) /\ ViewOK(kd, lg, s)
  BY UnlistenType, UnlistenKeeps DEF Good, Core
<1>2. SameView(s, t) /\ t.req = NoReq /\ t.fl = s.fl /\ t.waiting = s.waiting /\ t.recon = s.recon
  BY <1>1 DEF Unlisten, MirrorType, SameView
<1> HIDE DEF t
<1> QED  BY <1>1, <1>2, SameViewKeeps DEF Good, t

\* on_deadline.
LEMMA OnDeadlineKeeps ==
  ASSUME Setting, NEW s, GoodNow(s), s.req.st = "none", ~s.waiting, s.recon.op # s.fl.op
  PROVE  GoodNow(OnDeadline(s))
<1> DEFINE kd == plan.kinds
<1>1. s \in MirrorType /\ Core(kd, log, s) /\ ViewOK(kd, log, s) /\ Len(log) \in Nat
  BY LogIs DEF GoodNow, Good, Core
<1>2. CASE s.fl.st = "sent"
  <2> DEFINE f == [s.fl EXCEPT !.st = "uncertain"]
             t == [s EXCEPT !.fl = f]
  <2>1. s.fl \in SlotType
    BY <1>1 DEF MirrorType
  <2>2. f \in SlotType /\ f.op = s.fl.op /\ f.st = "uncertain" /\ f.present = s.fl.present
    BY <2>1 DEF SlotType
  <2>3. OnDeadline(s) = StartRecon(t)
    <3>1. [s EXCEPT !.fl.st = "uncertain"] = t
      BY <1>1 DEF MirrorType
    <3> QED  BY <1>2, <3>1 DEF OnDeadline
  <2> HIDE DEF f
  <2>4. SlotOf(s, t, f)
    BY <1>1, <2>2 DEF SlotOf, MirrorType
  <2> HIDE DEF t
  <2>5. Within(log, t) /\ UnsentOK(log, t) /\ HitsOK(log, t.base)
    BY <1>1, <2>4 DEF SlotOf, Core, Within, UnsentOK, Unsent, HitsOK
  <2>6. InOrder(kd, t)
    BY <1>1, <2>2, <2>4 DEF SlotOf, Core, InOrder
  <2>7. RequestOK(log, t)
    BY <1>1, <1>2, <2>2, <2>4 DEF SlotOf, Core, RequestOK
  <2>8. SlotOK(kd, log, t) /\ PagedOK(kd, t)
    BY <1>1, <1>2, <2>2, <2>4 DEF SlotOf, Core, SlotOK, PagedOK
  <2>9. Core(kd, log, t)
    BY <2>4, <2>5, <2>6, <2>7, <2>8 DEF Core, SlotOf
  <2>10. ViewOK(kd, log, t)
    <3>1. PresentIn(kd, t) = PresentIn(kd, s)
      BY <2>2, <2>4 DEF SlotOf, PresentIn
    <3> QED  BY <1>1, <2>4, <3>1 DEF SlotOf, ViewOK
  <2>11. t.fl.st = "uncertain" /\ t.req.st = "none" /\ ~t.waiting
    BY <2>2, <2>4 DEF SlotOf
  <2>12. Core(kd, log, StartRecon(t)) /\ SameView(t, StartRecon(t))
    BY <1>1, <2>9, <2>11, StartReconKeeps
  <2>13. ViewOK(kd, log, StartRecon(t))
    BY <2>10, <2>12, SameViewKeeps
  <2> QED  BY <2>3, <2>12, <2>13 DEF GoodNow, Good
<1>3. CASE s.fl.st = "doomed" /\ s.recon = NoRecon
  <2>1. OnDeadline(s) = StartRecon(s)
    BY <1>3 DEF OnDeadline
  <2>2. Core(kd, log, StartRecon(s)) /\ SameView(s, StartRecon(s))
    BY <1>1, <1>3, StartReconKeeps
  <2>3. ViewOK(kd, log, StartRecon(s))
    BY <1>1, <2>2, SameViewKeeps
  <2> QED  BY <2>1, <2>2, <2>3 DEF GoodNow, Good
<1>4. CASE s.fl.st # "sent" /\ ~(s.fl.st = "doomed" /\ s.recon = NoRecon)
  BY <1>4 DEF OnDeadline
<1> QED  BY <1>2, <1>3, <1>4

\* The mirror asks for its next operation.
AskNext(s) ==
  LET p == s.asked + 1
      t == [s EXCEPT !.asked = p, !.queue = Append(@, p)]
  IN IF IsEdit(p) THEN [t EXCEPT !.view = With(@, {p})] ELSE t

\* The user types.
LEMMA AskKeeps ==
  ASSUME Setting, NEW s, GoodNow(s), s.asked < Len(plan.kinds),
         IsEdit(s.asked + 1) => s.phase = "live"
  PROVE  GoodNow(AskNext(s))
<1> DEFINE kd == plan.kinds
           p == s.asked + 1
           q == Append(s.queue, p)
           v == IF IsEdit(p) THEN With(s.view, {p}) ELSE s.view
           t == [s EXCEPT !.asked = p, !.queue = q, !.view = v]
<1>1. /\ s \in MirrorType /\ Core(kd, log, s) /\ ViewOK(kd, log, s) /\ s.queue \in Seq(Op)
      /\ s.asked \in Nat /\ s.view \in TextType /\ s.rev \in Nat /\ s.fl.present \in BOOLEAN
  BY DEF GoodNow, Good, Core, MirrorType, SlotType
<1>2. p \in Op /\ p \in Nat /\ p > s.asked /\ p <= Len(kd)
  <2>1. Len(kd) \in Nat /\ DOMAIN kd = 1..Len(kd)
    BY DEF Setting
  <2> QED  BY <1>1, <2>1 DEF Setting
<1>3. IsEdit(p) = EditIn(kd, p)
  BY DEF IsEdit, EditIn, NoOp
<1>4. AskNext(s) = t
  <2>1. CASE IsEdit(p)
    <3>1. AskNext(s) = [[s EXCEPT !.asked = p, !.queue = q] EXCEPT !.view = With(@, {p})]
      BY <2>1 DEF AskNext
    <3>2. [s EXCEPT !.asked = p, !.queue = q].view = s.view
      BY <1>1 DEF MirrorType
    <3> HIDE DEF q
    <3> QED  BY <1>1, <2>1, <3>1, <3>2 DEF MirrorType
  <2>2. CASE ~IsEdit(p)
    <3>1. AskNext(s) = [s EXCEPT !.asked = p, !.queue = q]
      BY <2>2 DEF AskNext
    <3> HIDE DEF q
    <3> QED  BY <1>1, <2>2, <3>1 DEF MirrorType
  <2> QED  BY <2>1, <2>2
<1>5. v \in TextType
  BY <1>1, WithIs
<1>6. /\ q \in Seq(Op)
      /\ \A i \in DOMAIN q : (i \in DOMAIN s.queue /\ q[i] = s.queue[i]) \/ (q[i] = p /\ \A j \in DOMAIN s.queue : j < i)
      /\ \A i \in DOMAIN s.queue : i \in DOMAIN q /\ q[i] = s.queue[i]
      /\ \E i \in DOMAIN q : q[i] = p
  <2>1. Len(s.queue) \in Nat /\ DOMAIN s.queue = 1..Len(s.queue) /\ q \in Seq(Op)
        /\ DOMAIN q = 1..(Len(s.queue) + 1) /\ q[Len(s.queue) + 1] = p
    BY <1>1, <1>2
  <2>2. \A i \in 1..Len(s.queue) : q[i] = s.queue[i]
    BY <1>1, <1>2
  <2> QED  BY <2>1, <2>2
<1> HIDE DEF p, q, v
<1>7. /\ t \in MirrorType /\ t.asked = p /\ t.queue = q /\ t.view = v
      /\ t.phase = s.phase /\ t.rev = s.rev /\ t.fl = s.fl
      /\ t.waiting = s.waiting /\ t.req = s.req /\ t.late = s.late /\ t.base = s.base
      /\ t.recon = s.recon /\ t.reads = s.reads /\ t.due = s.due /\ t.paging = s.paging
      /\ t.buffered = s.buffered
  BY <1>1, <1>2, <1>5, <1>6 DEF MirrorType
<1> HIDE DEF t
<1>8. Within(log, t) /\ RequestOK(log, t) /\ SlotOK(kd, log, t) /\ HitsOK(log, t.base)
  BY <1>1, <1>7 DEF Core, Within, RequestOK, SlotOK, HitsOK
<1>9. /\ s.fl.op \in Nat /\ s.fl.op <= s.asked
      /\ \A i \in DOMAIN s.queue : s.queue[i] \in Nat /\ s.fl.op < s.queue[i] /\ s.queue[i] <= s.asked
  BY <1>1, PresentSlot, OpIs DEF Core, InOrder
<1>10. InOrder(kd, t)
  <2>1. p <= Len(kd) /\ s.fl.op <= p
    BY <1>1, <1>2, <1>9
  <2>2. ASSUME NEW i \in DOMAIN q PROVE s.fl.op < q[i] /\ q[i] <= p
    BY <1>1, <1>2, <1>6, <1>9
  <2>3. ASSUME NEW i \in DOMAIN q, NEW j \in DOMAIN q, i < j PROVE q[i] < q[j]
    <3>1. i \in Nat /\ j \in Nat
      BY <1>6
    <3>2. CASE j \in DOMAIN s.queue /\ q[j] = s.queue[j]
      <4>1. i \in DOMAIN s.queue /\ q[i] = s.queue[i]
        BY <1>6, <2>3, <3>1, <3>2
      <4> QED  BY <1>1, <2>3, <3>2, <4>1 DEF Core, InOrder
    <3>3. CASE q[j] = p /\ \A k \in DOMAIN s.queue : k < j
      <4>1. i \in DOMAIN s.queue /\ q[i] = s.queue[i]
        <5>1. DOMAIN q = 1..Len(q) /\ Len(q) \in Nat /\ DOMAIN s.queue = 1..Len(s.queue) /\ Len(s.queue) \in Nat
          BY <1>1, <1>6
        <5>2. Len(q) = Len(s.queue) + 1
          BY <1>1, <1>2 DEF q
        <5>3. i \in 1..Len(s.queue)
          BY <2>3, <5>1, <5>2
        <5> QED  BY <1>6, <5>1, <5>3
      <4> QED  BY <1>1, <1>2, <1>9, <3>3, <4>1
    <3> QED  BY <1>6, <3>2, <3>3
  <2> QED  BY <1>7, <2>1, <2>2, <2>3 DEF InOrder
<1>11. UnsentOK(log, t)
  <2>1. ASSUME NEW x \in Op, Unsent(t, x) PROVE Unsent(s, x)
    <3>1. x \in Nat
      BY OpIs
    <3>2. CASE x > p
      BY <1>1, <1>2, <3>1, <3>2 DEF Unsent
    <3>3. CASE \E i \in DOMAIN q : x = q[i]
      BY <1>2, <1>6, <3>3 DEF Unsent
    <3> QED  BY <1>7, <2>1, <3>2, <3>3 DEF Unsent
  <2> QED  BY <1>1, <1>7, <2>1 DEF Core, UnsentOK
<1>12. PagedOK(kd, t)
  <2>1. s.paging => s.phase = "snapshot" /\ ~s.due /\ (\A i \in DOMAIN s.queue : ~EditIn(kd, s.queue[i]))
                    /\ (EditIn(kd, s.fl.op) => s.fl.st = "replied")
    BY <1>1 DEF Core, PagedOK
  <2>2. s.paging => ~EditIn(kd, p)
    BY <1>3, <2>1 DEF p
  <2>3. s.paging => \A i \in DOMAIN q : ~EditIn(kd, q[i])
    BY <1>6, <2>1, <2>2
  <2> QED  BY <1>1, <1>7, <2>1, <2>3 DEF Core, PagedOK
<1>13. ViewOK(kd, log, t)
  <2> SUFFICES ASSUME s.phase # "snapshot" PROVE v = With(TextIn(log, s.rev), PresentIn(kd, t))
    BY <1>7 DEF ViewOK
  <2>1. s.view = With(TextIn(log, s.rev), PresentIn(kd, s)) /\ TextIn(log, s.rev) \in TextType
    BY <1>1, TextIs DEF ViewOK
  <2>2. CASE EditIn(kd, p)
    <3>1. v = With(s.view, {p})
      BY <1>3, <2>2 DEF v
    <3>2. PresentIn(kd, s) \cap {p} = {}
      <4>1. p # s.fl.op /\ \A i \in DOMAIN s.queue : s.queue[i] # p
        BY <1>1, <1>2, <1>9
      <4> QED  BY <4>1 DEF PresentIn
    <3>3. PresentIn(kd, t) = PresentIn(kd, s) \cup {p}
      BY <1>2, <1>6, <1>7, <2>2 DEF PresentIn
    <3> QED  BY <2>1, <3>1, <3>2, <3>3, WithMore
  <2>3. CASE ~EditIn(kd, p)
    <3>1. v = s.view
      BY <1>3, <2>3 DEF v
    <3>2. PresentIn(kd, t) = PresentIn(kd, s)
      BY <1>6, <1>7, <2>3 DEF PresentIn
    <3> QED  BY <2>1, <3>1, <3>2
  <2> QED  BY <2>2, <2>3
<1> QED  BY <1>4, <1>7, <1>8, <1>10, <1>11, <1>12, <1>13 DEF GoodNow, Good, Core

\* Reads come and go.
LEMMA ReadsKeep ==
  ASSUME NEW kd, NEW lg, NEW s, Good(kd, lg, s), NEW rs \in SUBSET ReadType,
         \A rd \in rs : rd.ans.rev <= Len(lg)
  PROVE  Good(kd, lg, [s EXCEPT !.reads = rs])
<1> DEFINE t == [s EXCEPT !.reads = rs]
<1>1. s \in MirrorType /\ Core(kd, lg, s) /\ ViewOK(kd, lg, s)
  BY DEF Good, Core
<1>2. /\ t \in MirrorType /\ t.reads = rs
      /\ t.phase = s.phase /\ t.rev = s.rev /\ t.asked = s.asked /\ t.fl = s.fl /\ t.queue = s.queue
      /\ t.waiting = s.waiting /\ t.req = s.req /\ t.late = s.late /\ t.base = s.base
      /\ t.recon = s.recon /\ t.due = s.due /\ t.paging = s.paging
      /\ t.buffered = s.buffered /\ t.view = s.view
  BY <1>1 DEF MirrorType
<1> HIDE DEF t
<1>3. Within(lg, t) /\ InOrder(kd, t) /\ UnsentOK(lg, t) /\ HitsOK(lg, t.base)
  BY <1>1, <1>2 DEF Core, Within, InOrder, UnsentOK, Unsent, HitsOK
<1>4. RequestOK(lg, t) /\ SlotOK(kd, lg, t) /\ PagedOK(kd, t)
  BY <1>1, <1>2 DEF Core, RequestOK, SlotOK, PagedOK
<1>5. ViewOK(kd, lg, t)
  BY <1>1, <1>2, SameViewKeeps DEF SameView
<1> QED  BY <1>2, <1>3, <1>4, <1>5 DEF Good, Core, t

\* The request is answered, or its answer taken.
LEMMA RequestKeeps ==
  ASSUME NEW kd, NEW lg, NEW s, Good(kd, lg, s), NEW x \in RequestType, s.req.st # "none",
         x = NoReq \/ (x.st # "none" /\ x.op = s.fl.op),
         x.st = "ok" => x.at \in DOMAIN lg /\ lg[x.at].op = s.fl.op
  PROVE  /\ Good(kd, lg, [s EXCEPT !.req = x])
         /\ [s EXCEPT !.req = x].fl = s.fl /\ [s EXCEPT !.req = x].req = x
         /\ [s EXCEPT !.req = x].waiting = s.waiting /\ [s EXCEPT !.req = x].recon = s.recon
<1> DEFINE t == [s EXCEPT !.req = x]
<1>1. s \in MirrorType /\ Core(kd, lg, s) /\ ViewOK(kd, lg, s)
  BY DEF Good, Core
<1>2. /\ t \in MirrorType /\ t.req = x
      /\ t.phase = s.phase /\ t.rev = s.rev /\ t.asked = s.asked /\ t.fl = s.fl /\ t.queue = s.queue
      /\ t.waiting = s.waiting /\ t.reads = s.reads /\ t.late = s.late /\ t.base = s.base
      /\ t.recon = s.recon /\ t.due = s.due /\ t.paging = s.paging
      /\ t.buffered = s.buffered /\ t.view = s.view
  BY <1>1 DEF MirrorType
<1>0. NoReq.op = NoOp /\ NoReq.st = "none" /\ s.req.op = s.fl.op
  BY <1>1 DEF NoReq, Core, RequestOK
<1> HIDE DEF t
<1>3. Within(lg, t) /\ InOrder(kd, t) /\ HitsOK(lg, t.base)
  BY <1>1, <1>2 DEF Core, Within, InOrder, HitsOK
<1>4. SlotOK(kd, lg, t) /\ PagedOK(kd, t)
  BY <1>1, <1>2 DEF Core, SlotOK, PagedOK
<1>5. UnsentOK(lg, t)
  <2> SUFFICES ASSUME NEW p \in Op, Unsent(s, p)
               PROVE  /\ x.op # p /\ s.late[p] = 0 /\ s.recon.op # p
                      /\ \A k \in DOMAIN lg : lg[k].op # p
    BY <1>2 DEF UnsentOK, Unsent
  <2> QED  BY <1>0, <1>1, OpIs DEF Core, UnsentOK
<1>6. RequestOK(lg, t)
  BY <1>0, <1>1, <1>2 DEF Core, RequestOK
<1>7. ViewOK(kd, lg, t)
  BY <1>1, <1>2, SameViewKeeps DEF SameView
<1> QED  BY <1>2, <1>3, <1>4, <1>5, <1>6, <1>7 DEF Good, Core, t

\* A request nobody listens to is served.
LEMMA LateKeeps ==
  ASSUME NEW kd, NEW lg, NEW s, Good(kd, lg, s), NEW l \in [Op -> Nat],
         \A p \in Op : s.late[p] = 0 => l[p] = 0
  PROVE  Good(kd, lg, [s EXCEPT !.late = l])
<1> DEFINE t == [s EXCEPT !.late = l]
<1>1. s \in MirrorType /\ Core(kd, lg, s) /\ ViewOK(kd, lg, s)
  BY DEF Good, Core
<1>2. /\ t \in MirrorType /\ t.late = l
      /\ t.phase = s.phase /\ t.rev = s.rev /\ t.asked = s.asked /\ t.fl = s.fl /\ t.queue = s.queue
      /\ t.waiting = s.waiting /\ t.reads = s.reads /\ t.req = s.req /\ t.base = s.base
      /\ t.recon = s.recon /\ t.due = s.due /\ t.paging = s.paging
      /\ t.buffered = s.buffered /\ t.view = s.view
  BY <1>1 DEF MirrorType
<1> HIDE DEF t
<1>3. Within(lg, t) /\ InOrder(kd, t) /\ HitsOK(lg, t.base)
  BY <1>1, <1>2 DEF Core, Within, InOrder, HitsOK
<1>4. SlotOK(kd, lg, t) /\ PagedOK(kd, t) /\ RequestOK(lg, t)
  BY <1>1, <1>2 DEF Core, SlotOK, PagedOK, RequestOK
<1>5. UnsentOK(lg, t)
  BY <1>1, <1>2 DEF Core, UnsentOK, Unsent
<1>7. ViewOK(kd, lg, t)
  BY <1>1, <1>2, SameViewKeeps DEF SameView
<1> QED  BY <1>2, <1>3, <1>4, <1>5, <1>7 DEF Good, Core, t

-----------------------------------------------------------------------------
(* The log grows. *)

\* A text does not depend on later entries.
LEMMA SameTextLonger ==
  ASSUME NEW lg \in Seq(Entry), NEW e, NEW r \in Nat, r <= Len(lg)
  PROVE  TextIn(Append(lg, e), r) = TextIn(lg, r)
<1>1. \A k \in 1..r : Append(lg, e)[k] = lg[k]
  <2>1. Len(lg) \in Nat /\ DOMAIN lg = 1..Len(lg)
    OBVIOUS
  <2>2. \A k \in 1..Len(lg) : Append(lg, e)[k] = lg[k]
    BY AppendProperties
  <2> QED  BY <2>1, <2>2
<1> DEFINE a == Append(lg, e)
<1> HIDE DEF a
<1>2. \A p : {k \in 1..r : a[k].op = p} = {k \in 1..r : lg[k].op = p}
  BY <1>1 DEF a
<1>3. TextIn(a, r) = TextIn(lg, r)
  BY <1>2 DEF TextIn
<1> QED  BY <1>3 DEF a

\* The mirror stays right when the log grows.
LEMMA GrowKeeps ==
  ASSUME NEW kd, NEW lg \in Seq(Entry), NEW e \in Entry, NEW s, Good(kd, lg, s),
         HitsOK(Append(lg, e), s.base), \A p \in Op : Unsent(s, p) => e.op # p
  PROVE  Good(kd, Append(lg, e), s)
<1> DEFINE a == Append(lg, e)
<1>1. s \in MirrorType /\ Core(kd, lg, s) /\ ViewOK(kd, lg, s) /\ s.rev \in Nat /\ s.rev <= Len(lg)
  BY DEF Good, Core, MirrorType, Within
<1>2. /\ Len(lg) \in Nat /\ Len(a) = Len(lg) + 1 /\ DOMAIN lg = 1..Len(lg) /\ DOMAIN a = 1..(Len(lg) + 1)
      /\ a[Len(lg) + 1] = e /\ \A k \in DOMAIN lg : a[k] = lg[k] /\ k \in DOMAIN a
  <2>1. Len(lg) \in Nat /\ DOMAIN lg = 1..Len(lg)
    OBVIOUS
  <2>2. a \in Seq(Entry) /\ Len(a) = Len(lg) + 1 /\ a[Len(lg) + 1] = e /\ \A k \in 1..Len(lg) : a[k] = lg[k]
    BY AppendProperties
  <2>3. DOMAIN a = 1..(Len(lg) + 1)
    BY <2>2
  <2> QED  BY <2>1, <2>2, <2>3
<1>3. TextIn(a, s.rev) = TextIn(lg, s.rev)
  BY <1>1, SameTextLonger
<1> HIDE DEF a
<1>4. Within(a, s)
  <2>1. \A i \in DOMAIN s.buffered : s.buffered[i] \in 1..Len(lg)
    BY <1>1 DEF Core, Within
  <2>2. \A rd \in s.reads : rd.ans.rev <= Len(lg) /\ rd.ans.rev \in Nat
    BY <1>1 DEF Core, Within, MirrorType, ReadType
  <2> QED  BY <1>1, <1>2, <2>1, <2>2 DEF Within
<1>5. UnsentOK(a, s)
  <2> SUFFICES ASSUME NEW p \in Op, Unsent(s, p)
               PROVE  /\ s.req.op # p /\ s.late[p] = 0 /\ s.recon.op # p
                      /\ \A k \in DOMAIN a : a[k].op # p
    BY DEF UnsentOK
  <2>1. /\ s.req.op # p /\ s.late[p] = 0 /\ s.recon.op # p
        /\ \A k \in DOMAIN lg : lg[k].op # p
    BY <1>1 DEF Core, UnsentOK
  <2>2. ASSUME NEW k \in DOMAIN a PROVE a[k].op # p
    <3>1. k \in DOMAIN lg \/ k = Len(lg) + 1
      BY <1>2
    <3> QED  BY <1>2, <2>1, <3>1
  <2> QED  BY <2>1, <2>2
<1>6. RequestOK(a, s)
  BY <1>1, <1>2 DEF Core, RequestOK
<1>7. SlotOK(kd, a, s)
  <2>1. \A k \in 1..s.rev : a[k] = lg[k]
    BY <1>1, <1>2
  <2> QED  BY <1>1, <1>2, <2>1 DEF Core, SlotOK
<1>8. Core(kd, a, s)
  BY <1>1, <1>4, <1>5, <1>6, <1>7 DEF Core, a
<1>9. ViewOK(kd, a, s)
  BY <1>1, <1>3 DEF ViewOK
<1> QED  BY <1>8, <1>9 DEF Good, a

-----------------------------------------------------------------------------
(* The invariant. *)

\* What travels to the mirror.
FrameType == [kind : {"edit", "oversized", "resync", "other"}, rev : Nat, gap : BOOLEAN]

\* The publisher and the connection know of revs of the log only.
QueuedOK(lg, q) == q \in Seq(Nat) /\ \A i \in DOMAIN q : q[i] \in DOMAIN lg
\* So do the frames on their way.
FramesOK(lg, c) ==
  c \in Seq(FrameType) /\ \A i \in DOMAIN c : c[i].kind \in {"edit", "oversized"} => c[i].rev \in DOMAIN lg

\* Only edits are overlapped.
HitsEdits(kd, lg) == \A k \in DOMAIN lg : \A p \in lg[k].hits : EditIn(kd, p)

\* The daemon, the publisher and the connection.
WorldOK ==
  /\ plan \in Budgets /\ DOMAIN plan.kinds \subseteq Op
  /\ HitsEdits(plan.kinds, log)
  /\ QueuedOK(log, pubq) /\ FramesOK(log, chan)
  /\ owed \in BOOLEAN /\ missed \in BOOLEAN

\* The inductive invariant.
MirrorInv == Inv /\ WorldOK /\ GoodNow(m)

\* What the mirror's lemmas assume.
LEMMA SettingIs ==
  ASSUME MirrorInv
  PROVE  Setting
BY DEF MirrorInv, WorldOK, Inv, CacheInv, CacheType, Setting, Budgets

\* The steps that leave the log alone.
Stays == log' = log /\ plan'.kinds = plan.kinds

\* A mirror that is right under the same log stays so.
LEMMA GoodStays ==
  ASSUME Stays, NEW s, GoodNow(s), m' = s
  PROVE  GoodNow(m)'
<1>1. Good(plan.kinds, log, s)
  BY DEF GoodNow
<1>2. Good(plan'.kinds, log', m')
  BY <1>1 DEF Stays
<1> QED  BY <1>2 DEF GoodNow

-----------------------------------------------------------------------------
(* The steps that leave the log alone, and those of them that change the mirror. *)

\* What Spend is called with.
Counters == {"repeats", "asides", "unread", "losses", "silents", "others", "reconnects", "deadlines", "refusals", "busies"}

\* A budget spent is a budget, with the kinds it had.
LEMMA SpendKeeps ==
  ASSUME plan \in Budgets, NEW what \in Counters, Has(what), Spend(what)
  PROVE  plan' \in Budgets /\ plan'.kinds = plan.kinds
<1> DEFINE n == plan[what] - 1
<1>1. n \in Nat
  <2>1. plan[what] \in Nat
    BY DEF Counters, Budgets
  <2>2. plan[what] > 0
    BY DEF Has
  <2> QED  BY <2>1, <2>2
<1>2. plan' = [plan EXCEPT ![what] = n]
  BY DEF Spend
<1> HIDE DEF n
<1>3. CASE what = "repeats"
  BY <1>1, <1>2, <1>3 DEF Budgets
<1>4. CASE what = "losses"
  BY <1>1, <1>2, <1>4 DEF Budgets
<1>5. CASE what = "silents"
  BY <1>1, <1>2, <1>5 DEF Budgets
<1>6. CASE what = "others"
  BY <1>1, <1>2, <1>6 DEF Budgets
<1>7. CASE what = "reconnects"
  BY <1>1, <1>2, <1>7 DEF Budgets
<1>8. CASE what = "deadlines"
  BY <1>1, <1>2, <1>8 DEF Budgets
<1>9. CASE what = "refusals"
  BY <1>1, <1>2, <1>9 DEF Budgets
<1>10. CASE what = "busies"
  BY <1>1, <1>2, <1>10 DEF Budgets
<1>11. CASE what = "asides"
  BY <1>1, <1>2, <1>11 DEF Budgets
<1>12. CASE what = "unread"
  BY <1>1, <1>2, <1>12 DEF Budgets
<1> QED  BY <1>3, <1>4, <1>5, <1>6, <1>7, <1>8, <1>9, <1>10, <1>11, <1>12 DEF Counters

\* The log and the kinds stay, the plan stays a plan.
LEMMA WorldStays ==
  ASSUME MirrorInv, Stays, plan' \in Budgets, QueuedOK(log, pubq'), FramesOK(log, chan'),
         owed' \in BOOLEAN, missed' \in BOOLEAN
  PROVE  WorldOK'
BY DEF MirrorInv, WorldOK, Stays, QueuedOK, FramesOK, HitsEdits, EditIn

\* The publisher and the connection stay as they are.
LEMMA QuietStays ==
  ASSUME MirrorInv, Stays, plan' \in Budgets, UNCHANGED <<pubq, owed, chan, missed>>
  PROVE  WorldOK'
BY WorldStays DEF MirrorInv, WorldOK

\* Step: the user types.
LEMMA AskStep ==
  ASSUME MirrorInv, Ask
  PROVE  WorldOK' /\ GoodNow(m)'
<1>1. Setting /\ GoodNow(m) /\ plan \in Budgets
  BY SettingIs DEF MirrorInv, WorldOK
<1>2. m.asked < Len(plan.kinds) /\ (IsEdit(m.asked + 1) => m.phase = "live") /\ UNCHANGED <<plan, server>>
  BY DEF Ask
<1>3. m' = Drain(AskNext(m))
  BY DEF Ask, AskNext
<1>4. GoodNow(Drain(AskNext(m)))
  BY <1>1, <1>2, AskKeeps, DrainKeeps
<1>5. Stays /\ plan' \in Budgets /\ UNCHANGED <<pubq, owed, chan, missed>>
  BY <1>1, <1>2 DEF Stays, server
<1> QED  BY <1>3, <1>4, <1>5, GoodStays, QuietStays

\* Step: a frame arrives.
LEMMA DeliverStep ==
  ASSUME MirrorInv, Deliver
  PROVE  WorldOK' /\ GoodNow(m)'
<1> DEFINE f == Head(chan)
           s == IF f.gap THEN Suspect(m) ELSE m
           t == CASE f.kind = "edit"      -> OnEdit(s, f.rev)
                  [] f.kind = "oversized" -> OnOversized(s, f.rev)
                  [] f.kind = "resync"    -> Suspect(s)
                  [] f.kind = "other"     -> s
<1>1. Setting /\ GoodNow(m) /\ plan \in Budgets /\ FramesOK(log, chan) /\ QueuedOK(log, pubq)
      /\ owed \in BOOLEAN /\ missed \in BOOLEAN
  BY SettingIs DEF MirrorInv, WorldOK
<1>2. chan # <<>> /\ chan' = Tail(chan) /\ UNCHANGED <<plan, log, dedup, pubq, owed, missed>> /\ m' = Drain(t)
  BY DEF Deliver
<1>3. f \in FrameType /\ (f.kind \in {"edit", "oversized"} => f.rev \in DOMAIN log)
  <2>1. chan \in Seq(FrameType) /\ 1 \in DOMAIN chan /\ Head(chan) = chan[1]
    BY <1>1, <1>2 DEF FramesOK
  <2> QED  BY <1>1, <2>1 DEF FramesOK
<1>4. FramesOK(log, Tail(chan))
  <2>1. chan \in Seq(FrameType) /\ Len(chan) \in Nat \ {0} /\ DOMAIN chan = 1..Len(chan)
    BY <1>1, <1>2 DEF FramesOK
  <2>2. Tail(chan) \in Seq(FrameType) /\ Len(Tail(chan)) = Len(chan) - 1
        /\ \A i \in 1..(Len(chan) - 1) : Tail(chan)[i] = chan[i + 1]
    BY <1>2, <2>1
  <2>3. \A i \in DOMAIN Tail(chan) : i + 1 \in DOMAIN chan /\ Tail(chan)[i] = chan[i + 1]
    BY <2>1, <2>2
  <2> QED  BY <1>1, <2>2, <2>3 DEF FramesOK
<1> HIDE DEF f
<1>5. GoodNow(s)
  BY <1>1, SuspectKeeps
<1> HIDE DEF s
<1>6. f.kind \in {"edit", "oversized", "resync", "other"}
  BY <1>3 DEF FrameType
<1>7. GoodNow(t)
  <2>1. CASE f.kind = "edit"
    BY <1>1, <1>3, <1>5, <2>1, OnEditKeeps
  <2>2. CASE f.kind = "oversized"
    BY <1>1, <1>3, <1>5, <2>2, OnOversizedKeeps
  <2>3. CASE f.kind = "resync"
    BY <1>1, <1>5, <2>3, SuspectKeeps
  <2>4. CASE f.kind = "other"
    BY <1>5, <2>4
  <2> QED  BY <1>6, <2>1, <2>2, <2>3, <2>4
<1> HIDE DEF t
<1>8. GoodNow(Drain(t))
  BY <1>1, <1>7, DrainKeeps
<1>9. Stays
  BY <1>2 DEF Stays
<1>10. WorldOK'
  BY <1>1, <1>2, <1>4, <1>9, WorldStays
<1> QED  BY <1>2, <1>8, <1>9, <1>10, GoodStays

\* Step: the connection comes back.
LEMMA ReconnectStep ==
  ASSUME MirrorInv, Reconnect
  PROVE  WorldOK' /\ GoodNow(m)'
<1>1. Setting /\ GoodNow(m) /\ plan \in Budgets /\ QueuedOK(log, pubq) /\ owed \in BOOLEAN
  BY SettingIs DEF MirrorInv, WorldOK
<1>2. Has("reconnects") /\ Spend("reconnects") /\ chan' = <<>> /\ missed' = FALSE
      /\ m' = Drain(Suspect(m)) /\ UNCHANGED <<log, dedup, pubq, owed>>
  BY DEF Reconnect
<1>3. plan' \in Budgets /\ Stays
  BY <1>1, <1>2, SpendKeeps DEF Counters, Stays
<1>4. FramesOK(log, <<>>)
  BY DEF FramesOK
<1>5. GoodNow(Drain(Suspect(m)))
  BY <1>1, SuspectKeeps, DrainKeeps
<1>6. WorldOK'
  BY <1>1, <1>2, <1>3, <1>4, WorldStays
<1> QED  BY <1>2, <1>3, <1>5, <1>6, GoodStays

\* Step: a reply arrives.
LEMMA ReplyStep ==
  ASSUME MirrorInv, Reply
  PROVE  WorldOK' /\ GoodNow(m)'
<1> DEFINE s == [m EXCEPT !.req = NoReq]
           t == CASE m.req.st = "ok"      -> ReplyOk(s, m.req.at)
                  [] m.req.st = "refused" -> ReplyRefused(s)
                  [] m.req.st = "busy"    -> ReplyBusy(s)
<1>1. Setting /\ GoodNow(m) /\ plan \in Budgets
  BY SettingIs DEF MirrorInv, WorldOK
<1>2. m.req.st \in {"ok", "refused", "busy"} /\ m' = Drain(WatchEcho(TrySnapshot(t))) /\ UNCHANGED <<plan, server>>
  BY DEF Reply
<1>3. m \in MirrorType /\ Good(plan.kinds, log, m) /\ RequestOK(log, m)
  BY <1>1 DEF GoodNow, Good, Core
<1>4. /\ m.fl.st \in {"sent", "doomed"} /\ ~m.waiting /\ m.recon.op # m.fl.op
      /\ m.fl.op # NoOp /\ m.fl.op \in Ops
      /\ m.req.st = "ok" => m.req.at \in DOMAIN log /\ log[m.req.at].op = m.fl.op
  BY <1>2, <1>3 DEF RequestOK, MirrorType, SlotType
<1>5. NoReq \in RequestType /\ NoReq.st = "none"
  BY DEF NoReq, RequestType, Ops
<1>6. GoodNow(s) /\ s.fl = m.fl /\ s.req = NoReq /\ s.waiting = m.waiting /\ s.recon = m.recon
  <2>1. m.req.st # "none"
    BY <1>2
  <2>2. /\ Good(plan.kinds, log, s)
        /\ s.fl = m.fl /\ s.req = NoReq /\ s.waiting = m.waiting /\ s.recon = m.recon
    BY <1>3, <1>5, <2>1, RequestKeeps
  <2> QED  BY <2>2 DEF GoodNow
<1> HIDE DEF s
<1>7. Answering(s)
  BY <1>4, <1>5, <1>6 DEF Answering, Alone, Ops
<1>8. s.fl.op \in Op /\ s.fl.st # "replied"
  BY <1>7 DEF Answering
<1>9. GoodNow(t)
  <2>1. CASE m.req.st = "ok"
    BY <1>1, <1>4, <1>6, <1>7, <2>1, ReplyOkKeeps
  <2>2. CASE m.req.st = "refused"
    BY <1>1, <1>6, <1>8, <2>2, ReplyRefusedKeeps
  <2>3. CASE m.req.st = "busy"
    BY <1>1, <1>6, <1>7, <2>3, ReplyBusyKeeps
  <2> QED  BY <1>2, <2>1, <2>2, <2>3
<1> HIDE DEF t
<1>10. GoodNow(Drain(WatchEcho(TrySnapshot(t))))
  BY <1>1, <1>9, TrySnapshotKeeps, WatchEchoKeeps, DrainKeeps
<1>11. Stays /\ plan' \in Budgets /\ UNCHANGED <<pubq, owed, chan, missed>>
  BY <1>1, <1>2 DEF Stays, server
<1> QED  BY <1>2, <1>10, <1>11, GoodStays, QuietStays

\* Step: a busy refusal's timer fires.
LEMMA RetryStep ==
  ASSUME MirrorInv, Retry
  PROVE  WorldOK' /\ GoodNow(m)'
<1> DEFINE t == Request([m EXCEPT !.waiting = FALSE], m.fl.op)
<1>1. GoodNow(m) /\ plan \in Budgets
  BY DEF MirrorInv, WorldOK
<1>2. m.waiting /\ m' = t /\ UNCHANGED <<plan, server>>
  BY DEF Retry
<1>3. m \in MirrorType /\ Good(plan.kinds, log, m) /\ RequestOK(log, m)
  BY <1>1 DEF GoodNow, Good, Core
<1>4. m.fl.st = "sent" /\ m.recon.op # m.fl.op /\ m.fl.op \in Ops
  BY <1>2, <1>3 DEF RequestOK, MirrorType, SlotType
<1>5. SentFrom(m, t)
  <2> DEFINE x == [op |-> m.fl.op, st |-> "sent", at |-> 0]
  <2>1. x \in RequestType
    BY <1>4 DEF RequestType
  <2>2. t = [m EXCEPT !.waiting = FALSE, !.req = x]
    BY <1>3 DEF Request, MirrorType
  <2> HIDE DEF x
  <2>3. /\ t \in MirrorType /\ t.fl = m.fl /\ t.req = x /\ t.waiting = FALSE
        /\ t.phase = m.phase /\ t.rev = m.rev /\ t.asked = m.asked /\ t.queue = m.queue
        /\ t.late = m.late /\ t.base = m.base
        /\ t.recon = m.recon /\ t.reads = m.reads /\ t.due = m.due /\ t.paging = m.paging
        /\ t.buffered = m.buffered /\ t.view = m.view
    BY <1>3, <2>1, <2>2 DEF MirrorType
  <2> HIDE DEF t
  <2> QED  BY <1>4, <2>3 DEF SentFrom, x
<1> HIDE DEF t
<1>6. Good(plan.kinds, log, t)
  BY <1>3, <1>4, <1>5, SentKeeps
<1>7. Stays /\ plan' \in Budgets /\ UNCHANGED <<pubq, owed, chan, missed>>
  BY <1>1, <1>2 DEF Stays, server
<1> QED  BY <1>2, <1>6, <1>7, GoodStays, QuietStays DEF GoodNow

\* Step: a request's deadline passes.
LEMMA DeadlineStep ==
  ASSUME MirrorInv, Deadline
  PROVE  WorldOK' /\ GoodNow(m)'
<1>1. Setting /\ GoodNow(m) /\ plan \in Budgets
  BY SettingIs DEF MirrorInv, WorldOK
<1>2. m.req # NoReq /\ Has("deadlines") /\ Spend("deadlines") /\ m' = OnDeadline(Unlisten(m)) /\ UNCHANGED server
  BY DEF Deadline
<1>3. Good(plan.kinds, log, m) /\ RequestOK(log, m)
  BY <1>1 DEF GoodNow, Good, Core
<1>4. ~m.waiting /\ m.recon.op # m.fl.op
  BY <1>2, <1>3 DEF RequestOK
<1>5. /\ Good(plan.kinds, log, Unlisten(m)) /\ Unlisten(m).req = NoReq /\ Unlisten(m).fl = m.fl
      /\ Unlisten(m).waiting = m.waiting /\ Unlisten(m).recon = m.recon
  BY <1>3, UnlistenGood
<1>6. NoReq.st = "none"
  BY DEF NoReq
<1>7. GoodNow(OnDeadline(Unlisten(m)))
  BY <1>1, <1>4, <1>5, <1>6, OnDeadlineKeeps DEF GoodNow
<1>8. Stays /\ plan' \in Budgets /\ UNCHANGED <<pubq, owed, chan, missed>>
  BY <1>1, <1>2, SpendKeeps DEF Stays, server, Counters
<1> QED  BY <1>2, <1>7, <1>8, GoodStays, QuietStays

\* Step: the answer to a read arrives.
LEMMA ReadReplyStep ==
  ASSUME MirrorInv, NEW rd \in m.reads, ReadReply(rd)
  PROVE  WorldOK' /\ GoodNow(m)'
<1> DEFINE s == [m EXCEPT !.reads = @ \ {rd}]
           t == CASE rd.kind = "recover" -> OnRecover(s, rd)
                  [] rd.kind = "recon"   -> OnRecon(s, rd)
                  [] rd.kind = "page"    -> OnPage(s, rd.ans.rev)
<1>1. Setting /\ GoodNow(m) /\ plan \in Budgets
  BY SettingIs DEF MirrorInv, WorldOK
<1>2. m' = Drain(WatchEcho(TrySnapshot(t))) /\ UNCHANGED <<plan, server>>
  BY DEF ReadReply
<1>3. m \in MirrorType /\ Good(plan.kinds, log, m) /\ Within(log, m)
  BY <1>1 DEF GoodNow, Good, Core
<1>4. m.reads \in SUBSET ReadType /\ \A x \in m.reads : x.ans.rev <= Len(log)
  BY <1>3 DEF MirrorType, Within
<1>5. AnsweredBy(log, rd) /\ rd.ans.rev \in Nat /\ rd.ans.rev <= Len(log)
      /\ rd.kind \in {"recover", "recon", "page"}
  BY <1>4 DEF AnsweredBy, ReadType
<1>6. GoodNow(s)
  <2> DEFINE rs == m.reads \ {rd}
  <2>1. rs \in SUBSET ReadType /\ \A x \in rs : x.ans.rev <= Len(log)
    BY <1>4
  <2> HIDE DEF rs
  <2>2. Good(plan.kinds, log, [m EXCEPT !.reads = rs])
    BY <1>3, <2>1, ReadsKeep
  <2> QED  BY <2>2 DEF GoodNow, rs
<1> HIDE DEF s
<1>7. GoodNow(t)
  <2>1. CASE rd.kind = "recover"
    BY <1>1, <1>5, <1>6, <2>1, OnRecoverKeeps
  <2>2. CASE rd.kind = "recon"
    BY <1>1, <1>5, <1>6, <2>2, OnReconKeeps
  <2>3. CASE rd.kind = "page"
    BY <1>1, <1>5, <1>6, <2>3, OnPageKeeps
  <2> QED  BY <1>5, <2>1, <2>2, <2>3
<1> HIDE DEF t
<1>8. GoodNow(Drain(WatchEcho(TrySnapshot(t))))
  BY <1>1, <1>7, TrySnapshotKeeps, WatchEchoKeeps, DrainKeeps
<1>9. Stays /\ plan' \in Budgets /\ UNCHANGED <<pubq, owed, chan, missed>>
  BY <1>1, <1>2 DEF Stays, server
<1> QED  BY <1>2, <1>8, <1>9, GoodStays, QuietStays

\* Step: the daemon refuses a read.
LEMMA ReadRefusedStep ==
  ASSUME MirrorInv, NEW rd \in m.reads, ReadRefused(rd)
  PROVE  WorldOK' /\ GoodNow(m)'
<1> DEFINE s == [m EXCEPT !.reads = @ \ {rd}]
           t == CASE rd.kind = "recover" -> IF s.phase = "history" THEN SnapshotFallback(s, FALSE) ELSE s
                  [] rd.kind = "recon"   -> OnReconRefused(s)
                  [] rd.kind = "page"    -> IF s.paging THEN Read(s, "page", 0) ELSE s
<1>1. Setting /\ GoodNow(m) /\ plan \in Budgets
  BY SettingIs DEF MirrorInv, WorldOK
<1>2. Has("unread") /\ Spend("unread") /\ m' = Drain(TrySnapshot(t)) /\ UNCHANGED server
  BY DEF ReadRefused
<1>3. m \in MirrorType /\ Good(plan.kinds, log, m) /\ Within(log, m)
  BY <1>1 DEF GoodNow, Good, Core
<1>4. m.reads \in SUBSET ReadType /\ \A x \in m.reads : x.ans.rev <= Len(log)
  BY <1>3 DEF MirrorType, Within
<1>5. rd.kind \in {"recover", "recon", "page"}
  BY <1>4 DEF ReadType
<1>6. GoodNow(s)
  <2> DEFINE rs == m.reads \ {rd}
  <2>1. rs \in SUBSET ReadType /\ \A x \in rs : x.ans.rev <= Len(log)
    BY <1>4
  <2> HIDE DEF rs
  <2>2. Good(plan.kinds, log, [m EXCEPT !.reads = rs])
    BY <1>3, <2>1, ReadsKeep
  <2> QED  BY <2>2 DEF GoodNow, rs
<1> HIDE DEF s
<1>7. GoodNow(t)
  <2>1. CASE rd.kind = "recover"
    <3>1. CASE s.phase = "history"
      <4>1. CoreNow(s) /\ ~s.paging
        BY <1>6, <3>1 DEF GoodNow, Good, CoreNow, Core, PagedOK
      <4>2. GoodNow(SnapshotFallback(s, FALSE))
        BY <1>1, <4>1, SnapshotFallbackKeeps
      <4> QED  BY <2>1, <3>1, <4>2
    <3> QED  BY <1>6, <2>1, <3>1
  <2>2. CASE rd.kind = "recon"
    BY <1>1, <1>6, <2>2, OnReconRefusedKeeps
  <2>3. CASE rd.kind = "page"
    <3> DEFINE r == Read(s, "page", 0)
    <3>1. Core(plan.kinds, log, s) /\ ViewOK(plan.kinds, log, s) /\ Len(log) \in Nat
      BY <1>1, <1>6, LogIs DEF GoodNow, Good
    <3>2. Core(plan.kinds, log, r) /\ SameView(s, r)
      BY <3>1, ReadKeeps
    <3> HIDE DEF r
    <3>3. GoodNow(r)
      BY <3>1, <3>2, SameViewKeeps DEF GoodNow, Good
    <3> QED  BY <1>6, <2>3, <3>3 DEF r
  <2> QED  BY <1>5, <2>1, <2>2, <2>3
<1> HIDE DEF t
<1>8. GoodNow(Drain(TrySnapshot(t)))
  BY <1>1, <1>7, TrySnapshotKeeps, DrainKeeps
<1>9. Stays /\ plan' \in Budgets /\ UNCHANGED <<pubq, owed, chan, missed>>
  BY <1>1, <1>2, SpendKeeps DEF Stays, server, Counters
<1> QED  BY <1>2, <1>8, <1>9, GoodStays, QuietStays

\* Steps: no echo in time, and the user drops the detached copy.
LEMMA EchoTimeoutStep ==
  ASSUME MirrorInv, EchoTimeout \/ TakeTheirs
  PROVE  WorldOK' /\ GoodNow(m)'
<1> DEFINE s == [m EXCEPT !.echo = FALSE]
           c == [m EXCEPT !.copy = FALSE]
<1>1. Setting /\ GoodNow(m) /\ plan \in Budgets
  BY SettingIs DEF MirrorInv, WorldOK
<1>2. (m' = Suspect(s) \/ m' = c) /\ UNCHANGED <<plan, server>>
  BY DEF EchoTimeout, TakeTheirs
<1>3. m \in MirrorType /\ Core(plan.kinds, log, m) /\ ViewOK(plan.kinds, log, m)
  BY <1>1 DEF GoodNow, Good, Core
<1>4. Alike(m, s) /\ SameView(m, s)
  BY <1>3 DEF MirrorType, Alike, SameView
<1>5. Alike(m, c) /\ SameView(m, c)
  BY <1>3 DEF MirrorType, Alike, SameView
<1> HIDE DEF s, c
<1>6. GoodNow(s)
  BY <1>3, <1>4, AlikeKeeps, SameViewKeeps DEF GoodNow, Good
<1>7. GoodNow(c)
  BY <1>3, <1>5, AlikeKeeps, SameViewKeeps DEF GoodNow, Good
<1>8. GoodNow(Suspect(s))
  BY <1>1, <1>6, SuspectKeeps
<1>9. Stays /\ plan' \in Budgets /\ UNCHANGED <<pubq, owed, chan, missed>>
  BY <1>1, <1>2 DEF Stays, server
<1> QED  BY <1>2, <1>7, <1>8, <1>9, GoodStays, QuietStays

-----------------------------------------------------------------------------
(* The daemon's and the publisher's steps. *)

\* Step: the daemon refuses without applying.
LEMMA TurnAwayStep ==
  ASSUME MirrorInv, NEW what \in Counters, NEW st \in {"refused", "busy"}, TurnAway(what, st)
  PROVE  WorldOK' /\ GoodNow(m)'
<1> DEFINE x == [m.req EXCEPT !.st = st]
<1>1. GoodNow(m) /\ plan \in Budgets
  BY DEF MirrorInv, WorldOK
<1>2. m.req.st = "sent" /\ Has(what) /\ Spend(what) /\ m' = [m EXCEPT !.req.st = st] /\ UNCHANGED server
  BY DEF TurnAway
<1>3. m \in MirrorType /\ Good(plan.kinds, log, m) /\ RequestOK(log, m)
  BY <1>1 DEF GoodNow, Good, Core
<1>4. x \in RequestType /\ x.st = st /\ x.op = m.req.op
  BY <1>3 DEF MirrorType, RequestType
<1>5. m' = [m EXCEPT !.req = x]
  BY <1>2, <1>3 DEF MirrorType
<1> HIDE DEF x
<1>6. x.st # "none" /\ x.st # "ok" /\ x.op = m.fl.op /\ m.req.st # "none"
  BY <1>2, <1>3, <1>4 DEF RequestOK
<1>7. Good(plan.kinds, log, [m EXCEPT !.req = x])
  BY <1>3, <1>4, <1>6, RequestKeeps
<1>8. Stays /\ plan' \in Budgets /\ UNCHANGED <<pubq, owed, chan, missed>>
  BY <1>1, <1>2, SpendKeeps DEF Stays, server
<1> QED  BY <1>5, <1>7, <1>8, GoodStays, QuietStays DEF GoodNow

\* Step: the daemon answers a read.
LEMMA AnswerReadStep ==
  ASSUME MirrorInv, NEW rd \in m.reads, AnswerRead(rd)
  PROVE  WorldOK' /\ GoodNow(m)'
<1> DEFINE a == [rev |-> Len(log), oldest |-> Oldest]
           y == [rd EXCEPT !.st = "answered", !.ans = a]
           rs == (m.reads \ {rd}) \cup {y}
<1>1. Setting /\ GoodNow(m) /\ plan \in Budgets
  BY SettingIs DEF MirrorInv, WorldOK
<1>2. m' = [m EXCEPT !.reads = rs] /\ UNCHANGED <<plan, server>>
  BY DEF AnswerRead
<1>3. m \in MirrorType /\ Good(plan.kinds, log, m) /\ Within(log, m)
  BY <1>1 DEF GoodNow, Good, Core
<1>4. m.reads \in SUBSET ReadType /\ \A x \in m.reads : x.ans.rev <= Len(log)
  BY <1>3 DEF MirrorType, Within
<1>5. Len(log) \in Nat /\ Oldest \in Nat
  <2>1. Len(log) \in Nat
    BY <1>1, LogIs
  <2>2. plan.retain \in Nat
    BY <1>1 DEF Budgets
  <2> QED  BY <2>1, <2>2 DEF Oldest
<1>6. a \in [rev : Nat, oldest : Nat] /\ a.rev = Len(log)
  BY <1>5
<1> HIDE DEF a
<1>7. y \in ReadType /\ y.ans = a
  <2>1. rd \in ReadType
    BY <1>4
  <2> QED  BY <1>6, <2>1 DEF ReadType
<1> HIDE DEF y
<1>8. rs \in SUBSET ReadType /\ \A x \in rs : x.ans.rev <= Len(log)
  BY <1>4, <1>5, <1>6, <1>7
<1> HIDE DEF rs
<1>9. Good(plan.kinds, log, [m EXCEPT !.reads = rs])
  BY <1>3, <1>8, ReadsKeep
<1>10. Stays /\ plan' \in Budgets /\ UNCHANGED <<pubq, owed, chan, missed>>
  BY <1>1, <1>2 DEF Stays, server
<1> QED  BY <1>2, <1>9, <1>10, GoodStays, QuietStays DEF GoodNow

\* The publisher takes an event.
LEMMA TailQueued ==
  ASSUME NEW lg, NEW q, QueuedOK(lg, q), q # <<>>
  PROVE  QueuedOK(lg, Tail(q)) /\ Head(q) \in DOMAIN lg /\ Head(q) \in Nat
<1>1. q \in Seq(Nat) /\ Len(q) \in Nat \ {0} /\ DOMAIN q = 1..Len(q) /\ Head(q) = q[1]
  BY DEF QueuedOK
<1>2. Tail(q) \in Seq(Nat) /\ Len(Tail(q)) = Len(q) - 1
      /\ \A i \in 1..(Len(q) - 1) : Tail(q)[i] = q[i + 1]
  BY <1>1
<1>3. \A i \in DOMAIN Tail(q) : i + 1 \in DOMAIN q /\ Tail(q)[i] = q[i + 1]
  BY <1>1, <1>2
<1>4. 1 \in DOMAIN q
  BY <1>1
<1> QED  BY <1>1, <1>2, <1>3, <1>4 DEF QueuedOK

\* A frame is sent.
LEMMA FrameSent ==
  ASSUME NEW lg, NEW c, FramesOK(lg, c), NEW f \in FrameType,
         f.kind \in {"edit", "oversized"} => f.rev \in DOMAIN lg
  PROVE  FramesOK(lg, Append(c, f))
<1>1. c \in Seq(FrameType) /\ Len(c) \in Nat /\ DOMAIN c = 1..Len(c)
  BY DEF FramesOK
<1>2. /\ Append(c, f) \in Seq(FrameType) /\ Len(Append(c, f)) = Len(c) + 1
      /\ Append(c, f)[Len(c) + 1] = f /\ \A i \in 1..Len(c) : Append(c, f)[i] = c[i]
  BY <1>1, AppendProperties
<1> DEFINE d == Append(c, f)
<1> HIDE DEF d
<1>3. DOMAIN d = 1..(Len(c) + 1)
  BY <1>1, <1>2 DEF d
<1>4. ASSUME NEW i \in DOMAIN d, d[i].kind \in {"edit", "oversized"} PROVE d[i].rev \in DOMAIN lg
  <2>1. i \in DOMAIN c \/ i = Len(c) + 1
    BY <1>1, <1>3
  <2>2. CASE i \in DOMAIN c
    BY <1>1, <1>2, <1>4, <2>2 DEF d, FramesOK
  <2>3. CASE i = Len(c) + 1
    BY <1>2, <1>4, <2>3 DEF d
  <2> QED  BY <2>1, <2>2, <2>3
<1> QED  BY <1>2, <1>4 DEF FramesOK, d

\* Steps: the publisher's.
LEMMA PublisherStep ==
  ASSUME MirrorInv, Publish \/ PublishLost \/ PublishResync \/ ResyncDropped \/ PublishOther
  PROVE  WorldOK' /\ GoodNow(m)'
<1>1. /\ GoodNow(m) /\ plan \in Budgets /\ FramesOK(log, chan) /\ QueuedOK(log, pubq)
      /\ owed \in BOOLEAN /\ missed \in BOOLEAN
  BY DEF MirrorInv, WorldOK
<1>2. m' = m /\ log' = log
  BY DEF Publish, PublishLost, PublishResync, ResyncDropped, PublishOther
<1>3. plan' \in Budgets /\ plan'.kinds = plan.kinds
  <2>1. CASE UNCHANGED plan
    BY <1>1, <2>1
  <2>2. CASE \E what \in {"losses", "silents", "others"} : Has(what) /\ Spend(what)
    BY <1>1, <2>2, SpendKeeps DEF Counters
  <2> QED  BY <2>1, <2>2 DEF Publish, PublishLost, PublishResync, ResyncDropped, PublishOther
<1>4. Stays
  BY <1>2, <1>3 DEF Stays
<1>5. QueuedOK(log, pubq')
  <2>1. pubq' = pubq \/ (pubq # <<>> /\ pubq' = Tail(pubq))
    BY DEF Publish, PublishLost, PublishResync, ResyncDropped, PublishOther
  <2> QED  BY <1>1, <2>1, TailQueued
<1>6. FramesOK(log, chan')
  <2>1. CASE chan' = chan
    BY <1>1, <2>1
  <2>2. CASE Publish
    <3> DEFINE r == Head(pubq)
               f == Frame(IF log[r].big THEN "oversized" ELSE "edit", r)
    <3>1. chan' = Append(chan, f) /\ r \in DOMAIN log /\ r \in Nat
      BY <1>1, <2>2, TailQueued DEF Publish, Sends
    <3> HIDE DEF r
    <3>2. f \in FrameType /\ f.rev = r
      BY <1>1, <3>1 DEF Frame, FrameType
    <3> HIDE DEF f
    <3> QED  BY <1>1, <3>1, <3>2, FrameSent
  <2>3. CASE \E kind \in {"resync", "other"} : Sends(Frame(kind, 0))
    <3>1. PICK kind \in {"resync", "other"} : chan' = Append(chan, Frame(kind, 0))
      BY <2>3 DEF Sends
    <3>2. Frame(kind, 0) \in FrameType /\ Frame(kind, 0).kind = kind
      BY <1>1 DEF Frame, FrameType
    <3>3. Frame(kind, 0).kind \notin {"edit", "oversized"}
      BY <3>2
    <3> QED  BY <1>1, <3>1, <3>2, <3>3, FrameSent
  <2> QED  BY <2>1, <2>2, <2>3 DEF Publish, PublishLost, PublishResync, ResyncDropped, PublishOther
<1>7. owed' \in BOOLEAN /\ missed' \in BOOLEAN
  BY <1>1 DEF Publish, PublishLost, PublishResync, ResyncDropped, PublishOther, Sends
<1>8. WorldOK'
  BY <1>3, <1>4, <1>5, <1>6, <1>7, WorldStays
<1> QED  BY <1>1, <1>2, <1>4, <1>8, GoodStays

\* Step: another client repeats a request.
LEMMA RemoteAgainStep ==
  ASSUME MirrorInv, RemoteAgain \/ Aside
  PROVE  WorldOK' /\ GoodNow(m)'
<1>1. GoodNow(m) /\ plan \in Budgets
  BY DEF MirrorInv, WorldOK
<1>2. PICK what \in {"repeats", "asides"} :
        Has(what) /\ Spend(what) /\ UNCHANGED <<log, pubq, owed, chan, missed, m>>
  BY DEF RemoteAgain, Aside
<1>3. Stays /\ plan' \in Budgets
  BY <1>1, <1>2, SpendKeeps DEF Stays, Counters
<1> QED  BY <1>1, <1>2, <1>3, GoodStays, QuietStays

-----------------------------------------------------------------------------
(* A commit. *)

\* An entry at the end of the log.
Grown(p, e) ==
  /\ e \in Entry /\ e.op = p /\ e.hits \subseteq Open \ {p}
  /\ log' = Append(log, e)

\* The log with an entry more.
LEMMA GrownIs ==
  ASSUME Setting, NEW p, NEW e, Grown(p, e)
  PROVE  /\ Len(log) \in Nat /\ DOMAIN log = 1..Len(log)
         /\ log' \in Seq(Entry) /\ Len(log') = Len(log) + 1 /\ DOMAIN log' = 1..(Len(log) + 1)
         /\ log'[Len(log) + 1] = e /\ \A k \in DOMAIN log : log'[k] = log[k] /\ k \in DOMAIN log'
<1>1. Len(log) \in Nat /\ DOMAIN log = 1..Len(log) /\ log \in Seq(Entry) /\ e \in Entry
  BY LogIs DEF Setting, Grown
<1>2. log' = Append(log, e)
  BY DEF Grown
<1>3. /\ log' \in Seq(Entry) /\ Len(log') = Len(log) + 1 /\ log'[Len(log) + 1] = e
      /\ \A k \in 1..Len(log) : log'[k] = log[k]
  BY <1>1, <1>2, AppendProperties
<1>4. DOMAIN log' = 1..(Len(log) + 1)
  BY <1>3
<1>5. \A k \in DOMAIN log : k \in DOMAIN log'
  BY <1>1, <1>4
<1> QED  BY <1>1, <1>3, <1>4, <1>5

\* A new entry overlaps nothing that is committed, and what it commits was sent on top
\* of every entry that overlaps it: resolve_txn refuses it otherwise.
LEMMA GrownHits ==
  ASSUME MirrorInv, NEW p \in Ops, NEW e, Grown(p, e), p = NoOp \/ ~Refused(p)
  PROVE  HitsOK(log', m.base) /\ HitsEdits(plan.kinds, log')
<1>1. Setting /\ HitsOK(log, m.base) /\ HitsEdits(plan.kinds, log) /\ m \in MirrorType
  BY SettingIs DEF MirrorInv, WorldOK, GoodNow, Good, Core
<1>2. /\ Len(log) \in Nat /\ DOMAIN log = 1..Len(log)
      /\ DOMAIN log' = 1..(Len(log) + 1)
      /\ log'[Len(log) + 1] = e /\ \A k \in DOMAIN log : log'[k] = log[k]
  BY <1>1, GrownIs
<1>3. e.op = p /\ e.hits \subseteq Open \ {p}
  BY DEF Grown
<1>4. \A k \in DOMAIN log : log[k].hits \in SUBSET Op
  BY <1>1, LogIs
<1>5. \A k \in DOMAIN log' : k \in DOMAIN log \/ k = Len(log) + 1
  BY <1>2
<1>6. ASSUME NEW j \in DOMAIN log', NEW k \in DOMAIN log', log'[j].op \in log'[k].hits
      PROVE  k < j /\ k <= m.base[log'[j].op]
  <2>1. CASE j \in DOMAIN log /\ k \in DOMAIN log
    BY <1>1, <1>2, <1>6, <2>1 DEF HitsOK
  <2>2. CASE j \in DOMAIN log /\ k = Len(log) + 1
    <3>1. log[j].op \in Open
      BY <1>2, <1>3, <1>6, <2>2
    <3>2. log[j].op \in Committed
      BY <2>2 DEF Committed
    <3> QED  BY <3>1, <3>2 DEF Open
  <2>3. CASE j = Len(log) + 1 /\ k \in DOMAIN log
    <3>1. p \in log[k].hits
      BY <1>2, <1>3, <1>6, <2>3
    <3>2. p \in Op /\ p # NoOp
      BY <1>4, <2>3, <3>1, MirrorAssumption DEF NoOp
    <3>3. IsEdit(p)
      BY <1>1, <2>3, <3>1 DEF HitsEdits, EditIn, IsEdit, NoOp
    <3>4. ~ \E i \in m.base[p] + 1 .. Len(log) : p \in log[i].hits
      BY <3>2, <3>3 DEF Refused
    <3>5. m.base[p] \in Nat
      BY <1>1, <3>2 DEF MirrorType
    <3>6. k \notin m.base[p] + 1 .. Len(log)
      BY <3>1, <3>4
    <3>7. k \in Nat /\ k <= Len(log)
      BY <1>2, <2>3
    <3>8. k < j
      BY <1>2, <2>3, <3>7
    <3>9. k <= m.base[p]
      BY <1>2, <3>5, <3>6, <3>7
    <3>10. log'[j].op = p
      BY <1>2, <1>3, <2>3
    <3> QED  BY <3>8, <3>9, <3>10
  <2>4. CASE j = Len(log) + 1 /\ k = Len(log) + 1
    BY <1>2, <1>3, <1>6, <2>4
  <2> QED  BY <1>5, <2>1, <2>2, <2>3, <2>4
<1>7. ASSUME NEW k \in DOMAIN log', NEW q \in log'[k].hits
      PROVE  EditIn(plan.kinds, q)
  <2>1. CASE k \in DOMAIN log
    BY <1>1, <1>2, <2>1 DEF HitsEdits
  <2>2. CASE k = Len(log) + 1
    <3>1. q \in Open
      BY <1>2, <1>3, <2>2
    <3> QED  BY <3>1 DEF Open, IsEdit, EditIn, NoOp
  <2> QED  BY <1>5, <2>1, <2>2
<1>8. HitsOK(log', m.base)
  BY <1>6 DEF HitsOK
<1> QED  BY <1>7, <1>8 DEF HitsEdits

\* commit_txn for an operation that has been sent, or for another client's.
LEMMA CommitStep ==
  ASSUME MirrorInv, NEW p \in Ops, Commit(p), p = NoOp \/ ~Refused(p), p = NoOp => Has("remotes"),
         \A q \in Op : Unsent(m, q) => p # q
  PROVE  /\ WorldOK' /\ Good(plan'.kinds, log', m)
         /\ Len(log) + 1 \in DOMAIN log' /\ log'[Len(log) + 1].op = p
<1>1. PICK hits \in SUBSET (Open \ {p}), big \in BOOLEAN, elided \in BOOLEAN, full \in BOOLEAN :
        /\ big \/ elided => Has("bigs")
        /\ full => Has("losses")
        /\ log' = Append(log, [op |-> p, hits |-> hits, big |-> big, elided |-> elided,
                               asides |-> asides])
        /\ pubq' = IF full THEN pubq ELSE Append(pubq, Len(log'))
        /\ owed' = (owed \/ full)
        /\ plan' = [plan EXCEPT !.bigs = IF big \/ elided THEN @ - 1 ELSE @,
                                !.losses = IF full THEN @ - 1 ELSE @,
                                !.remotes = IF p = NoOp THEN @ - 1 ELSE @]
        /\ UNCHANGED <<chan, missed>>
  BY DEF Commit
<1> DEFINE e == [op |-> p, hits |-> hits, big |-> big, elided |-> elided, asides |-> asides]
<1>2. Grown(p, e)
  <2>1. Open \subseteq Op
    BY DEF Open
  <2>2. e \in Entry /\ e.op = p /\ e.hits = hits
    BY <2>1 DEF Entry, Ops, MirrorInv, Inv, CacheInv, CacheType
  <2> QED  BY <1>1, <2>2 DEF Grown
<1> HIDE DEF e
<1>3. /\ Setting /\ Good(plan.kinds, log, m) /\ plan \in Budgets /\ DOMAIN plan.kinds \subseteq Op
      /\ QueuedOK(log, pubq) /\ FramesOK(log, chan) /\ owed \in BOOLEAN /\ missed \in BOOLEAN
  BY SettingIs DEF MirrorInv, WorldOK, GoodNow
<1>4. /\ Len(log) \in Nat /\ DOMAIN log = 1..Len(log)
      /\ log' \in Seq(Entry) /\ Len(log') = Len(log) + 1 /\ DOMAIN log' = 1..(Len(log) + 1)
      /\ log'[Len(log) + 1] = e /\ \A k \in DOMAIN log : log'[k] = log[k] /\ k \in DOMAIN log'
  BY <1>2, <1>3, GrownIs
<1>5. HitsOK(log', m.base) /\ HitsEdits(plan.kinds, log')
  BY <1>2, GrownHits
<1>6. plan' \in Budgets /\ plan'.kinds = plan.kinds
  <2> DEFINE a == IF big \/ elided THEN plan.bigs - 1 ELSE plan.bigs
             b == IF full THEN plan.losses - 1 ELSE plan.losses
             c == IF p = NoOp THEN plan.remotes - 1 ELSE plan.remotes
  <2>1. plan.bigs \in Nat /\ plan.losses \in Nat /\ plan.remotes \in Nat
    BY <1>3 DEF Budgets
  <2>2. (big \/ elided => plan.bigs > 0) /\ (full => plan.losses > 0) /\ (p = NoOp => plan.remotes > 0)
    BY <1>1 DEF Has
  <2>3. a \in Nat
    BY <2>1, <2>2
  <2>4. b \in Nat
    BY <2>1, <2>2
  <2>5. c \in Nat
    BY <2>1, <2>2
  <2>6. plan' = [plan EXCEPT !.bigs = a, !.losses = b, !.remotes = c]
    BY <1>1, <1>3 DEF Budgets
  <2> HIDE DEF a, b, c
  <2> QED  BY <1>3, <2>3, <2>4, <2>5, <2>6 DEF Budgets
<1>7. QueuedOK(log', pubq')
  <2>1. QueuedOK(log', pubq)
    BY <1>3, <1>4 DEF QueuedOK
  <2>2. CASE pubq' = pubq
    BY <2>1, <2>2
  <2>3. CASE pubq' = Append(pubq, Len(log'))
    <3> DEFINE n == Len(log')
    <3>1. n \in DOMAIN log' /\ n \in Nat
      BY <1>4
    <3>2. pubq' = Append(pubq, n) /\ pubq \in Seq(Nat) /\ Len(pubq) \in Nat /\ DOMAIN pubq = 1..Len(pubq)
      BY <1>3, <2>3 DEF QueuedOK
    <3> HIDE DEF n
    <3>3. /\ pubq' \in Seq(Nat) /\ Len(pubq') = Len(pubq) + 1
          /\ pubq'[Len(pubq) + 1] = n /\ \A i \in 1..Len(pubq) : pubq'[i] = pubq[i]
      BY <3>1, <3>2, AppendProperties
    <3>4. DOMAIN pubq' = 1..(Len(pubq) + 1)
      BY <3>3
    <3>5. ASSUME NEW i \in DOMAIN pubq' PROVE pubq'[i] \in DOMAIN log'
      <4>1. i \in DOMAIN pubq \/ i = Len(pubq) + 1
        BY <3>2, <3>4
      <4> QED  BY <2>1, <3>1, <3>2, <3>3, <4>1 DEF QueuedOK
    <3> QED  BY <3>3, <3>5 DEF QueuedOK
  <2> QED  BY <1>1, <2>2, <2>3
<1>8. FramesOK(log', chan')
  BY <1>1, <1>3, <1>4 DEF FramesOK
<1>9. HitsEdits(plan'.kinds, log')
  BY <1>5, <1>6
<1>10. WorldOK'
  BY <1>1, <1>3, <1>6, <1>7, <1>8, <1>9 DEF WorldOK
<1>11. Good(plan.kinds, log', m)
  <2>1. e \in Entry /\ e.op = p /\ log' = Append(log, e) /\ log \in Seq(Entry)
    BY <1>2, <1>3 DEF Grown, Setting
  <2>2. HitsOK(Append(log, e), m.base)
    BY <1>5, <2>1
  <2>3. Good(plan.kinds, Append(log, e), m)
    BY <1>3, <2>1, <2>2, GrowKeeps
  <2> QED  BY <2>1, <2>3
<1>12. Len(log) + 1 \in DOMAIN log' /\ log'[Len(log) + 1].op = p
  BY <1>2, <1>4 DEF Grown
<1> QED  BY <1>6, <1>10, <1>11, <1>12

\* Step: another client edits.
LEMMA RemoteStep ==
  ASSUME MirrorInv, Remote
  PROVE  WorldOK' /\ GoodNow(m)'
<1>1. Has("remotes") /\ Commit(NoOp) /\ m' = m
  BY DEF Remote
<1>2. \A q \in Op : NoOp # q
  BY MirrorAssumption DEF NoOp
<1>3. NoOp \in Ops
  BY DEF Ops
<1>4. WorldOK' /\ Good(plan'.kinds, log', m)
  BY <1>1, <1>2, <1>3, CommitStep
<1>5. Good(plan'.kinds, log', m')
  BY <1>1, <1>4
<1> QED  BY <1>4, <1>5 DEF GoodNow

\* An operation that has been sent is served; the mirror is not told yet.
LEMMA ServeStep ==
  ASSUME MirrorInv, NEW p \in Op, Serve(p), ~Unsent(m, p)
  PROVE  /\ WorldOK' /\ Good(plan'.kinds, log', m)
         /\ IsCached(p) => dedup[CachedAt(p)].rev \in DOMAIN log' /\ log'[dedup[CachedAt(p)].rev].op = p
         /\ ~IsCached(p) /\ ~Refused(p) => Len(log) + 1 \in DOMAIN log' /\ log'[Len(log) + 1].op = p
<1>1. GoodNow(m) /\ plan \in Budgets /\ RepliesReal
  BY DEF MirrorInv, WorldOK, Inv, CacheInv
<1>2. CASE UNCHANGED <<plan, log, pubq, owed, chan, missed>> /\ (IsCached(p) \/ Refused(p))
  <2>1. Stays /\ plan' \in Budgets
    BY <1>1, <1>2 DEF Stays
  <2>2. WorldOK'
    BY <1>2, <2>1, QuietStays
  <2>3. Good(plan'.kinds, log', m)
    BY <1>1, <1>2 DEF GoodNow
  <2>4. ASSUME IsCached(p)
        PROVE  dedup[CachedAt(p)].rev \in DOMAIN log /\ log[dedup[CachedAt(p)].rev].op = p
    <3>1. CachedAt(p) \in DOMAIN dedup /\ dedup[CachedAt(p)].op = p
      BY <2>4 DEF CachedAt, IsCached
    <3>2. p # NoOp
      BY OpIs
    <3> QED  BY <1>1, <3>1, <3>2 DEF RepliesReal
  <2> QED  BY <1>2, <2>2, <2>3, <2>4
<1>3. CASE ~IsCached(p) /\ ~Refused(p) /\ Commit(p)
  <2>1. p \in Ops /\ p # NoOp
    BY MirrorAssumption DEF Ops, NoOp
  <2>2. \A q \in Op : Unsent(m, q) => p # q
    OBVIOUS
  <2> QED  BY <1>3, <2>1, <2>2, CommitStep
<1> QED  BY <1>2, <1>3 DEF Serve, server

\* Step: the request the mirror waits for is served.
LEMMA ServeRequestStep ==
  ASSUME MirrorInv, NEW p \in Op, ServeRequest(p)
  PROVE  WorldOK' /\ GoodNow(m)'
<1> DEFINE x == Answer(p)
<1>1. m.req.st = "sent" /\ m.req.op = p /\ Serve(p) /\ m' = [m EXCEPT !.req = x]
  BY DEF ServeRequest
<1>2. m \in MirrorType /\ RequestOK(log, m) /\ UnsentOK(log, m) /\ Setting
  BY SettingIs DEF MirrorInv, GoodNow, Good, Core
<1>3. ~Unsent(m, p) /\ m.fl.op = p
  BY <1>1, <1>2 DEF UnsentOK, RequestOK
<1>4. /\ WorldOK' /\ Good(plan'.kinds, log', m)
      /\ IsCached(p) => dedup[CachedAt(p)].rev \in DOMAIN log' /\ log'[dedup[CachedAt(p)].rev].op = p
      /\ ~IsCached(p) /\ ~Refused(p) => Len(log) + 1 \in DOMAIN log' /\ log'[Len(log) + 1].op = p
  BY <1>1, <1>3, ServeStep
<1>5. p \in Ops /\ Len(log) \in Nat
  BY <1>2, LogIs DEF Ops
<1>6. x \in RequestType /\ x.op = p /\ x.st # "none"
      /\ (x.st = "ok" => x.at \in DOMAIN log' /\ log'[x.at].op = p)
  <2>1. CASE IsCached(p)
    <3> DEFINE n == dedup[CachedAt(p)].rev
    <3>1. n \in Nat
      <4>1. CachedAt(p) \in DOMAIN dedup /\ dedup \in Seq(CachedReply)
        BY <2>1 DEF CachedAt, IsCached, MirrorInv, Inv, CacheInv, CacheType
      <4>2. dedup[CachedAt(p)] \in CachedReply
        BY <4>1
      <4> QED  BY <4>2 DEF CachedReply
    <3>2. x = [op |-> p, st |-> "ok", at |-> n]
      BY <2>1 DEF Answer
    <3>3. n \in DOMAIN log' /\ log'[n].op = p
      BY <1>4, <2>1
    <3> HIDE DEF n, x
    <3> QED  BY <1>5, <3>1, <3>2, <3>3 DEF RequestType
  <2>2. CASE ~IsCached(p) /\ Refused(p)
    <3>1. x = [op |-> p, st |-> "refused", at |-> 0]
      BY <2>2 DEF Answer
    <3> HIDE DEF x
    <3> QED  BY <1>5, <3>1 DEF RequestType
  <2>3. CASE ~IsCached(p) /\ ~Refused(p)
    <3> DEFINE n == Len(log) + 1
    <3>1. n \in Nat
      BY <1>5
    <3>2. x = [op |-> p, st |-> "ok", at |-> n]
      BY <2>3 DEF Answer
    <3>3. n \in DOMAIN log' /\ log'[n].op = p
      BY <1>4, <2>3
    <3> HIDE DEF n, x
    <3> QED  BY <1>5, <3>1, <3>2, <3>3 DEF RequestType
  <2> QED  BY <2>1, <2>2, <2>3
<1> HIDE DEF x
<1>7. m.req.st # "none"
  BY <1>1
<1>8. Good(plan'.kinds, log', [m EXCEPT !.req = x])
  BY <1>3, <1>4, <1>6, <1>7, RequestKeeps
<1> QED  BY <1>1, <1>4, <1>8 DEF GoodNow

\* Step: a request the mirror has given up is served.
LEMMA ServeLateStep ==
  ASSUME MirrorInv, NEW p \in Op, ServeLate(p)
  PROVE  WorldOK' /\ GoodNow(m)'
<1> DEFINE l == [m.late EXCEPT ![p] = @ - 1]
<1>1. m.late[p] > 0 /\ Serve(p) /\ m' = [m EXCEPT !.late[p] = @ - 1]
  BY DEF ServeLate
<1>2. m \in MirrorType /\ UnsentOK(log, m)
  BY DEF MirrorInv, GoodNow, Good, Core
<1>3. m.late \in [Op -> Nat]
  BY <1>2 DEF MirrorType
<1>4. ~Unsent(m, p)
  BY <1>1, <1>2 DEF UnsentOK
<1>5. WorldOK' /\ Good(plan'.kinds, log', m)
  BY <1>1, <1>4, ServeStep
<1>6. m' = [m EXCEPT !.late = l]
  BY <1>1, <1>2 DEF MirrorType
<1>7. l \in [Op -> Nat] /\ \A q \in Op : m.late[q] = 0 => l[q] = 0
  BY <1>1, <1>3
<1> HIDE DEF l
<1>8. Good(plan'.kinds, log', [m EXCEPT !.late = l])
  BY <1>5, <1>7, LateKeeps
<1> QED  BY <1>5, <1>6, <1>8 DEF GoodNow

-----------------------------------------------------------------------------
(* The theorems *)

\* The invariant holds at the start.
LEMMA MirrorInit == Init => MirrorInv
<1> SUFFICES ASSUME Init PROVE MirrorInv
  OBVIOUS
<1>1. Inv
  BY InvInit
<1>2. /\ plan \in Budgets /\ DOMAIN plan.kinds \subseteq Op /\ log = <<>> /\ pubq = <<>> /\ chan = <<>>
      /\ owed = FALSE /\ missed = FALSE /\ m = Mirror0
  BY PlansAssumption DEF Init
<1>3. WorldOK
  <2>1. HitsEdits(plan.kinds, log) /\ QueuedOK(log, pubq)
    BY <1>2 DEF HitsEdits, QueuedOK
  <2>2. FramesOK(log, chan)
    BY <1>2 DEF FramesOK
  <2> QED  BY <1>2, <2>1, <2>2 DEF WorldOK
<1> DEFINE t0 == TextIn(log, 0)
           z == [p \in Op |-> 0]
<1>4. Text(0) = t0
  BY DEF Text, TextIn
<1>5. t0 \in TextType
  BY TextIs
<1>6. z \in [Op -> Nat] /\ \A p \in Op : z[p] = 0
  OBVIOUS
<1> HIDE DEF t0, z
<1>7. /\ NoFlight \in SlotType /\ NoFlight.op = 0 /\ NoFlight.st = "none" /\ NoFlight.present = FALSE
      /\ NoReq \in RequestType /\ NoReq.st = "none" /\ NoReq.op = 0
      /\ NoRecon \in ReconType /\ NoRecon.op = 0
  BY DEF NoFlight, NoReq, NoRecon, SlotType, RequestType, ReconType, Ops, NoOp
<1>8. /\ m \in MirrorType
      /\ m.phase = "live" /\ m.rev = 0 /\ m.view = t0 /\ m.asked = 0 /\ m.fl = NoFlight
      /\ m.queue = <<>> /\ m.waiting = FALSE /\ m.req = NoReq /\ m.late = z /\ m.base = z
      /\ m.recon = NoRecon /\ m.reads = {} /\ m.due = FALSE /\ m.paging = FALSE /\ m.buffered = <<>>
  <2>1. m = [phase |-> "live", rev |-> 0, view |-> t0, asked |-> 0,
             fl |-> NoFlight, queue |-> <<>>, retries |-> 0, waiting |-> FALSE,
             req |-> NoReq, late |-> z, base |-> z,
             recon |-> NoRecon, reads |-> {}, due |-> FALSE, paging |-> FALSE,
             buffered |-> <<>>, resuspect |-> FALSE, echo |-> FALSE,
             copy |-> FALSE, handed |-> {}]
    BY <1>2, <1>4 DEF Mirror0, z
  <2> DEFINE none == <<>>
  <2>2. none \in Seq(Op) /\ none \in Seq(Nat)
    OBVIOUS
  <2> HIDE DEF none
  <2>3. m = [phase |-> "live", rev |-> 0, view |-> t0, asked |-> 0,
             fl |-> NoFlight, queue |-> none, retries |-> 0, waiting |-> FALSE,
             req |-> NoReq, late |-> z, base |-> z,
             recon |-> NoRecon, reads |-> {}, due |-> FALSE, paging |-> FALSE,
             buffered |-> none, resuspect |-> FALSE, echo |-> FALSE,
             copy |-> FALSE, handed |-> {}]
    BY <2>1 DEF none
  <2>4. m \in MirrorType
    BY <1>5, <1>6, <1>7, <2>2, <2>3 DEF MirrorType
  <2> QED  BY <2>1, <2>4
<1>9. Within(log, m)
  BY <1>2, <1>8 DEF Within
<1>10. InOrder(plan.kinds, m)
  <2>1. Len(plan.kinds) \in Nat
    BY <1>2 DEF Budgets
  <2> QED  BY <1>7, <1>8, <2>1 DEF InOrder
<1>11. UnsentOK(log, m)
  <2>1. \A p \in Op : p # 0
    BY MirrorAssumption
  <2> QED  BY <1>2, <1>6, <1>7, <1>8, <2>1 DEF UnsentOK
<1>12. RequestOK(log, m)
  BY <1>7, <1>8 DEF RequestOK, NoOp
<1>13. SlotOK(plan.kinds, log, m) /\ PagedOK(plan.kinds, m) /\ HitsOK(log, m.base)
  BY <1>2, <1>7, <1>8 DEF SlotOK, PagedOK, HitsOK
<1>14. ViewOK(plan.kinds, log, m)
  <2>1. PresentIn(plan.kinds, m) = {}
    BY <1>7, <1>8 DEF PresentIn
  <2>2. With(t0, {}) = t0
    BY <1>5, WithNothing
  <2> QED  BY <1>8, <2>1, <2>2 DEF ViewOK, t0
<1>15. GoodNow(m)
  BY <1>8, <1>9, <1>10, <1>11, <1>12, <1>13, <1>14 DEF GoodNow, Good, Core
<1> QED  BY <1>1, <1>3, <1>15 DEF MirrorInv

\* Every step keeps it.
LEMMA MirrorNext == MirrorInv /\ [Next]_vars => MirrorInv'
<1> SUFFICES ASSUME MirrorInv, [Next]_vars
             PROVE  MirrorInv'
  OBVIOUS
<1>1. Inv'
  BY InvNext DEF MirrorInv
<1>2. CASE UNCHANGED vars
  <2>1. Stays /\ plan' \in Budgets /\ UNCHANGED <<pubq, owed, chan, missed>> /\ m' = m /\ GoodNow(m)
    BY <1>2 DEF vars, Stays, MirrorInv, WorldOK
  <2> QED  BY <1>1, <2>1, GoodStays, QuietStays DEF MirrorInv
<1>3. ASSUME Next PROVE WorldOK' /\ GoodNow(m)'
  <2>1. CASE Ask
    BY <2>1, AskStep
  <2>2. CASE TakeTheirs \/ EchoTimeout
    BY <2>2, EchoTimeoutStep
  <2>3. CASE Remote
    BY <2>3, RemoteStep
  <2>4. CASE RemoteAgain \/ Aside
    BY <2>4, RemoteAgainStep
  <2>5. CASE TurnAway("refusals", "refused") \/ TurnAway("busies", "busy")
    BY <2>5, TurnAwayStep DEF Counters
  <2>6. CASE Publish \/ PublishLost \/ PublishResync \/ ResyncDropped \/ PublishOther
    BY <2>6, PublisherStep
  <2>7. CASE Reconnect
    BY <2>7, ReconnectStep
  <2>8. CASE Deadline
    BY <2>8, DeadlineStep
  <2>9. CASE \E p \in Op : ServeRequest(p) \/ ServeLate(p)
    BY <2>9, ServeRequestStep, ServeLateStep
  <2>10. CASE \E rd \in m.reads : AnswerRead(rd)
    BY <2>10, AnswerReadStep
  <2>11. CASE Deliver
    BY <2>11, DeliverStep
  <2>12. CASE Reply
    BY <2>12, ReplyStep
  <2>13. CASE Retry
    BY <2>13, RetryStep
  <2>14. CASE \E rd \in m.reads : ReadReply(rd)
    BY <2>14, ReadReplyStep
  <2>15. CASE \E rd \in m.reads : ReadRefused(rd)
    BY <2>15, ReadRefusedStep
  <2> QED
    BY <1>3, <2>1, <2>2, <2>3, <2>4, <2>5, <2>6, <2>7, <2>8, <2>9, <2>10, <2>11, <2>12, <2>13, <2>14,
       <2>15
       DEF Next, Environment, Daemon, Editor
<1> QED  BY <1>1, <1>2, <1>3 DEF MirrorInv

\* The invariant.
LEMMA MirrorInvariant == Spec => []MirrorInv
BY MirrorInit, MirrorNext, PTL DEF Spec

\* The type invariant, with no assumption on what is lost, late or repeated: a request is
\* listened to only for the operation in the slot, and a snapshot recovery is open exactly
\* while a page is asked for or due.
THEOREM MirrorTypeOK == Spec => []TypeOK
<1>1. ASSUME MirrorInv PROVE TypeOK
  <2>1. Setting /\ Core(plan.kinds, log, m) /\ m \in MirrorType /\ CacheFull
    BY <1>1, SettingIs DEF MirrorInv, GoodNow, Good, Core, Inv, CacheInv
  <2>2. plan \in Budgets /\ owed \in BOOLEAN /\ missed \in BOOLEAN
    BY <1>1 DEF MirrorInv, WorldOK
  <2>3. \A r \in DOMAIN log :
          /\ log[r].op \in Op \cup {NoOp} /\ log[r].hits \subseteq Op
          /\ log[r].big \in BOOLEAN /\ log[r].elided \in BOOLEAN
    BY <2>1, LogIs DEF Ops
  <2>4. m.rev \in 0 .. Len(log)
    BY <2>1, LogIs DEF Core, Within, MirrorType
  <2>5. m.phase \in {"live", "history", "snapshot"} /\ m.late \in [Op -> Nat]
        /\ m.fl.st \in {"none", "sent", "replied", "uncertain", "doomed"}
    BY <2>1 DEF MirrorType, SlotType
  <2>6. /\ (m.fl.st = "none") <=> (m.fl.op = NoOp)
        /\ m.req # NoReq => m.req.op = m.fl.op
        /\ (m.due \/ m.paging) <=> m.phase = "snapshot"
    BY <2>1 DEF Core, RequestOK, PagedOK
  <2> QED  BY <2>1, <2>2, <2>3, <2>4, <2>5, <2>6 DEF TypeOK, CacheFull
<1> QED  BY <1>1, MirrorInvariant, PTL

\* mirror.rs, "the VIEW = confirmed(rev) + in-flight + queue": for every plan of losses, gaps,
\* resyncs, deadlines, resends, late commits, reconnects, trimmed histories and evicted
\* replies, outside a snapshot recovery the view is the daemon's text at rev with exactly the
\* operations still to be confirmed, each of them once.
THEOREM ViewIsExact == Spec => []ViewExact
<1>1. ASSUME MirrorInv PROVE ViewExact
  <2>1. Core(plan.kinds, log, m) /\ ViewOK(plan.kinds, log, m)
    BY <1>1 DEF MirrorInv, GoodNow, Good
  <2>2. PresentOps(m) = PresentIn(plan.kinds, m)
    BY <2>1, QueuedIs
  <2>3. Text(m.rev) = TextIn(log, m.rev)
    BY DEF Text, TextIn
  <2> QED  BY <2>1, <2>2, <2>3 DEF ViewOK, ViewExact
<1> QED  BY <1>1, MirrorInvariant, PTL
=============================================================================
