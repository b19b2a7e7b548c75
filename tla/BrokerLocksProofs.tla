--------------------------- MODULE BrokerLocksProofs ---------------------------
(* Proofs about BrokerLocks, for any set of tasks and of operations. *)
EXTENDS BrokerLocks, SequenceTheorems, WellFoundedInduction, TLAPS

-----------------------------------------------------------------------------
(* The lock order, and programs that keep to it *)

\* The order in which guards may nest.
Rank ==
  [l \in Lock |->
     IF l = "last" THEN 1 ELSE IF l = "lastEmit" THEN 2 ELSE IF l = "trailing" THEN 3
     ELSE IF l = "lastWorld" THEN 4 ELSE IF l = "pendingWorld" THEN 5
     ELSE IF l = "inner" THEN 6 ELSE IF l = "topics" THEN 7
     ELSE IF l = "registry" THEN 8 ELSE 9]

Takes(x) == x.do # "free"
Frees(x, l) == x.do = "free" /\ x.lock = l

\* Everything taken is freed later on.
Closed(s) ==
  \A i \in DOMAIN s : Takes(s[i]) => \E j \in DOMAIN s : i < j /\ Frees(s[j], s[i].lock)

\* What is taken while another guard is held comes after it in the order.
Ordered(s) ==
  \A i, k \in DOMAIN s :
    i < k /\ Takes(s[i]) /\ Takes(s[k]) =>
      \/ Rank[s[i].lock] < Rank[s[k].lock]
      \/ \E j \in DOMAIN s : i < j /\ j < k /\ Frees(s[j], s[i].lock)

Above(s, n) == \A i \in DOMAIN s : Takes(s[i]) => n <= Rank[s[i].lock]

\* A piece of a program that can run under any guards of a rank below n.
Block(s, n) == s \in Seq(Step) /\ Closed(s) /\ Ordered(s) /\ Above(s, n)

\* The order is one: ranks are natural numbers and no two locks share one.
LEMMA RankType ==
  /\ \A l \in Lock : Rank[l] \in 1..9
  /\ \A l, k \in Lock : Rank[l] = Rank[k] => l = k
BY DEF Rank, Lock, ChangeBusLock

LEMMA BlockNothing == \A n \in Nat : Block(Nothing, n)
BY DEF Block, Nothing, Closed, Ordered, Above

LEMMA BlockWeaker ==
  ASSUME NEW s, NEW n \in Nat, NEW m \in Nat, m <= n, Block(s, n)
  PROVE  Block(s, m)
<1>1. \A i \in DOMAIN s : s[i] \in Step
  BY ElementOfSeq, LenProperties DEF Block
<1>2. \A i \in DOMAIN s : s[i].lock \in Lock
  BY <1>1 DEF Step
<1>. QED BY <1>2, RankType DEF Block, Above

\* One after the other: what the first took, it has freed.
LEMMA BlockConcat ==
  ASSUME NEW s, NEW t, NEW n \in Nat, Block(s, n), Block(t, n)
  PROVE  Block(s \o t, n)
<1> DEFINE c == s \o t
<1>0. s \in Seq(Step) /\ t \in Seq(Step)
  BY DEF Block
<1>1. /\ c \in Seq(Step) /\ Len(c) = Len(s) + Len(t)
      /\ \A i \in 1 .. Len(s) + Len(t) : c[i] = IF i <= Len(s) THEN s[i] ELSE t[i - Len(s)]
  BY <1>0, ConcatProperties
<1>2. /\ DOMAIN s = 1 .. Len(s) /\ DOMAIN t = 1 .. Len(t) /\ Len(s) \in Nat /\ Len(t) \in Nat
      /\ DOMAIN c = 1 .. Len(c)
  BY <1>0, <1>1, LenProperties
<1> HIDE DEF c
<1>3. ASSUME NEW i \in DOMAIN c
      PROVE  \/ i \in DOMAIN s /\ c[i] = s[i]
             \/ i - Len(s) \in DOMAIN t /\ i > Len(s) /\ c[i] = t[i - Len(s)]
  BY <1>1, <1>2
<1>4. /\ \A j \in DOMAIN s : j \in DOMAIN c /\ c[j] = s[j]
      /\ \A j \in DOMAIN t : j + Len(s) \in DOMAIN c /\ c[j + Len(s)] = t[j]
  BY <1>1, <1>2
<1>5. Closed(c)
  <2> SUFFICES ASSUME NEW i \in DOMAIN c, Takes(c[i])
               PROVE  \E j \in DOMAIN c : i < j /\ Frees(c[j], c[i].lock)
    BY DEF Closed
  <2>1. CASE i \in DOMAIN s /\ c[i] = s[i]
    <3>1. PICK j \in DOMAIN s : i < j /\ Frees(s[j], s[i].lock)
      BY <2>1 DEF Block, Closed
    <3>. QED BY <2>1, <3>1, <1>4
  <2>2. CASE i - Len(s) \in DOMAIN t /\ i > Len(s) /\ c[i] = t[i - Len(s)]
    <3>1. PICK j \in DOMAIN t : i - Len(s) < j /\ Frees(t[j], t[i - Len(s)].lock)
      BY <2>2 DEF Block, Closed
    <3>2. j + Len(s) \in DOMAIN c /\ c[j + Len(s)] = t[j] /\ i < j + Len(s)
      BY <3>1, <1>4, <1>2
    <3>. QED BY <2>2, <3>1, <3>2
  <2>. QED BY <2>1, <2>2, <1>3
<1>6. Ordered(c)
  <2> SUFFICES ASSUME NEW i \in DOMAIN c, NEW k \in DOMAIN c, i < k, Takes(c[i]), Takes(c[k]),
                      ~ \E j \in DOMAIN c : i < j /\ j < k /\ Frees(c[j], c[i].lock)
               PROVE  Rank[c[i].lock] < Rank[c[k].lock]
    BY DEF Ordered
  <2>1. CASE k \in DOMAIN s /\ c[k] = s[k]
    <3>1. i \in DOMAIN s /\ c[i] = s[i]
      BY <2>1, <1>2, <1>3
    <3>2. ~ \E j \in DOMAIN s : i < j /\ j < k /\ Frees(s[j], s[i].lock)
      BY <3>1, <1>4
    <3>. QED BY <2>1, <3>1, <3>2 DEF Block, Ordered
  <2>2. CASE i \in DOMAIN s /\ c[i] = s[i] /\ k > Len(s)
    <3>1. PICK j \in DOMAIN s : i < j /\ Frees(s[j], s[i].lock)
      BY <2>2 DEF Block, Closed
    <3>. QED BY <2>2, <3>1, <1>2, <1>4
  <2>3. CASE /\ i - Len(s) \in DOMAIN t /\ i > Len(s) /\ c[i] = t[i - Len(s)]
             /\ k - Len(s) \in DOMAIN t /\ c[k] = t[k - Len(s)]
    <3>1. ~ \E j \in DOMAIN t : /\ i - Len(s) < j /\ j < k - Len(s)
                               /\ Frees(t[j], t[i - Len(s)].lock)
      <4> SUFFICES ASSUME NEW j \in DOMAIN t, i - Len(s) < j, j < k - Len(s),
                          Frees(t[j], t[i - Len(s)].lock)
                   PROVE  FALSE
        OBVIOUS
      <4>1. j + Len(s) \in DOMAIN c /\ c[j + Len(s)] = t[j]
        BY <1>4
      <4>2. i < j + Len(s) /\ j + Len(s) < k
        BY <1>2
      <4>. QED BY <4>1, <4>2, <2>3
    <3>2. i - Len(s) < k - Len(s)
      BY <1>2
    <3>. QED BY <2>3, <3>1, <3>2 DEF Block, Ordered
  <2>. QED BY <2>1, <2>2, <2>3, <1>2, <1>3
<1>7. Above(c, n)
  <2> SUFFICES ASSUME NEW i \in DOMAIN c, Takes(c[i])
               PROVE  n <= Rank[c[i].lock]
    BY DEF Above
  <2>. QED BY <1>3 DEF Block, Above
<1>. QED BY <1>1, <1>5, <1>6, <1>7 DEF Block, c

\* A guard of rank n and, under it, a piece that may run under rank n.
LEMMA BlockHold ==
  ASSUME NEW l \in Lock, NEW b, NEW mode \in {"read", "write"}, Block(b, Rank[l] + 1)
  PROVE  Block(Hold(mode, l, b), Rank[l])
<1> DEFINE first == [do |-> mode, lock |-> l]
           last  == [do |-> "free", lock |-> l]
           c == <<first>> \o b \o <<last>>
           n == Len(b)
<1>0. b \in Seq(Step) /\ first \in Step /\ last \in Step /\ Takes(first) /\ Frees(last, l)
      /\ ~Takes(last) /\ first.lock = l
  BY DEF Block, Step, Takes, Frees
<1>1. n \in Nat /\ DOMAIN b = 1 .. n
  BY <1>0, LenProperties
<1>2. /\ c \in Seq(Step) /\ Len(c) = n + 2 /\ DOMAIN c = 1 .. n + 2
      /\ c[1] = first /\ c[n + 2] = last
      /\ \A i \in 2 .. n + 1 : c[i] = b[i - 1]
  <2> HIDE DEF first, last
  <2>1. <<first>> \in Seq(Step) /\ <<last>> \in Seq(Step)
        /\ Len(<<first>>) = 1 /\ Len(<<last>>) = 1 /\ <<first>>[1] = first /\ <<last>>[1] = last
    BY <1>0
  <2> DEFINE d == <<first>> \o b
  <2>2. /\ d \in Seq(Step) /\ Len(d) = 1 + n
        /\ \A i \in 1 .. 1 + n : d[i] = IF i <= 1 THEN first ELSE b[i - 1]
    <3> DEFINE f == <<first>>
    <3> HIDE DEF f
    <3>1. f \in Seq(Step) /\ Len(f) = 1 /\ f[1] = first BY <2>1 DEF f
    <3>2. /\ f \o b \in Seq(Step) /\ Len(f \o b) = Len(f) + Len(b)
          /\ \A i \in 1 .. Len(f) + Len(b) :
               (f \o b)[i] = IF i <= Len(f) THEN f[i] ELSE b[i - Len(f)]
      BY <3>1, <1>0, ConcatProperties
    <3>. QED BY <3>1, <3>2, <1>1 DEF f
  <2>3. /\ c \in Seq(Step) /\ Len(c) = n + 2
        /\ \A i \in 1 .. n + 2 : c[i] = IF i <= n + 1 THEN d[i] ELSE last
    <3> DEFINE f == <<last>>
    <3> HIDE DEF f, d
    <3>1. f \in Seq(Step) /\ Len(f) = 1 /\ f[1] = last BY <2>1 DEF f
    <3>2. /\ d \o f \in Seq(Step) /\ Len(d \o f) = Len(d) + Len(f)
          /\ \A i \in 1 .. Len(d) + Len(f) :
               (d \o f)[i] = IF i <= Len(d) THEN d[i] ELSE f[i - Len(d)]
      BY <3>1, <2>2, ConcatProperties
    <3>3. c = d \o f BY DEF d, f
    <3> HIDE DEF c
    <3>. QED BY <3>1, <3>2, <3>3, <2>2, <1>1
  <2> HIDE DEF c, d
  <2>4. DOMAIN c = 1 .. n + 2
    BY <2>3, <1>1, LenProperties
  <2>. QED BY <2>2, <2>3, <2>4, <1>1
<1>3. Rank[l] \in Nat
  BY RankType
<1> HIDE DEF c, first, last, n
<1>4. Closed(c)
  <2> SUFFICES ASSUME NEW i \in DOMAIN c, Takes(c[i])
               PROVE  \E j \in DOMAIN c : i < j /\ Frees(c[j], c[i].lock)
    BY DEF Closed
  <2>1. CASE i = 1
    BY <2>1, <1>0, <1>1, <1>2
  <2>2. CASE i \in 2 .. n + 1
    <3>1. i - 1 \in DOMAIN b /\ c[i] = b[i - 1]
      BY <2>2, <1>1, <1>2
    <3>2. PICK j \in DOMAIN b : i - 1 < j /\ Frees(b[j], b[i - 1].lock)
      BY <3>1 DEF Block, Closed
    <3>3. j + 1 \in DOMAIN c /\ c[j + 1] = b[j] /\ i < j + 1
      BY <3>2, <2>2, <1>1, <1>2
    <3>. QED BY <3>1, <3>2, <3>3
  <2>3. i # n + 2
    BY <1>0, <1>2
  <2>. QED BY <2>1, <2>2, <2>3, <1>1, <1>2
<1>5. Above(c, Rank[l])
  <2> SUFFICES ASSUME NEW i \in DOMAIN c, Takes(c[i])
               PROVE  Rank[l] <= Rank[c[i].lock]
    BY DEF Above
  <2>1. CASE i = 1
    BY <2>1, <1>0, <1>2, <1>3
  <2>2. CASE i \in 2 .. n + 1
    <3>1. i - 1 \in DOMAIN b /\ c[i] = b[i - 1]
      BY <2>2, <1>1, <1>2
    <3>2. Rank[l] + 1 <= Rank[c[i].lock]
      BY <3>1 DEF Block, Above
    <3>3. b[i - 1] \in Step
      BY <1>0, <1>1, <3>1, ElementOfSeq
    <3>4. Rank[c[i].lock] \in Nat
      BY <3>1, <3>3, RankType DEF Step
    <3>. QED BY <1>3, <3>2, <3>4
  <2>3. i # n + 2
    BY <1>0, <1>2
  <2>. QED BY <2>1, <2>2, <2>3, <1>1, <1>2
<1>6. Ordered(c)
  <2> SUFFICES ASSUME NEW i \in DOMAIN c, NEW k \in DOMAIN c, i < k, Takes(c[i]), Takes(c[k]),
                      ~ \E j \in DOMAIN c : i < j /\ j < k /\ Frees(c[j], c[i].lock)
               PROVE  Rank[c[i].lock] < Rank[c[k].lock]
    BY DEF Ordered
  <2>0. k # n + 2
    BY <1>0, <1>2
  <2>1. k \in 2 .. n + 1 /\ k - 1 \in DOMAIN b /\ c[k] = b[k - 1]
    BY <2>0, <1>1, <1>2
  <2>4. i # n + 2
    BY <1>0, <1>2
  <2>2. CASE i = 1
    <3>1. Rank[l] + 1 <= Rank[c[k].lock]
      BY <2>1 DEF Block, Above
    <3>2. b[k - 1] \in Step
      BY <1>0, <1>1, <2>1, ElementOfSeq
    <3>3. Rank[c[k].lock] \in Nat
      BY <2>1, <3>2, RankType DEF Step
    <3>4. c[i].lock = l
      BY <2>2, <1>0, <1>2
    <3>. QED BY <3>1, <3>3, <3>4, <1>3
  <2>3. CASE i \in 2 .. n + 1
    <3>1. i - 1 \in DOMAIN b /\ c[i] = b[i - 1] /\ i - 1 < k - 1
      BY <2>3, <2>1, <1>1, <1>2
    <3>2. ~ \E j \in DOMAIN b : i - 1 < j /\ j < k - 1 /\ Frees(b[j], b[i - 1].lock)
      <4> SUFFICES ASSUME NEW j \in DOMAIN b, i - 1 < j, j < k - 1,
                          Frees(b[j], b[i - 1].lock)
                   PROVE  FALSE
        OBVIOUS
      <4>1. j + 1 \in 2 .. n + 1 /\ j + 1 - 1 = j
        BY <1>1
      <4>2. j + 1 \in DOMAIN c /\ c[j + 1] = b[j]
        BY <4>1, <1>1, <1>2
      <4>3. i < j + 1 /\ j + 1 < k
        BY <1>1, <2>1, <2>3
      <4>. QED BY <4>2, <4>3, <3>1
    <3>. QED BY <2>1, <3>1, <3>2 DEF Block, Ordered
  <2>. QED BY <2>4, <2>2, <2>3, <1>1, <1>2
<1>7. Hold(mode, l, b) = c
  BY DEF Hold, c, first, last
<1>. QED BY <1>2, <1>4, <1>5, <1>6, <1>7 DEF Block

LEMMA BlockGuard ==
  ASSUME NEW l \in Lock, NEW b, NEW m \in Nat, NEW n \in Nat,
         n <= Rank[l], Rank[l] < m, Block(b, m)
  PROVE  Block(Reading(l, b), n) /\ Block(Writing(l, b), n)
<1>1. Rank[l] \in Nat /\ Rank[l] + 1 \in Nat /\ Rank[l] + 1 <= m
  BY RankType
<1>2. Block(b, Rank[l] + 1)
  BY <1>1, BlockWeaker
<1>3. Block(Hold("read", l, b), Rank[l]) /\ Block(Hold("write", l, b), Rank[l])
  BY <1>2, BlockHold
<1>. QED BY <1>1, <1>3, BlockWeaker DEF Reading, Writing

LEMMA BlockPlain ==
  ASSUME NEW l \in Lock, NEW n \in Nat, n <= Rank[l]
  PROVE  Block(Reading(l, Nothing), n) /\ Block(Writing(l, Nothing), n)
<1>1. 10 \in Nat /\ Rank[l] < 10
  BY RankType
<1>. QED BY <1>1, BlockNothing, BlockGuard

LEMMA RankOf ==
  /\ Rank["last"] = 1 /\ Rank["lastEmit"] = 2 /\ Rank["trailing"] = 3
  /\ Rank["lastWorld"] = 4 /\ Rank["pendingWorld"] = 5 /\ Rank["inner"] = 6
  /\ Rank["topics"] = 7 /\ Rank["registry"] = 8 /\ Rank["sessions"] = 9
  /\ Lock = {"last", "lastEmit", "trailing", "lastWorld", "pendingWorld",
              "registry", "inner", "topics", "sessions"}
BY DEF Rank, Lock, ChangeBusLock

\* Every operation of the broker nests its guards in the one order and frees
\* what it took: the programs read off noded.rs, subscription.rs and props.rs.
LEMMA ProgramsOrdered == \A op \in DOMAIN Program : Block(Program[op], 1)
<1>1. /\ Block(Reading("inner", Nothing), 6) /\ Block(Writing("inner", Nothing), 6)
      /\ Block(Reading("topics", Nothing), 7) /\ Block(Writing("topics", Nothing), 7)
      /\ Block(Reading("topics", Nothing), 6) /\ Block(Writing("topics", Nothing), 6)
      /\ Block(Writing("sessions", Nothing), 9) /\ Block(Writing("sessions", Nothing), 6)
      /\ Block(Reading("registry", Nothing), 6) /\ Block(Writing("registry", Nothing), 6)
  BY BlockPlain, RankOf
<1>2. /\ Block(Writing("pendingWorld", Nothing), 5) /\ Block(Writing("pendingWorld", Nothing), 4)
      /\ Block(Writing("lastWorld", Nothing), 4) /\ Block(Writing("trailing", Nothing), 3)
  BY BlockPlain, RankOf
<1>3. Block(ReadBoth, 6) /\ Block(ReadInnerWriteTopics, 6)
  BY <1>1, BlockGuard, RankOf DEF ReadBoth, ReadInnerWriteTopics
<1>4. Block(Allocate, 6) /\ Block(FanOut, 6)
  BY <1>1, BlockGuard, RankOf DEF Allocate, FanOut
<1>5. Block(PruneAndNotify, 6)
  BY <1>1, <1>3, BlockConcat DEF PruneAndNotify
<1>6. Block(Publish, 6)
  <2>1. Block(Allocate \o FanOut, 6)
    BY <1>4, BlockConcat
  <2>. QED BY <2>1, <1>5, BlockConcat DEF Publish
<1>7. Block(Subscribe, 6)
  <2>1. Block(Reading("inner", Nothing) \o Writing("inner", Nothing), 6)
    BY <1>1, BlockConcat
  <2>2. Block(Reading("inner", Nothing) \o Writing("inner", Nothing) \o Reading("topics", Nothing), 6)
    BY <1>1, <2>1, BlockConcat
  <2>3. Block(Reading("inner", Nothing) \o Writing("inner", Nothing) \o Reading("topics", Nothing)
              \o Writing("inner", Nothing), 6)
    BY <1>1, <2>2, BlockConcat
  <2>. QED BY <1>1, <2>3, BlockConcat DEF Subscribe
<1>8. Block(Unsubscribe, 6)
  BY <1>1, BlockConcat DEF Unsubscribe
<1>9. Block(Clear, 6)
  <2>1. Block(Writing("topics", Nothing) \o Reading("inner", Nothing), 6)
    BY <1>1, BlockConcat
  <2>. QED BY <2>1, <1>5, BlockConcat DEF Clear
<1>10. Block(RemovePeer, 6)
  BY <1>3, <1>8, BlockConcat DEF RemovePeer, Unsubscribe
<1>11. Block(Janitor, 6)
  <2>1. Block(Reading("inner", Nothing) \o PruneAndNotify, 6)
    BY <1>1, <1>5, BlockConcat
  <2>2. Block(Reading("inner", Nothing) \o PruneAndNotify \o Reading("inner", Nothing), 6)
    BY <1>1, <2>1, BlockConcat
  <2>. QED BY <1>1, <2>2, BlockConcat DEF Janitor
<1>12. Block(SessionVerb, 6) /\ Block(Reading("registry", Writing("sessions", Nothing)), 6)
  BY <1>1, BlockGuard, RankOf DEF SessionVerb
<1>13. Block(RouteLocal, 6)
  <2>1. Block(Reading("registry", Nothing) \o Reading("registry", Writing("sessions", Nothing)), 6)
    BY <1>1, <1>12, BlockConcat
  <2>. QED BY <1>1, <2>1, BlockConcat DEF RouteLocal
<1>14. Block(Cleanup, 6)
  <2>1. Block(SessionVerb \o Writing("sessions", Nothing), 6)
    BY <1>1, <1>12, BlockConcat
  <2>2. Block(RemovePeer, 6)
    BY <1>10, BlockWeaker
  <2>3. Block(SessionVerb \o Writing("sessions", Nothing) \o RemovePeer, 6)
    BY <2>1, <2>2, BlockConcat
  <2>. QED BY <1>1, <2>3, BlockConcat DEF Cleanup
<1>15. Block(Publish, 4) /\ Block(Publish, 3)
  BY <1>6, BlockWeaker
<1>16. Block(PublishWorld, 4)
  <2>1. Block(Writing("lastWorld", Writing("pendingWorld", Nothing)), 4)
    BY <1>2, BlockGuard, RankOf
  <2>. QED BY <2>1, <1>15, BlockConcat DEF PublishWorld
<1>17. Block(DrainPending, 4)
  <2>1. Block(Writing("pendingWorld", Nothing) \o Writing("lastWorld", Nothing), 4)
    BY <1>2, BlockConcat
  <2>. QED BY <2>1, <1>15, BlockConcat DEF DrainPending
<1>18. Block(Collect, 6)
  <2>1. Block(ReadBoth, 6)
    BY <1>3, BlockWeaker
  <2>. QED BY <1>1, <2>1, BlockConcat DEF Collect
<1>19. Block(Observe, 1)
  <2>1. Block(Writing("trailing", Publish), 3)
    BY <1>15, BlockGuard, RankOf
  <2>2. Block(Writing("lastEmit", Writing("trailing", Publish)), 2)
    BY <2>1, BlockGuard, RankOf
  <2>. QED BY <2>2, BlockGuard, RankOf DEF Observe
<1>20. Block(EmitPropsChange, 1)
  <2>1. Block(Collect, 1) /\ Block(PublishWorld, 1)
    BY <1>16, <1>18, BlockWeaker
  <2>2. Block(Collect \o Observe, 1)
    BY <2>1, <1>19, BlockConcat
  <2>. QED BY <2>1, <2>2, BlockConcat DEF EmitPropsChange
<1>21. Block(FireTrailer, 1)
  <2>1. Block(Writing("trailing", Nothing) \o Publish, 3)
    BY <1>2, <1>15, BlockConcat
  <2>. QED BY <2>1, BlockGuard, RankOf DEF FireTrailer
<1>22. /\ Block(Publish, 1) /\ Block(Subscribe, 1) /\ Block(Unsubscribe, 1) /\ Block(Clear, 1)
       /\ Block(RemovePeer, 1) /\ Block(Janitor, 1) /\ Block(ReadBoth, 1) /\ Block(RouteLocal, 1)
       /\ Block(SessionVerb, 1) /\ Block(Cleanup, 1) /\ Block(DrainPending, 1)
  BY <1>3, <1>6, <1>7, <1>8, <1>9, <1>10, <1>11, <1>12, <1>13, <1>14, <1>17, BlockWeaker
<1>. QED BY <1>20, <1>21, <1>22 DEF Program

-----------------------------------------------------------------------------
(* What a task still has to do, given the guards it holds *)

\* With the locks H held, s frees each of them, and takes a lock only after
\* those of H it has not freed by then.
Safe(H, s) ==
  /\ Closed(s) /\ Ordered(s)
  /\ \A l \in H : \E j \in DOMAIN s : Frees(s[j], l)
  /\ \A l \in H : \A k \in DOMAIN s :
       Takes(s[k]) => \/ Rank[l] < Rank[s[k].lock]
                      \/ \E j \in DOMAIN s : j < k /\ Frees(s[j], l)

Disciplined == \A t \in Task : Safe(Mine(t), rest[t])

\* No two guards of one lock conflict.
Exclusive == \A g, h \in held : g.lock = h.lock /\ g # h => ~Conflict(g.do, h.do)

LEMMA TailOf ==
  ASSUME NEW S, NEW s \in Seq(S), s # <<>>
  PROVE  /\ Head(s) = s[1] /\ 1 \in DOMAIN s /\ Head(s) \in S /\ Tail(s) \in Seq(S)
         /\ Len(s) \in Nat \ {0} /\ DOMAIN s = 1 .. Len(s) /\ DOMAIN Tail(s) = 1 .. Len(s) - 1
         /\ \A i \in DOMAIN Tail(s) : i + 1 \in DOMAIN s /\ Tail(s)[i] = s[i + 1]
         /\ \A i \in DOMAIN s : i # 1 => i - 1 \in DOMAIN Tail(s) /\ Tail(s)[i - 1] = s[i]
<1>1. Len(s) \in Nat /\ DOMAIN s = 1 .. Len(s) /\ Len(s) # 0
  BY LenProperties, EmptySeq
<1>2. Tail(s) \in Seq(S) /\ Len(Tail(s)) = Len(s) - 1 /\ Head(s) \in S
      /\ Head(s) = s[1]
  BY HeadTailProperties
<1>3. DOMAIN Tail(s) = 1 .. Len(s) - 1
  BY <1>2, LenProperties
<1>4. \A i \in 1 .. Len(s) - 1 : Tail(s)[i] = s[i + 1]
  BY <1>1, HeadTailProperties
<1>5. \A i \in DOMAIN Tail(s) : i + 1 \in DOMAIN s /\ Tail(s)[i] = s[i + 1]
  BY <1>1, <1>3, <1>4
<1>6. ASSUME NEW i \in DOMAIN s, i # 1
      PROVE  i - 1 \in DOMAIN Tail(s) /\ Tail(s)[i - 1] = s[i]
  <2>1. i - 1 \in 1 .. Len(s) - 1 /\ i - 1 + 1 = i
    BY <1>1, <1>6
  <2>. QED BY <2>1, <1>3, <1>4
<1>. QED BY <1>1, <1>2, <1>3, <1>5, <1>6

LEMMA TailKeeps ==
  ASSUME NEW s \in Seq(Step), s # <<>>, Closed(s), Ordered(s)
  PROVE  Closed(Tail(s)) /\ Ordered(Tail(s))
<1> DEFINE r == Tail(s)
<1>1. /\ Len(s) \in Nat \ {0} /\ DOMAIN s = 1 .. Len(s) /\ DOMAIN r = 1 .. Len(s) - 1
      /\ \A i \in DOMAIN r : i + 1 \in DOMAIN s /\ r[i] = s[i + 1]
      /\ \A i \in DOMAIN s : i # 1 => i - 1 \in DOMAIN r /\ r[i - 1] = s[i]
  BY TailOf
<1> HIDE DEF r
<1>2. ASSUME NEW i \in DOMAIN r, Takes(r[i])
      PROVE  \E j \in DOMAIN r : i < j /\ Frees(r[j], r[i].lock)
  <2>1. i + 1 \in DOMAIN s /\ r[i] = s[i + 1]
    BY <1>1
  <2>2. PICK j \in DOMAIN s : i + 1 < j /\ Frees(s[j], s[i + 1].lock)
    BY <1>2, <2>1 DEF Closed
  <2>3. j # 1 /\ i < j - 1
    BY <1>1, <2>2
  <2>. QED BY <1>1, <2>1, <2>2, <2>3
<1>3. ASSUME NEW i \in DOMAIN r, NEW k \in DOMAIN r, i < k, Takes(r[i]), Takes(r[k]),
             ~ (Rank[r[i].lock] < Rank[r[k].lock])
      PROVE  \E j \in DOMAIN r : i < j /\ j < k /\ Frees(r[j], r[i].lock)
  <2>1. /\ i + 1 \in DOMAIN s /\ r[i] = s[i + 1]
        /\ k + 1 \in DOMAIN s /\ r[k] = s[k + 1] /\ i + 1 < k + 1
    BY <1>1, <1>3
  <2>2. PICK j \in DOMAIN s : i + 1 < j /\ j < k + 1 /\ Frees(s[j], s[i + 1].lock)
    BY <1>3, <2>1 DEF Ordered
  <2>3. j # 1 /\ i < j - 1 /\ j - 1 < k
    BY <1>1, <2>2
  <2>. QED BY <1>1, <2>1, <2>2, <2>3
<1>. QED BY <1>2, <1>3 DEF Closed, Ordered, r

LEMMA SafeBegin == ASSUME NEW s, Block(s, 1) PROVE Safe({}, s)
BY DEF Block, Safe

LEMMA SafeEnd == ASSUME NEW H, Safe(H, <<>>) PROVE H = {}
BY DEF Safe

\* A step that takes: the new guard is above those held, and is freed later.
LEMMA SafeTake ==
  ASSUME NEW H \in SUBSET Lock, NEW s \in Seq(Step), s # <<>>, Takes(Head(s)), Safe(H, s)
  PROVE  /\ Safe(H \cup {Head(s).lock}, Tail(s))
         /\ \A l \in H : Rank[l] < Rank[Head(s).lock]
<1> DEFINE r == Tail(s)
           a == Head(s).lock
<1>1. /\ Head(s) = s[1] /\ 1 \in DOMAIN s
      /\ Len(s) \in Nat \ {0} /\ DOMAIN s = 1 .. Len(s) /\ DOMAIN r = 1 .. Len(s) - 1
      /\ \A i \in DOMAIN r : i + 1 \in DOMAIN s /\ r[i] = s[i + 1]
      /\ \A i \in DOMAIN s : i # 1 => i - 1 \in DOMAIN r /\ r[i - 1] = s[i]
  BY TailOf
<1>2. Closed(r) /\ Ordered(r)
  BY TailKeeps DEF Safe
<1>3. ASSUME NEW l PROVE ~Frees(s[1], l)
  BY <1>1 DEF Takes, Frees
<1>4. ASSUME NEW l \in H PROVE Rank[l] < Rank[s[1].lock]
  <2>1. ~ \E j \in DOMAIN s : j < 1 /\ Frees(s[j], l)
    BY <1>1
  <2>. QED BY <1>1, <2>1 DEF Safe
<1> HIDE DEF r
<1>5. ASSUME NEW l \in H \cup {a} PROVE \E j \in DOMAIN r : Frees(r[j], l)
  <2>1. PICK j \in DOMAIN s : Frees(s[j], l)
    BY <1>1 DEF Safe, Closed
  <2>2. j # 1
    BY <2>1, <1>3
  <2>. QED BY <1>1, <2>1, <2>2
<1>6. ASSUME NEW l \in H \cup {a}, NEW k \in DOMAIN r, Takes(r[k]), ~(Rank[l] < Rank[r[k].lock])
      PROVE  \E j \in DOMAIN r : j < k /\ Frees(r[j], l)
  <2>1. k + 1 \in DOMAIN s /\ r[k] = s[k + 1] /\ 1 < k + 1
    BY <1>1
  <2>2. \E j \in DOMAIN s : j < k + 1 /\ Frees(s[j], l)
    <3>1. CASE l \in H
      BY <3>1, <1>6, <2>1 DEF Safe
    <3>2. CASE l = a
      BY <3>2, <1>1, <1>6, <2>1 DEF Safe, Ordered
    <3>. QED BY <3>1, <3>2
  <2>3. PICK j \in DOMAIN s : j < k + 1 /\ Frees(s[j], l)
    BY <2>2
  <2>4. j # 1
    BY <2>3, <1>3
  <2>5. j - 1 < k
    BY <1>1, <2>3
  <2>. QED BY <1>1, <2>3, <2>4, <2>5
<1>. QED BY <1>1, <1>2, <1>4, <1>5, <1>6 DEF Safe, r

\* A step that frees: the other guards are still freed later.
LEMMA SafeFree ==
  ASSUME NEW H \in SUBSET Lock, NEW s \in Seq(Step), s # <<>>, Head(s).do = "free", Safe(H, s)
  PROVE  Safe(H \ {Head(s).lock}, Tail(s))
<1> DEFINE r == Tail(s)
           a == Head(s).lock
<1>1. /\ Head(s) = s[1] /\ 1 \in DOMAIN s
      /\ Len(s) \in Nat \ {0} /\ DOMAIN s = 1 .. Len(s) /\ DOMAIN r = 1 .. Len(s) - 1
      /\ \A i \in DOMAIN r : i + 1 \in DOMAIN s /\ r[i] = s[i + 1]
      /\ \A i \in DOMAIN s : i # 1 => i - 1 \in DOMAIN r /\ r[i - 1] = s[i]
  BY TailOf
<1>2. Closed(r) /\ Ordered(r)
  BY TailKeeps DEF Safe
<1>3. ASSUME NEW l \in H \ {a} PROVE ~Frees(s[1], l)
  BY <1>1 DEF Frees
<1> HIDE DEF r, a
<1>4. ASSUME NEW l \in H \ {a} PROVE \E j \in DOMAIN r : Frees(r[j], l)
  <2>1. PICK j \in DOMAIN s : Frees(s[j], l)
    BY DEF Safe
  <2>2. j # 1
    BY <2>1, <1>3
  <2>. QED BY <1>1, <2>1, <2>2
<1>5. ASSUME NEW l \in H \ {a}, NEW k \in DOMAIN r, Takes(r[k]), ~(Rank[l] < Rank[r[k].lock])
      PROVE  \E j \in DOMAIN r : j < k /\ Frees(r[j], l)
  <2>1. k + 1 \in DOMAIN s /\ r[k] = s[k + 1]
    BY <1>1
  <2>2. PICK j \in DOMAIN s : j < k + 1 /\ Frees(s[j], l)
    BY <1>5, <2>1 DEF Safe
  <2>3. j # 1
    BY <2>2, <1>3
  <2>4. j - 1 < k
    BY <1>1, <2>2
  <2>. QED BY <1>1, <2>2, <2>3, <2>4
<1>. QED BY <1>2, <1>4, <1>5 DEF Safe, r, a

-----------------------------------------------------------------------------
(* The invariant *)

LockInv == TypeOK /\ Disciplined /\ Exclusive

LEMMA AppendOf ==
  ASSUME NEW S, NEW s \in Seq(S), NEW e \in S
  PROVE  /\ Append(s, e) \in Seq(S) /\ Len(s) \in Nat /\ DOMAIN s = 1 .. Len(s)
         /\ DOMAIN Append(s, e) = 1 .. Len(s) + 1
         /\ \A i \in DOMAIN s : Append(s, e)[i] = s[i]
         /\ Append(s, e)[Len(s) + 1] = e
<1>1. Len(s) \in Nat /\ DOMAIN s = 1 .. Len(s)
  BY LenProperties
<1>2. /\ Append(s, e) \in Seq(S) /\ Len(Append(s, e)) = Len(s) + 1
      /\ \A i \in 1 .. Len(s) : Append(s, e)[i] = s[i]
      /\ Append(s, e)[Len(s) + 1] = e
  BY AppendProperties
<1>3. DOMAIN Append(s, e) = 1 .. Len(s) + 1
  BY <1>2, LenProperties
<1>. QED BY <1>1, <1>2, <1>3

Waiter == [task : Task, do : {"read", "write"}]

\* The part of TypeOK about one queue, q of lock l, when the tasks have r to do.
QueueOK(q, l, r) ==
  /\ q \in Seq(Waiter)
  /\ \A k \in DOMAIN q : r[q[k].task] # <<>> /\ Head(r[q[k].task]) = [do |-> q[k].do, lock |-> l]
  /\ \A j, k \in DOMAIN q : q[j].task = q[k].task => j = k

LEMMA TypeOKQueues ==
  TypeOK <=> /\ rest \in [Task -> Seq(Step)]
             /\ held \subseteq [task : Task, lock : Lock, do : {"read", "write"}]
             /\ queue \in [Lock -> Seq(Waiter)]
             /\ \A l \in Lock : QueueOK(queue[l], l, rest)
BY DEF TypeOK, QueueOK, Waiter

LEMMA TypeOKQueuesPrime ==
  TypeOK' <=> /\ rest' \in [Task -> Seq(Step)]
              /\ held' \subseteq [task : Task, lock : Lock, do : {"read", "write"}]
              /\ queue' \in [Lock -> Seq(Waiter)]
              /\ \A l \in Lock : QueueOK(queue'[l], l, rest')
BY DEF TypeOK, QueueOK, Waiter

\* A waiter's task has a lock to take, so one that has not waits nowhere.
LEMMA WaiterTakes ==
  ASSUME TypeOK, NEW l \in Lock, NEW k \in DOMAIN queue[l]
  PROVE  /\ queue[l][k] \in Waiter /\ queue[l][k].task \in Task
         /\ rest[queue[l][k].task] # <<>> /\ Head(rest[queue[l][k].task]).lock = l
         /\ Takes(Head(rest[queue[l][k].task]))
<1>1. queue[l] \in Seq(Waiter)
  BY DEF TypeOK, Waiter
<1>2. queue[l][k] \in Waiter
  BY <1>1, ElementOfSeq, LenProperties
<1> DEFINE w == queue[l][k]
           x == Head(rest[w.task])
<1>3. rest[w.task] # <<>> /\ x = [do |-> w.do, lock |-> l]
  BY DEF TypeOK
<1>4. w \in Waiter
  BY <1>2
<1> HIDE DEF w, x
<1>5. w.task \in Task /\ w.do # "free"
  BY <1>4 DEF Waiter
<1>6. x.lock = l /\ Takes(x)
  BY <1>3, <1>5 DEF Takes
<1>. QED BY <1>3, <1>4, <1>5, <1>6 DEF w, x

\* Queues nobody joins or leaves stay in order when a task that waits nowhere
\* goes on.
LEMMA QueueKept ==
  ASSUME TypeOK, NEW t \in Task, NEW x, rest' = [rest EXCEPT ![t] = x],
         NEW l \in Lock, \A k \in DOMAIN queue[l] : queue[l][k].task # t
  PROVE  QueueOK(queue[l], l, rest')
<1>1. QueueOK(queue[l], l, rest)
  BY TypeOKQueues
<1>2. \A k \in DOMAIN queue[l] : rest'[queue[l][k].task] = rest[queue[l][k].task]
  BY WaiterTakes DEF TypeOK
<1>. QED BY <1>1, <1>2 DEF QueueOK

LEMMA MineType == ASSUME TypeOK, NEW t \in Task PROVE Mine(t) \in SUBSET Lock
BY DEF TypeOK, Mine

\* The invariant when t is given the lock its next step takes, by Take or Wake.
LEMMA Granted ==
  ASSUME LockInv, NEW t \in Task, rest[t] # <<>>, Takes(Head(rest[t])),
         Compatible(Head(rest[t])),
         held' = held \cup {Guard(t, Head(rest[t]))},
         rest' = [rest EXCEPT ![t] = Tail(@)]
  PROVE  /\ rest' \in [Task -> Seq(Step)]
         /\ held' \subseteq [task : Task, lock : Lock, do : {"read", "write"}]
         /\ Disciplined' /\ Exclusive'
<1> DEFINE s == Head(rest[t])
           g == Guard(t, s)
<1>1. rest \in [Task -> Seq(Step)] /\ rest[t] \in Seq(Step)
      /\ held \subseteq [task : Task, lock : Lock, do : {"read", "write"}]
  BY DEF LockInv, TypeOK
<1>2. s \in Step /\ Tail(rest[t]) \in Seq(Step)
  BY <1>1, TailOf
<1>3. g \in [task : Task, lock : Lock, do : {"read", "write"}]
      /\ g.task = t /\ g.lock = s.lock /\ g.do = s.do
  BY <1>2 DEF Guard, Step, Takes
<1>4. rest' \in [Task -> Seq(Step)]
  BY <1>1, <1>2
<1>5. held' \subseteq [task : Task, lock : Lock, do : {"read", "write"}]
  BY <1>1, <1>3
<1>6. ASSUME NEW u \in Task PROVE Safe(Mine(u)', rest'[u])
  <2>1. Safe(Mine(u), rest[u])
    BY DEF LockInv, Disciplined
  <2>2. CASE u = t
    <3>1. rest'[u] = Tail(rest[t])
      BY <1>1, <2>2
    <3>2. Mine(u)' = Mine(t) \cup {s.lock}
      <4> HIDE DEF g, s
      <4>1. held' = held \cup {g} BY DEF g, s
      <4>. QED BY <4>1, <1>3, <2>2 DEF Mine
    <3>3. Mine(t) \in SUBSET Lock
      BY MineType DEF LockInv
    <3>. QED BY <1>1, <2>1, <2>2, <3>1, <3>2, <3>3, SafeTake
  <2>3. CASE u # t
    <3>1. rest'[u] = rest[u]
      BY <1>1, <2>3
    <3>2. Mine(u)' = Mine(u)
      <4> HIDE DEF g, s
      <4>1. held' = held \cup {g} BY DEF g, s
      <4>. QED BY <4>1, <1>3, <2>3 DEF Mine
    <3>. QED BY <2>1, <3>1, <3>2
  <2>. QED BY <2>2, <2>3
<1>7. Exclusive'
  <2> HIDE DEF g, s
  <2>1. held' = held \cup {g} BY DEF g, s
  <2>2. \A h \in held : h.lock = g.lock => ~Conflict(h.do, g.do)
    BY <1>3 DEF Compatible, s
  <2>. QED BY <2>1, <2>2 DEF Exclusive, LockInv, Conflict
<1>. QED BY <1>4, <1>5, <1>6, <1>7 DEF Disciplined

LEMMA BeginKeeps ==
  ASSUME LockInv, NEW t \in Task, NEW op \in Operation, Begin(t, op)
  PROVE  LockInv'
<1>1. rest \in [Task -> Seq(Step)] /\ queue \in [Lock -> Seq(Waiter)]
  BY TypeOKQueues DEF LockInv
<1>2. Block(Program[op], 1)
  BY ProgramsOrdered, LocksAssumption
<1>3. /\ rest' = [rest EXCEPT ![t] = Program[op]] /\ rest[t] = <<>>
      /\ held' = held /\ queue' = queue
  BY DEF Begin
<1>4. rest' \in [Task -> Seq(Step)]
  BY <1>1, <1>2, <1>3 DEF Block
<1>5. ASSUME NEW l \in Lock PROVE QueueOK(queue'[l], l, rest')
  <2>1. \A k \in DOMAIN queue[l] : queue[l][k].task # t
    BY <1>3, WaiterTakes DEF LockInv
  <2>2. QueueOK(queue[l], l, rest')
    BY <1>3, <2>1, QueueKept DEF LockInv
  <2>. QED BY <2>2, <1>3
<1>6. TypeOK'
  BY <1>1, <1>3, <1>4, <1>5, TypeOKQueues, TypeOKQueuesPrime DEF LockInv
<1>7. ASSUME NEW u \in Task PROVE Safe(Mine(u)', rest'[u])
  <2>1. Safe(Mine(u), rest[u]) /\ Mine(u)' = Mine(u)
    BY <1>3 DEF LockInv, Disciplined, Mine
  <2>2. CASE u = t
    <3>1. Mine(u) = {}
      BY <2>1, <2>2, <1>3, SafeEnd
    <3>. QED BY <2>1, <2>2, <3>1, <1>1, <1>2, <1>3, SafeBegin
  <2>. QED BY <2>1, <2>2, <1>1, <1>3
<1>. QED BY <1>3, <1>6, <1>7 DEF LockInv, Disciplined, Exclusive

LEMMA TakeKeeps ==
  ASSUME LockInv, NEW t \in Task, Take(t)
  PROVE  LockInv'
<1> DEFINE s == Head(rest[t])
<1>1. rest \in [Task -> Seq(Step)] /\ queue \in [Lock -> Seq(Waiter)] /\ rest[t] # <<>>
      /\ rest[t] \in Seq(Step)
  BY TypeOKQueues DEF LockInv, Take
<1>2. s \in Step /\ s.do # "free" /\ Takes(s) /\ s.lock \in Lock /\ s.do \in {"read", "write"}
  <2>1. s \in Step
    BY <1>1, TailOf
  <2>2. s.do # "free"
    BY DEF Take
  <2> HIDE DEF s
  <2>. QED BY <2>1, <2>2 DEF Takes, Step
<1>3. \A l \in Lock : \A k \in DOMAIN queue[l] : queue[l][k].task # t
  BY DEF Take, Queued
<1>4. CASE FreeToTake(s)
  <2>1. /\ held' = held \cup {Guard(t, s)} /\ rest' = [rest EXCEPT ![t] = Tail(@)]
        /\ queue' = queue
    BY <1>4 DEF Take
  <2>2. /\ rest' \in [Task -> Seq(Step)]
        /\ held' \subseteq [task : Task, lock : Lock, do : {"read", "write"}]
        /\ Disciplined' /\ Exclusive'
    BY <1>1, <1>2, <1>4, <2>1, Granted DEF FreeToTake
  <2>3. ASSUME NEW l \in Lock PROVE QueueOK(queue'[l], l, rest')
    BY <1>3, <2>1, QueueKept DEF LockInv
  <2>. QED BY <1>1, <2>1, <2>2, <2>3, TypeOKQueuesPrime DEF LockInv
<1>5. CASE ~FreeToTake(s)
  <2> DEFINE w == [task |-> t, do |-> s.do]
             q == queue[s.lock]
  <2>1. /\ queue' = [queue EXCEPT ![s.lock] = Append(@, w)]
        /\ held' = held /\ rest' = rest
    BY <1>5 DEF Take
  <2>2. w \in Waiter /\ w.task = t /\ w.do = s.do /\ q \in Seq(Waiter)
    BY <1>1, <1>2 DEF Waiter
  <2>3. /\ Append(q, w) \in Seq(Waiter) /\ Len(q) \in Nat /\ DOMAIN q = 1 .. Len(q)
        /\ DOMAIN Append(q, w) = 1 .. Len(q) + 1
        /\ \A i \in DOMAIN q : Append(q, w)[i] = q[i]
        /\ Append(q, w)[Len(q) + 1] = w
    <3> HIDE DEF q, w
    <3>. QED BY <2>2, AppendOf
  <2>4. s = [do |-> s.do, lock |-> s.lock]
    BY <1>2 DEF Step
  <2>5. QueueOK(q, s.lock, rest)
    BY <1>2, TypeOKQueues DEF LockInv
  <2>6. QueueOK(Append(q, w), s.lock, rest)
    <3> DEFINE a == Append(q, w)
    <3>1. \A k \in DOMAIN q : a[k] = q[k] /\ q[k].task # t
      BY <2>3, <1>2, <1>3
    <3>2. ASSUME NEW k \in DOMAIN a
          PROVE  k \in DOMAIN q \/ k = Len(q) + 1
      <4> HIDE DEF q, w
      <4>1. k \in 1 .. Len(q) + 1
        BY <2>3
      <4> HIDE DEF a
      <4>. QED BY <4>1, <2>3
    <3>3. a \in Seq(Waiter) /\ a[Len(q) + 1] = w
      BY <2>3
    <3> HIDE DEF a, w, s
    <3>4. ASSUME NEW k \in DOMAIN a
          PROVE  rest[a[k].task] # <<>> /\ Head(rest[a[k].task]) = [do |-> a[k].do, lock |-> s.lock]
      <4>1. CASE k \in DOMAIN q
        BY <4>1, <3>1, <2>5 DEF QueueOK
      <4>2. CASE k = Len(q) + 1
        BY <4>2, <3>3, <2>2, <2>4, <1>1 DEF s
      <4>. QED BY <4>1, <4>2, <3>2
    <3>5. ASSUME NEW j \in DOMAIN a, NEW k \in DOMAIN a, a[j].task = a[k].task PROVE j = k
      BY <3>1, <3>2, <3>3, <3>5, <2>2, <2>5 DEF QueueOK
    <3>. QED BY <3>3, <3>4, <3>5 DEF QueueOK, a
  <2> HIDE DEF w, s
  <2>7. ASSUME NEW l \in Lock PROVE QueueOK(queue'[l], l, rest')
    <3>1. QueueOK(queue[l], l, rest)
      BY TypeOKQueues DEF LockInv
    <3>. QED BY <3>1, <2>1, <2>6, <1>1, <1>2
  <2>8. queue' \in [Lock -> Seq(Waiter)]
    BY <1>1, <1>2, <2>1, <2>3
  <2>9. TypeOK'
    BY <1>1, <2>1, <2>7, <2>8, TypeOKQueues, TypeOKQueuesPrime DEF LockInv
  <2>. QED BY <2>1, <2>9 DEF LockInv, Disciplined, Exclusive, Mine
<1>. QED BY <1>4, <1>5

LEMMA WakeKeeps ==
  ASSUME LockInv, NEW t \in Task, Wake(t)
  PROVE  LockInv'
<1> DEFINE s == Head(rest[t])
           q == queue[s.lock]
<1>1. rest \in [Task -> Seq(Step)] /\ queue \in [Lock -> Seq(Waiter)]
  BY TypeOKQueues DEF LockInv
<1>2. PICK l \in Lock : \E k \in DOMAIN queue[l] : queue[l][k].task = t
  BY DEF Wake, Queued
<1>3. PICK k \in DOMAIN queue[l] : queue[l][k].task = t
  BY <1>2
<1>4. rest[t] # <<>> /\ s.lock = l /\ Takes(s)
  BY <1>3, WaiterTakes DEF LockInv
<1>5. /\ Head(queue[l]).task = t /\ Compatible(s)
      /\ held' = held \cup {Guard(t, s)}
      /\ queue' = [queue EXCEPT ![l] = Tail(@)]
      /\ rest' = [rest EXCEPT ![t] = Tail(@)]
  BY <1>4 DEF Wake
<1>6. /\ rest' \in [Task -> Seq(Step)]
      /\ held' \subseteq [task : Task, lock : Lock, do : {"read", "write"}]
      /\ Disciplined' /\ Exclusive'
  BY <1>4, <1>5, Granted
<1>7. queue[l] \in Seq(Waiter) /\ queue[l] # <<>>
  BY <1>1, <1>3
<1> DEFINE r == Tail(queue[l])
<1>8. /\ Head(queue[l]) = queue[l][1] /\ 1 \in DOMAIN queue[l] /\ r \in Seq(Waiter)
      /\ Len(queue[l]) \in Nat \ {0} /\ DOMAIN r = 1 .. Len(queue[l]) - 1
      /\ \A i \in DOMAIN r : i + 1 \in DOMAIN queue[l] /\ r[i] = queue[l][i + 1]
  BY <1>7, TailOf
<1>9. QueueOK(queue[l], l, rest)
  BY TypeOKQueues DEF LockInv
<1> HIDE DEF r, s
<1>10. QueueOK(r, l, rest')
  <2>1. ASSUME NEW i \in DOMAIN r
        PROVE  r[i].task \in Task /\ r[i].task # t
    <3>1. i + 1 \in DOMAIN queue[l] /\ i + 1 # 1 /\ r[i] = queue[l][i + 1]
      BY <1>8
    <3>2. queue[l][i + 1].task # queue[l][1].task
      BY <3>1, <1>8, <1>9 DEF QueueOK
    <3>3. queue[l][i + 1].task \in Task
      BY <3>1, WaiterTakes DEF LockInv
    <3>. QED BY <3>1, <3>2, <3>3, <1>5, <1>8
  <2>2. \A i \in DOMAIN r : rest'[r[i].task] = rest[r[i].task]
    BY <2>1, <1>1, <1>5
  <2>3. ASSUME NEW i \in DOMAIN r, NEW j \in DOMAIN r, r[i].task = r[j].task PROVE i = j
    <3>1. i + 1 \in DOMAIN queue[l] /\ j + 1 \in DOMAIN queue[l] /\ i \in Nat /\ j \in Nat
          /\ queue[l][i + 1].task = queue[l][j + 1].task
      BY <1>8, <2>3
    <3>2. i + 1 = j + 1
      BY <3>1, <1>9 DEF QueueOK
    <3>. QED BY <3>1, <3>2
  <2>4. ASSUME NEW i \in DOMAIN r
        PROVE  rest'[r[i].task] # <<>> /\ Head(rest'[r[i].task]) = [do |-> r[i].do, lock |-> l]
    <3>1. i + 1 \in DOMAIN queue[l] /\ r[i] = queue[l][i + 1]
      BY <1>8
    <3>. QED BY <3>1, <2>2, <1>9 DEF QueueOK
  <2>. QED BY <1>8, <2>3, <2>4 DEF QueueOK
<1>11. ASSUME NEW m \in Lock PROVE QueueOK(queue'[m], m, rest')
  <2>1. CASE m = l
    BY <2>1, <1>1, <1>5, <1>10 DEF r
  <2>2. CASE m # l
    <3>1. queue'[m] = queue[m]
      BY <2>2, <1>1, <1>5
    <3>2. \A i \in DOMAIN queue[m] : queue[m][i].task # t
      BY <2>2, <1>4, WaiterTakes DEF LockInv, s
    <3>. QED BY <3>1, <3>2, <1>5, QueueKept DEF LockInv
  <2>. QED BY <2>1, <2>2
<1>12. queue' \in [Lock -> Seq(Waiter)]
  BY <1>1, <1>5, <1>8 DEF r
<1>. QED BY <1>6, <1>11, <1>12, TypeOKQueuesPrime DEF LockInv

LEMMA DropKeeps ==
  ASSUME LockInv, NEW t \in Task, Drop(t)
  PROVE  LockInv'
<1> DEFINE s == Head(rest[t])
<1>1. rest \in [Task -> Seq(Step)] /\ queue \in [Lock -> Seq(Waiter)] /\ rest[t] \in Seq(Step)
      /\ held \subseteq [task : Task, lock : Lock, do : {"read", "write"}]
  BY TypeOKQueues DEF LockInv
<1>2. /\ rest[t] # <<>> /\ s.do = "free"
      /\ held' = {h \in held : h.task # t \/ h.lock # s.lock}
      /\ rest' = [rest EXCEPT ![t] = Tail(@)] /\ queue' = queue
  BY DEF Drop
<1>3. s \in Step /\ Tail(rest[t]) \in Seq(Step)
  BY <1>1, <1>2, TailOf
<1>4. rest' \in [Task -> Seq(Step)]
  BY <1>1, <1>2, <1>3
<1>5. \A l \in Lock : \A k \in DOMAIN queue[l] : queue[l][k].task # t
  BY <1>2, WaiterTakes DEF LockInv, Takes
<1>6. ASSUME NEW l \in Lock PROVE QueueOK(queue'[l], l, rest')
  BY <1>2, <1>5, QueueKept DEF LockInv
<1>7. TypeOK'
  BY <1>1, <1>2, <1>4, <1>6, TypeOKQueuesPrime
<1> HIDE DEF s
<1>8. ASSUME NEW u \in Task PROVE Safe(Mine(u)', rest'[u])
  <2>1. Safe(Mine(u), rest[u]) /\ Mine(u) \in SUBSET Lock
    BY MineType DEF LockInv, Disciplined
  <2>2. CASE u = t
    <3>1. Mine(u)' = Mine(u) \ {s.lock}
      BY <1>2, <2>2 DEF Mine
    <3>2. rest'[u] = Tail(rest[u])
      BY <1>1, <1>2, <2>2
    <3>. QED BY <1>1, <1>2, <2>1, <2>2, <3>1, <3>2, SafeFree DEF s
  <2>3. CASE u # t
    <3>1. Mine(u)' = Mine(u)
      BY <1>2, <2>3 DEF Mine
    <3>. QED BY <1>1, <1>2, <2>1, <2>3, <3>1
  <2>. QED BY <2>2, <2>3
<1>9. Exclusive'
  BY <1>2 DEF LockInv, Exclusive
<1>. QED BY <1>7, <1>8, <1>9 DEF LockInv, Disciplined

-----------------------------------------------------------------------------
(* The theorems *)

LEMMA InitLocks == Init => LockInv
<1> SUFFICES ASSUME Init PROVE LockInv
  OBVIOUS
<1>1. TypeOK
  BY DEF Init, TypeOK
<1>2. ASSUME NEW t \in Task PROVE Safe(Mine(t), rest[t])
  <2>1. Mine(t) = {} /\ rest[t] = Nothing
    BY DEF Init, Mine, Nothing
  <2>2. Block(Nothing, 1)
    BY BlockNothing
  <2>. QED BY <2>1, <2>2, SafeBegin
<1>. QED BY <1>1, <1>2 DEF LockInv, Disciplined, Exclusive, Init

LEMMA NextLocks == LockInv /\ [Next]_vars => LockInv'
<1> SUFFICES ASSUME LockInv, [Next]_vars PROVE LockInv'
  OBVIOUS
<1>1. CASE UNCHANGED vars
  BY <1>1 DEF vars, LockInv, TypeOK, Disciplined, Exclusive, Mine
<1>2. ASSUME NEW t \in Task, Run(t) PROVE LockInv'
  BY <1>2, TakeKeeps, WakeKeeps, DropKeeps DEF Run
<1>3. ASSUME NEW t \in Task, NEW op \in Operation, Begin(t, op) PROVE LockInv'
  BY <1>3, BeginKeeps
<1>. QED BY <1>1, <1>2, <1>3 DEF Next

\* For any tasks and any of the operations: guards and waiters are those of
\* running operations, and a waiter waits for the lock its next step takes, at
\* one place of one queue.
THEOREM TypeCorrect == Spec => []TypeOK
<1>1. Spec => []LockInv
  BY InitLocks, NextLocks, PTL DEF Spec
<1>. QED BY <1>1, PTL DEF LockInv

\* SubscriptionBroker, lock order: whatever tasks there are and whichever
\* operations they run, every task keeps to the documented order at every step,
\* and ends with no guard held.  The programs are why: each takes a lock only
\* under guards of a lower rank, and frees what it takes.
THEOREM OrderKept == Spec => []LockOrder
<1>1. Spec => []LockInv
  BY InitLocks, NextLocks, PTL DEF Spec
<1>2. LockInv => LockOrder
  <2> SUFFICES ASSUME LockInv, NEW t \in Task
               PROVE  /\ rest[t] = <<>> => Mine(t) = {}
                      /\ (rest[t] # <<>> /\ Head(rest[t]).do # "free") =>
                           LET l == Head(rest[t]).lock IN
                           /\ l \notin Mine(t) /\ "sessions" \notin Mine(t)
                           /\ l = "inner" => "topics" \notin Mine(t)
                           /\ l \in {"inner", "topics"} => "registry" \notin Mine(t)
                           /\ l \in ChangeBusLock => Mine(t) \subseteq ChangeBusLock
    BY DEF LockOrder
  <2>1. /\ Safe(Mine(t), rest[t]) /\ rest[t] \in Seq(Step) /\ Mine(t) \in SUBSET Lock
    BY MineType DEF LockInv, Disciplined, TypeOK
  <2>2. rest[t] = <<>> => Mine(t) = {}
    BY <2>1, SafeEnd
  <2>3. ASSUME rest[t] # <<>>, Head(rest[t]).do # "free"
        PROVE  LET l == Head(rest[t]).lock IN
               /\ l \notin Mine(t) /\ "sessions" \notin Mine(t)
               /\ l = "inner" => "topics" \notin Mine(t)
               /\ l \in {"inner", "topics"} => "registry" \notin Mine(t)
               /\ l \in ChangeBusLock => Mine(t) \subseteq ChangeBusLock
    <3> DEFINE l == Head(rest[t]).lock
    <3>1. \A m \in Mine(t) : Rank[m] < Rank[l]
      BY <2>1, <2>3, SafeTake DEF Takes
    <3>2. l \in Lock
      <4>1. Head(rest[t]) \in Step
        BY <2>1, <2>3, TailOf
      <4>. QED BY <4>1 DEF Step
    <3> HIDE DEF l
    <3>3. \A m \in Lock : Rank[m] \in 1 .. 9
      BY RankType
    <3>4. l \notin Mine(t)
      BY <3>1, <3>2, <3>3
    <3>5. "sessions" \notin Mine(t)
      BY <3>1, <3>2, <3>3, RankOf
    <3>6. l = "inner" => "topics" \notin Mine(t)
      BY <3>1, RankOf
    <3>7. l \in {"inner", "topics"} => "registry" \notin Mine(t)
      BY <3>1, RankOf
    <3>8. ASSUME l \in ChangeBusLock, NEW m \in Mine(t) PROVE m \in ChangeBusLock
      <4>1. Rank[l] <= 5
        BY <3>8, RankOf DEF ChangeBusLock
      <4>2. Rank[m] < 5 /\ m \in Lock
        BY <2>1, <3>1, <3>2, <3>3, <3>8, <4>1
      <4>. QED BY <4>2, RankOf DEF ChangeBusLock
    <3>. QED BY <3>4, <3>5, <3>6, <3>7, <3>8 DEF l
  <2>. QED BY <2>2, <2>3
<1>. QED BY <1>1, <1>2, PTL

\* A set of natural numbers has a least element.
LEMMA LeastNat ==
  ASSUME NEW T \in SUBSET Nat, T # {}
  PROVE  \E m \in T : \A k \in T : m <= k
<1> DEFINE R == {ss \in Nat \X Nat : ss[1] < ss[2]}
<1>1. IsWellFoundedOn(R, Nat)
  BY NatLessThanWellFounded DEF OpToRel
<1>2. \E x \in T : \A y \in T : ~(<<y, x>> \in R)
  <2> HIDE DEF R
  <2>. QED BY <1>1, WFMin
<1>3. PICK x \in T : \A y \in T : ~(<<y, x>> \in R)
  BY <1>2
<1>4. ASSUME NEW y \in T PROVE x <= y
  <2>1. <<y, x>> \in Nat \X Nat
    OBVIOUS
  <2>2. ~(y < x)
    BY <1>3, <2>1
  <2>. QED BY <2>2
<1>. QED BY <1>4

\* Of a set of tasks that wait on each other, take those that wait for the
\* highest lock, and of them the first in its queue.  What stands in its way
\* holds that lock, and waits for a higher one, or is ahead in the queue.
LEMMA OrderedNeverCircular == LockInv => NoCircularWait
<1> SUFFICES ASSUME LockInv, NEW S \in SUBSET Task, S # {},
                    \A t \in S : \E u \in S : BlockedBy(t, u)
             PROVE  FALSE
  BY DEF NoCircularWait
<1> DEFINE At(t, l) == \E k \in DOMAIN queue[l] : queue[l][k].task = t
<1>1. ASSUME NEW t \in S PROVE \E l \in Lock : At(t, l)
  BY DEF BlockedBy
<1>2. \A t \in S : \A l \in Lock :
        At(t, l) => rest[t] # <<>> /\ Head(rest[t]).lock = l /\ Takes(Head(rest[t]))
  <2> SUFFICES ASSUME NEW t \in S, NEW l \in Lock, NEW k \in DOMAIN queue[l],
                      queue[l][k].task = t
               PROVE  rest[t] # <<>> /\ Head(rest[t]).lock = l /\ Takes(Head(rest[t]))
    OBVIOUS
  <2>. QED BY WaiterTakes DEF LockInv
<1> HIDE DEF At
<1>3. \E l \in Lock : /\ \E t \in S : At(t, l)
                      /\ \A t \in S : \A m \in Lock : At(t, m) => Rank[m] <= Rank[l]
  <2> DEFINE T == {n \in Nat : \E l \in Lock : n = 9 - Rank[l] /\ \E t \in S : At(t, l)}
  <2>1. ASSUME NEW l \in Lock PROVE 9 - Rank[l] \in Nat /\ Rank[l] \in Nat
    BY RankType
  <2>2. T # {} /\ T \in SUBSET Nat
    <3>1. PICK t \in S : TRUE
      OBVIOUS
    <3>2. PICK l \in Lock : At(t, l)
      BY <1>1
    <3>3. 9 - Rank[l] \in T
      BY <3>2, <2>1
    <3>. QED BY <3>3
  <2> HIDE DEF T
  <2>3. PICK n \in T : \A k \in T : n <= k
    BY <2>2, LeastNat
  <2>4. PICK l \in Lock : n = 9 - Rank[l] /\ \E t \in S : At(t, l)
    BY <2>3 DEF T
  <2>5. ASSUME NEW t \in S, NEW m \in Lock, At(t, m) PROVE Rank[m] <= Rank[l]
    <3>1. 9 - Rank[m] \in T
      BY <2>1, <2>5 DEF T
    <3>2. 9 - Rank[l] <= 9 - Rank[m]
      BY <3>1, <2>3, <2>4
    <3>. QED BY <3>2, <2>1
  <2>. QED BY <2>4, <2>5
<1>4. PICK l \in Lock : /\ \E t \in S : At(t, l)
                        /\ \A t \in S : \A m \in Lock : At(t, m) => Rank[m] <= Rank[l]
  BY <1>3
<1>5. queue[l] \in Seq(Waiter) /\ QueueOK(queue[l], l, rest)
  BY TypeOKQueues DEF LockInv, QueueOK
<1>6. DOMAIN queue[l] = 1 .. Len(queue[l]) /\ Len(queue[l]) \in Nat
  BY <1>5, LenProperties
<1> DEFINE P == {k \in DOMAIN queue[l] : queue[l][k].task \in S}
<1>7. P \in SUBSET Nat /\ P # {}
  BY <1>4, <1>6 DEF At
<1>8. PICK k \in P : \A j \in P : k <= j
  BY <1>7, LeastNat
<1> DEFINE t == queue[l][k].task
<1>9. t \in S /\ At(t, l) /\ k \in DOMAIN queue[l]
  BY <1>8 DEF At
<1>10. PICK u \in S : BlockedBy(t, u)
  BY <1>9
<1> DEFINE Way(m, i) ==
      /\ queue[m][i].task = t
      /\ \/ \E h \in held : h.task = u /\ h.lock = m /\ Conflict(h.do, queue[m][i].do)
         \/ \E j \in 1 .. i - 1 : queue[m][j].task = u
<1>16. PICK m \in Lock : \E i \in DOMAIN queue[m] : Way(m, i)
  BY <1>10 DEF BlockedBy
<1>11. PICK i \in DOMAIN queue[m] : Way(m, i)
  BY <1>16
<1>12. m = l
  BY <1>2, <1>9, <1>11 DEF At
<1>13. i = k
  BY <1>5, <1>9, <1>11, <1>12 DEF QueueOK
<1>14. CASE \E h \in held : h.task = u /\ h.lock = m
  <2>1. PICK n \in Lock : At(u, n)
    BY <1>1
  <2>2. rest[u] # <<>> /\ Head(rest[u]).lock = n /\ Takes(Head(rest[u])) /\ u \in Task
    BY <1>2, <2>1
  <2>3. l \in Mine(u)
    BY <1>12, <1>14 DEF Mine
  <2>4. Safe(Mine(u), rest[u]) /\ Mine(u) \in SUBSET Lock /\ rest[u] \in Seq(Step)
    BY MineType, <2>2 DEF LockInv, Disciplined, TypeOK
  <2>5. Rank[l] < Rank[n]
    BY <2>2, <2>3, <2>4, SafeTake
  <2>6. Rank[n] <= Rank[l]
    BY <2>1, <1>4
  <2>. QED BY <2>5, <2>6, RankType
<1>15. CASE \E j \in 1 .. i - 1 : queue[m][j].task = u
  <2>1. PICK j \in 1 .. k - 1 : queue[l][j].task = u
    BY <1>12, <1>13, <1>15
  <2>2. j \in P /\ j < k
    BY <2>1, <1>6, <1>9
  <2>. QED BY <2>2, <1>6, <1>8
<1>. QED BY <1>11, <1>14, <1>15

\* SubscriptionBroker, lock order: whatever tasks there are and whichever
\* operations they run, no set of them waits on itself.
THEOREM NeverCircular == Spec => []NoCircularWait
<1>1. Spec => []LockInv
  BY InitLocks, NextLocks, PTL DEF Spec
<1>. QED BY <1>1, OrderedNeverCircular, PTL
=============================================================================
