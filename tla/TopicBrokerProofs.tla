-------------------------- MODULE TopicBrokerProofs --------------------------
(***************************************************************************)
(* Proofs about TopicBroker, for every set of connections, names and       *)
(* topics: type correctness, and on top of it the safety properties.       *)
(* They follow from which steps touch the subscription tables and which    *)
(* the topic table: the index, the filters, the survival of live           *)
(* subscriptions, stale marks and the latest-value guarantee.              *)
(***************************************************************************)
EXTENDS TopicBroker, TLAPS

-----------------------------------------------------------------------------
(* Type correctness *)


\* A record of locals stays one when a field is given a value of its type.
LEMMA CleanLocals ==
  /\ Clean \in Locals
  /\ \A x \in Peer : [Clean EXCEPT !.peer = x] \in Locals
  /\ \A x \in Nat : [Clean EXCEPT !.pub = x] \in Locals
  /\ \A x \in SUBSET SubId : [Clean EXCEPT !.prune = x] \in Locals
  /\ \A x \in SUBSET Topic : [Clean EXCEPT !.affected = x] \in Locals
  /\ \A x \in SUBSET Notice : [Clean EXCEPT !.notices = x] \in Locals
  /\ \A x \in Topic : [Clean EXCEPT !.topic = x] \in Locals
  /\ \A x \in Conn, y \in SubId :
       [Clean EXCEPT !.tx = x, !.id = y] \in Locals
BY DEF Clean, Locals, SomeConn, Filter

LEMMA EditLocals ==
  ASSUME NEW l \in Locals
  PROVE  /\ \A x \in SUBSET Topic : [l EXCEPT !.affected = x] \in Locals
         /\ \A x \in SUBSET Notice : [l EXCEPT !.notices = x] \in Locals
         /\ \A x \in BOOLEAN : [l EXCEPT !.first = x] \in Locals
         /\ \A x \in Nat, y \in SUBSET Notice :
              [l EXCEPT !.pub = x, !.notices = y] \in Locals
         /\ \A x \in SUBSET Topic, y \in SUBSET Notice :
              [l EXCEPT !.affected = x, !.notices = y] \in Locals
BY DEF Locals

\* A longer history leaves a task's locals in order.
LEMMA LocalExtends ==
  ASSUME NEW ps \in Seq(Publication), NEW x \in Publication,
         NEW label, NEW l, LocalOK(ps, label, l)
  PROVE  LocalOK(Append(ps, x), label, l)
BY DEF LocalOK

\* Goto and Return keep pc and loc in order.
LEMMA GotoOK ==
  ASSUME NEW p \in Proc, NEW label \in PC, NEW l \in Locals,
         pc \in [Proc -> PC], loc \in [Proc -> Locals], LocalsOK,
         p \in Conn => LocalOK(pubs, label, l),
         pubs' = pubs, Goto(p, label, l)
  PROVE  pc' \in [Proc -> PC] /\ loc' \in [Proc -> Locals] /\ LocalsOK'
<1>1. pc' \in [Proc -> PC] /\ loc' \in [Proc -> Locals]
  BY DEF Goto
<1>2. ASSUME NEW c \in Conn
      PROVE  LocalOK(pubs', pc'[c], loc'[c])
  <2>1. c \in Proc
    BY DEF Proc
  <2>2. CASE c = p
    <3>1. pc'[c] = label /\ loc'[c] = l
      BY <2>1, <2>2 DEF Goto
    <3>. QED BY <3>1, <2>2
  <2>3. CASE c # p
    <3>1. pc'[c] = pc[c] /\ loc'[c] = loc[c]
      BY <2>1, <2>3 DEF Goto
    <3>. QED BY <3>1 DEF LocalsOK
  <2>. QED BY <2>2, <2>3
<1>. QED BY <1>1, <1>2 DEF LocalsOK

LEMMA ReturnOK ==
  ASSUME NEW p \in Proc, NEW l \in Locals,
         pc \in [Proc -> PC], loc \in [Proc -> Locals], LocalsOK,
         pubs' = pubs, Return(p, l)
  PROVE  pc' \in [Proc -> PC] /\ loc' \in [Proc -> Locals] /\ LocalsOK'
<1>1. CASE l.notices # {}
  <2>1. LocalOK(pubs, "dispatch", l) /\ "dispatch" \in PC
    BY DEF LocalOK, PC
  <2>2. Goto(p, "dispatch", l)
    BY <1>1 DEF Return
  <2>. QED BY <2>1, <2>2, GotoOK
<1>2. CASE l.notices = {} /\ l.peer # None
  <2>1. LocalOK(pubs, "unregister", l) /\ "unregister" \in PC
    BY <1>2 DEF LocalOK, PC, Locals
  <2>2. Goto(p, "unregister", l)
    BY <1>2 DEF Return
  <2>. QED BY <2>1, <2>2, GotoOK
<1>3. CASE l.notices = {} /\ l.peer = None
  <2>1. LocalOK(pubs, "idle", Clean) /\ "idle" \in PC
    BY DEF LocalOK, PC
  <2>2. Goto(p, "idle", Clean)
    BY <1>3 DEF Return
  <2>. QED BY <2>1, <2>2, GotoOK, CleanLocals
<1>. QED BY <1>1, <1>2, <1>3

\* Section: type correctness
-----------------------------------------------------------------------------

\* A step that leaves tasks and history alone leaves the locals in order.
LEMMA SameTasks ==
  ASSUME LocalsOK, pc' = pc, loc' = loc, pubs' = pubs
  PROVE  LocalsOK'
BY DEF LocalsOK, LocalOK, Matches

LEMMA SameTopics ==
  ASSUME SnapshotsOK, topics' = topics, pubs' = pubs
  PROVE  SnapshotsOK'
BY DEF SnapshotsOK

LEMMA SameOffers ==
  ASSUME OutcomesOK, outcome' = outcome, pubs' = pubs
  PROVE  OutcomesOK'
BY DEF OutcomesOK

\* RemoveIds keeps the types of the `inner` tables.
LEMMA RemoveIdsOK ==
  ASSUME NEW ids, Types, OutcomesOK, pubs' = pubs, RemoveIds(ids)
  PROVE  /\ subs' \in [SubId -> SomeConn]
         /\ byPeer' \in [Peer -> SUBSET SubId]
         /\ outcome' \in [SubId -> SUBSET Outcome]
         /\ OutcomesOK'
BY DEF RemoveIds, Types, OutcomesOK, SomeConn

\* Spending a verb keeps the budget's type.
\* Recording one outcome of publication k at each of some subscriptions.
LEMMA RecordOK ==
  ASSUME Types, OutcomesOK, pubs' = pubs, NEW k \in 1 .. Len(pubs),
         NEW ids \in SUBSET SubId,
         NEW h \in [SubId -> {"offered", "withheld", "deleted"}],
         pubs[k].tx \in Native \/ \A id \in ids : h[id] # "withheld",
         outcome' = [id \in SubId |-> IF id \notin ids THEN outcome[id]
                       ELSE outcome[id] \cup {[how |-> h[id], pub |-> k]}]
  PROVE  outcome' \in [SubId -> SUBSET Outcome] /\ OutcomesOK'
<1>1. /\ outcome \in [SubId -> SUBSET Outcome] /\ Len(pubs) \in Nat /\ k \in Nat
  BY DEF Types
<1>2. ASSUME NEW id \in SubId
      PROVE  /\ [how |-> h[id], pub |-> k] \in Outcome
             /\ [how |-> h[id], pub |-> k].how = h[id]
             /\ [how |-> h[id], pub |-> k].pub = k
  BY <1>1 DEF Outcome
<1>3. outcome' \in [SubId -> SUBSET Outcome]
  BY <1>1, <1>2
<1>4. ASSUME NEW id \in SubId, NEW o \in outcome'[id]
      PROVE  o.pub \in 1 .. Len(pubs) /\ (o.how = "withheld" => pubs[o.pub].tx \in Native)
  <2>1. CASE o \in outcome[id]
    BY <2>1 DEF OutcomesOK
  <2>2. CASE id \in ids /\ o = [how |-> h[id], pub |-> k]
    BY <1>2, <2>2
  <2>. QED BY <1>4, <2>1, <2>2
<1>. QED BY <1>3, <1>4 DEF OutcomesOK

\* What a fan-out does: each subscription that is live and matches gets one
\* outcome, and only a native session's publication is withheld.
Reachable(k) == {id \in TopicSubs(pubs[k].topic) : ~Dead(id) /\ Matches(id, pubs[k].ns)}

LEMMA FanOutEffect ==
  ASSUME TypeOK, NEW c \in Conn, FanOut(c)
  PROVE  /\ pc[c] = "fanout" /\ loc[c].pub \in 1 .. Len(pubs)
         /\ UNCHANGED <<connVars, innerVars, topics, pubs, told, left>>
         /\ \E prune \in SUBSET SubId :
              \/ Return(c, Clean)
              \/ Goto(c, "prune", [Clean EXCEPT !.prune = prune])
         /\ \E h \in [SubId -> {"offered", "withheld", "deleted"}] :
              /\ outcome' = [id \in SubId |->
                   IF id \notin Reachable(loc[c].pub) THEN outcome[id]
                   ELSE outcome[id] \cup {[how |-> h[id], pub |-> loc[c].pub]}]
              /\ \A id \in SubId : \/ h[id] = "offered"
                                   \/ /\ h[id] = "withheld"
                                      /\ pubs[loc[c].pub].tx \in Native
<1>. DEFINE k   == loc[c].pub
            to  == TopicSubs(pubs[k].topic)
            due == {id \in to : ~Dead(id) /\ Matches(id, pubs[k].ns)}
<1>1. PICK reached \in SUBSET to, refused \in SUBSET due :
        /\ pubs[k].tx \notin Native => reached = to /\ refused = {}
        /\ outcome' = [id \in SubId |->
             IF id \notin due THEN outcome[id] ELSE outcome[id] \cup
               {[how |-> IF id \in (due \cap reached) \ refused
                         THEN "offered" ELSE "withheld",
                 pub |-> k]}]
        /\ IF {id \in reached : Dead(id)} = {} THEN Return(c, Clean)
           ELSE Goto(c, "prune", [Clean EXCEPT !.prune = {id \in reached : Dead(id)}])
  BY DEF FanOut
<1>2. pc[c] = "fanout" /\ UNCHANGED <<connVars, innerVars, topics, pubs, told, left>>
  BY DEF FanOut
<1>3. k \in 1 .. Len(pubs)
  BY <1>2 DEF TypeOK, LocalsOK, LocalOK
<1>4. {id \in reached : Dead(id)} \in SUBSET SubId
  BY DEF TopicSubs
<1>. DEFINE h == [id \in SubId |->
                    IF id \in due /\ id \notin (due \cap reached) \ refused
                    THEN "withheld" ELSE "offered"]
<1>5. h \in [SubId -> {"offered", "withheld", "deleted"}]
  OBVIOUS
<1>6. ASSUME NEW id \in SubId
      PROVE  h[id] = "offered" \/ (h[id] = "withheld" /\ pubs[k].tx \in Native)
  <2>1. CASE pubs[k].tx \notin Native
    BY <1>1, <2>1
  <2>. QED BY <2>1
<1>7. outcome' = [id \in SubId |-> IF id \notin due THEN outcome[id]
                    ELSE outcome[id] \cup {[how |-> h[id], pub |-> k]}]
  BY <1>1
<1>8. due = Reachable(k)
  BY DEF Reachable
<1>9. \E prune \in SUBSET SubId :
        Return(c, Clean) \/ Goto(c, "prune", [Clean EXCEPT !.prune = prune])
  BY <1>1, <1>4
<1>. HIDE DEF h, due, k
<1>10. \E g \in [SubId -> {"offered", "withheld", "deleted"}] :
         /\ outcome' = [id \in SubId |->
              IF id \notin Reachable(k) THEN outcome[id]
              ELSE outcome[id] \cup {[how |-> g[id], pub |-> k]}]
         /\ \A id \in SubId : g[id] = "offered" \/ (g[id] = "withheld" /\ pubs[k].tx \in Native)
  BY <1>5, <1>6, <1>7, <1>8
<1>. USE DEF k
<1>. QED BY <1>2, <1>3, <1>9, <1>10

LEMMA SpendOK ==
  ASSUME NEW c \in Conn, NEW v \in Verb, Types, Spend(c, v)
  PROVE  left' \in [Conn -> [Verb -> Nat]]
BY DEF Types, Spend

LEMMA PeerIdType ==
  ASSUME NEW c \in Conn, Types
  PROVE  PeerId(c) \in Peer
BY DEF Types, PeerId, Peer

LEMMA TypeInit == Init => TypeOK
<1>. SUFFICES ASSUME Init PROVE TypeOK
  OBVIOUS
<1>1. /\ link \in [Conn -> {"new", "up", "down"}] /\ open \in [Conn -> BOOLEAN]
      /\ service \in [Conn -> Service \cup {None}]
      /\ registry \in [Service -> SomeConn] /\ subs \in [SubId -> SomeConn]
      /\ byPeer \in [Peer -> SUBSET SubId]
      /\ topics \in [Topic -> TopicState \cup {None}]
  BY DEF Init, SomeConn
<1>4. pc \in [Proc -> PC] /\ loc \in [Proc -> Locals]
  BY CleanLocals DEF Init, PC
<1>5. pubs \in Seq(Publication) /\ outcome \in [SubId -> SUBSET Outcome]
  BY DEF Init
<1>6. /\ told \in [Conn -> [Topic -> {"none", "active", "idle"}]]
      /\ left \in [Conn -> [Verb -> Nat]]
  BY BrokerAssumption DEF Init
<1>2. LocalsOK
  BY DEF Init, LocalsOK, LocalOK, Proc
<1>3. SnapshotsOK /\ OutcomesOK
  BY DEF Init, SnapshotsOK, OutcomesOK
<1>. QED BY <1>1, <1>2, <1>3, <1>4, <1>5, <1>6 DEF TypeOK, Types

LEMMA TypeStep == TypeOK /\ [Next]_vars => TypeOK'
<1>. SUFFICES ASSUME TypeOK, [Next]_vars PROVE TypeOK'
  OBVIOUS
<1>. USE DEF TypeOK
<1>0. Conn \subseteq Proc /\ Janitor \in Proc
  BY DEF Proc
<1>1. ASSUME NEW c \in Conn, Connect(c)
      PROVE  TypeOK'
  BY <1>1, SameTasks, SameTopics, SameOffers
     DEF Connect, Types, innerVars, histVars
<1>2. ASSUME NEW c \in Conn, WriterStops(c)
      PROVE  TypeOK'
  BY <1>2, SameTasks, SameTopics, SameOffers, SpendOK, "fail" \in Verb
     DEF WriterStops, Types, innerVars, histVars, Verb
<1>3. ASSUME NEW c \in Conn, NEW s \in Service, Register(c, s)
      PROVE  TypeOK'
  BY <1>3, SameTasks, SameTopics, SameOffers, SpendOK, "register" \in Verb
     DEF Register, Issue, Types, SomeConn, innerVars, histVars, Verb
<1>4. ASSUME NEW s \in Service, PruneRoute(s)
      PROVE  TypeOK'
  BY <1>4, SameTasks, SameTopics, SameOffers
     DEF PruneRoute, Types, SomeConn, innerVars, histVars
<1>5. ASSUME NEW c \in Conn, Deregister(c)
      PROVE  TypeOK'
  <2>1. service[c] \in Peer /\ service[c] \in Service
    BY <1>5 DEF Deregister, Types, Peer
  <2>2. LocalOK(pubs, "rmSubs", [Clean EXCEPT !.peer = service[c]])
    BY <2>1 DEF LocalOK, Clean
  <2>3. /\ pc' \in [Proc -> PC] /\ loc' \in [Proc -> Locals] /\ LocalsOK'
    BY <1>5, <1>0, <2>1, <2>2, GotoOK, CleanLocals, "rmSubs" \in PC
       DEF Deregister, Types, histVars, PC
  <2>. QED BY <1>5, <2>3, SameTopics, SameOffers, SpendOK, "deregister" \in Verb
           DEF Deregister, Issue, Types, innerVars, histVars, Verb
<1>6. ASSUME NEW c \in Conn, Disconnect(c)
      PROVE  TypeOK'
  <2>1. PeerId(c) \in Peer
    BY PeerIdType
  <2>2. LocalOK(pubs, "rmSubs", [Clean EXCEPT !.peer = PeerId(c)])
    BY <2>1 DEF LocalOK, Clean
  <2>3. /\ pc' \in [Proc -> PC] /\ loc' \in [Proc -> Locals] /\ LocalsOK'
    BY <1>6, <1>0, <2>1, <2>2, GotoOK, CleanLocals, "rmSubs" \in PC
       DEF Disconnect, Types, histVars, PC
  <2>. QED BY <1>6, <2>3, SameTopics, SameOffers, SpendOK, "disconnect" \in Verb
           DEF Disconnect, Issue, Types, innerVars, histVars, Verb
<1>7. ASSUME NEW c \in Conn, Unregister(c)
      PROVE  TypeOK'
  <2>1. LocalOK(pubs, "done", Clean) /\ LocalOK(pubs, "idle", Clean)
    BY DEF LocalOK
  <2>2. /\ pc' \in [Proc -> PC] /\ loc' \in [Proc -> Locals] /\ LocalsOK'
    BY <1>7, <1>0, <2>1, GotoOK, CleanLocals, "done" \in PC, "idle" \in PC
       DEF Unregister, Types, histVars, PC
  <2>. QED BY <1>7, <2>2, SameTopics, SameOffers
           DEF Unregister, Types, SomeConn, innerVars, histVars
<1>8. ASSUME NEW p \in Proc, Dispatch(p)
      PROVE  TypeOK'
  <2>1. [loc[p] EXCEPT !.notices = {}] \in Locals
    BY EditLocals DEF Types
  <2>2. /\ pc' \in [Proc -> PC] /\ loc' \in [Proc -> Locals] /\ LocalsOK'
    BY <1>8, <2>1, ReturnOK DEF Dispatch, Types
  <2>3. told' \in [Conn -> [Topic -> {"none", "active", "idle"}]]
    <3>1. ASSUME NEW c \in Conn, NEW t \in Topic,
                 NEW mine \in SUBSET loc[p].notices, mine # {}
          PROVE  (CHOOSE n \in mine : TRUE).kind \in {"active", "idle"}
      <4>1. loc[p].notices \in SUBSET Notice
        BY DEF Types, Locals
      <4>2. (CHOOSE n \in mine : TRUE) \in Notice
        BY <3>1, <4>1
      <4>. QED BY <4>2 DEF Notice
    <3>. QED BY <1>8, <3>1 DEF Dispatch, Types
  <2>. QED BY <1>8, <2>2, <2>3, SameTopics, SameOffers
           DEF Dispatch, Types, connVars, innerVars
<1>9. ASSUME NEW c \in Conn, NEW t \in Topic, NEW ns \in Filter, NEW r \in BOOLEAN, Publish(c, t, ns, r)
      PROVE  TypeOK'
  <2>. DEFINE old   == topics[t]
              seq   == (IF old = None THEN 0 ELSE old.seq) + 1
              k     == Len(pubs) + 1
              snap  == IF r THEN k ELSE IF old = None THEN 0 ELSE old.snap
              stale == IF r \/ snap = 0 THEN "no"
                       ELSE IF pubs[snap].by = PeerId(c) THEN "no" ELSE old.stale
              x     == [topic |-> t, ns |-> ns, seq |-> seq,
                        by |-> PeerId(c), tx |-> c]
              st    == [seq |-> seq, snap |-> snap, stale |-> stale,
                        lastPub |-> PeerId(c), lastTx |-> c]
  <2>1. /\ topics' = [topics EXCEPT ![t] = st]
        /\ pubs' = Append(pubs, x)
        /\ Goto(c, "fanout", [Clean EXCEPT !.pub = k])
        /\ UNCHANGED <<connVars, innerVars, outcome, told>>
    BY <1>9 DEF Publish
  <2>2. old = None \/ old \in TopicState
    BY DEF Types
  <2>3. PeerId(c) \in Peer /\ pubs \in Seq(Publication) /\ k \in Nat \ {0}
    <3>1. PeerId(c) \in Peer
      BY PeerIdType
    <3>2. pubs \in Seq(Publication)
      BY DEF Types
    <3>. QED BY <3>1, <3>2
  <2>4. seq \in Nat /\ snap \in Nat /\ stale \in {"no", "stale", "expired"}
    BY <2>2, <2>3 DEF TopicState
  <2>5. st \in TopicState /\ x \in Publication
    BY <2>3, <2>4 DEF TopicState, Publication, SomeConn
  <2>6. pubs' \in Seq(Publication) /\ Len(pubs') = k
    BY <2>1, <2>3, <2>5
  <2>7. \A i \in 1 .. Len(pubs) : pubs'[i] = pubs[i]
    BY <2>1, <2>3, <2>5
  <2>8. pubs'[k] = x
    BY <2>1, <2>3, <2>5
  <2>9. /\ pc' \in [Proc -> PC] /\ loc' \in [Proc -> Locals] /\ LocalsOK'
    <3>1. pc' \in [Proc -> PC] /\ loc' \in [Proc -> Locals]
      BY <1>0, <2>1, <2>3, CleanLocals DEF Goto, Types, PC
    <3>2. ASSUME NEW d \in Conn PROVE LocalOK(pubs', pc'[d], loc'[d])
      <4>1. CASE d = c
        <5>1. pc'[d] = "fanout" /\ loc'[d] = [Clean EXCEPT !.pub = k]
          BY <1>0, <2>1, <4>1 DEF Goto, Types
        <5>2. loc'[d].pub = k
          BY <5>1 DEF Clean
        <5>. QED BY <5>1, <5>2, <2>3, <2>6 DEF LocalOK
      <4>2. CASE d # c
        <5>1. pc'[d] = pc[d] /\ loc'[d] = loc[d]
          BY <1>0, <2>1, <4>2 DEF Goto, Types
        <5>2. LocalOK(pubs, pc[d], loc[d])
          BY DEF LocalsOK
        <5>. QED BY <5>1, <5>2, <2>1, <2>3, <2>5, LocalExtends
      <4>. QED BY <4>1, <4>2
    <3>. QED BY <3>1, <3>2 DEF LocalsOK
  <2>10. topics' \in [Topic -> TopicState \cup {None}]
    BY <2>1, <2>5 DEF Types
  <2>11. SnapshotsOK'
    <3>. SUFFICES ASSUME NEW u \in Topic, topics'[u] # None
                  PROVE  /\ topics'[u].snap \in 0 .. Len(pubs')
                         /\ topics'[u].snap # 0 => pubs'[topics'[u].snap].topic = u
                         /\ topics'[u].snap = 0 => topics'[u].stale = "no"
      BY DEF SnapshotsOK
    <3>1. CASE u # t
      BY <2>1, <2>3, <2>6, <2>7, <3>1 DEF SnapshotsOK, Types
    <3>2. CASE u = t
      <4>1. topics'[u] = st
        BY <2>1, <3>2 DEF Types
      <4>2. CASE r
        BY <4>1, <4>2, <2>3, <2>6, <2>8, <3>2
      <4>3. CASE ~r /\ old = None
        BY <4>1, <4>3, <2>6, <2>3
      <4>4. CASE ~r /\ old # None
        <5>1. old.snap \in 0 .. Len(pubs) /\ (old.snap # 0 => pubs[old.snap].topic = t)
          BY <4>4 DEF SnapshotsOK
        <5>. QED BY <4>1, <4>4, <5>1, <2>3, <2>6, <2>7, <3>2
      <4>. QED BY <4>2, <4>3, <4>4
    <3>. QED BY <3>1, <3>2
  <2>12. OutcomesOK'
    BY <2>1, <2>3, <2>6 DEF OutcomesOK
  <2>13. left' \in [Conn -> [Verb -> Nat]]
    <3>1. (IF r THEN "publish" ELSE "volatile") \in Verb
      BY DEF Verb
    <3>. QED BY <1>9, <3>1, SpendOK DEF Publish, Issue
  <2>. QED BY <2>1, <2>6, <2>9, <2>10, <2>11, <2>12, <2>13
           DEF Types, connVars, innerVars
<1>10. ASSUME NEW c \in Conn, FanOut(c)
      PROVE  TypeOK'
  <2>1. /\ loc[c].pub \in 1 .. Len(pubs) /\ Reachable(loc[c].pub) \in SUBSET SubId
        /\ UNCHANGED <<connVars, innerVars, topics, pubs, told, left>>
    BY <1>10, FanOutEffect DEF Reachable, TopicSubs
  <2>2. outcome' \in [SubId -> SUBSET Outcome] /\ OutcomesOK'
    <3>1. PICK h \in [SubId -> {"offered", "withheld", "deleted"}] :
            /\ outcome' = [id \in SubId |->
                 IF id \notin Reachable(loc[c].pub) THEN outcome[id]
                 ELSE outcome[id] \cup {[how |-> h[id], pub |-> loc[c].pub]}]
            /\ \A id \in SubId : \/ h[id] = "offered"
                                 \/ /\ h[id] = "withheld"
                                    /\ pubs[loc[c].pub].tx \in Native
      BY <1>10, FanOutEffect
    <3>. DEFINE ids == Reachable(loc[c].pub)
                k   == loc[c].pub
                g   == [id \in SubId |-> h[id]]
    <3>2. /\ ids \in SUBSET SubId /\ k \in 1 .. Len(pubs) /\ pubs' = pubs
          /\ pubs[k].tx \in Native \/ \A id \in ids : g[id] # "withheld"
      BY <2>1, <3>1
    <3>3. outcome' = [id \in SubId |-> IF id \notin ids THEN outcome[id]
                        ELSE outcome[id] \cup {[how |-> g[id], pub |-> k]}]
      BY <3>1
    <3>4. g \in [SubId -> {"offered", "withheld", "deleted"}]
      OBVIOUS
    <3>. HIDE DEF ids, k, g
    <3>. QED BY <3>2, <3>3, <3>4, RecordOK
  <2>3. PICK prune \in SUBSET SubId :
          Return(c, Clean) \/ Goto(c, "prune", [Clean EXCEPT !.prune = prune])
    BY <1>10, FanOutEffect
  <2>4. /\ [Clean EXCEPT !.prune = prune] \in Locals /\ Clean \in Locals
        /\ LocalOK(pubs, "prune", [Clean EXCEPT !.prune = prune]) /\ "prune" \in PC
    BY CleanLocals DEF LocalOK, PC
  <2>5. /\ pc' \in [Proc -> PC] /\ loc' \in [Proc -> Locals] /\ LocalsOK'
    BY <1>0, <2>1, <2>3, <2>4, GotoOK, ReturnOK DEF Types
  <2>. QED BY <2>1, <2>2, <2>5, SameTopics DEF Types, connVars, innerVars
<1>11. ASSUME NEW p \in Proc, Prune(p)
      PROVE  TypeOK'
  <2>. DEFINE ts == PrunedTopics(loc[p].prune)
  <2>1. RemoveIds(StillDead(loc[p].prune)) /\ pubs' = pubs
    BY <1>11 DEF Prune, PruneDead
  <2>2. [Clean EXCEPT !.affected = ts] \in Locals /\ Clean \in Locals
    BY CleanLocals DEF PrunedTopics
  <2>3. /\ LocalOK(pubs, "idleNotes", [Clean EXCEPT !.affected = ts])
        /\ LocalOK(pubs, "count", Clean)
        /\ "idleNotes" \in PC /\ "count" \in PC
    BY DEF LocalOK, PC
  <2>4. /\ pc' \in [Proc -> PC] /\ loc' \in [Proc -> Locals] /\ LocalsOK'
    BY <1>11, <2>2, <2>3, GotoOK, ReturnOK DEF Prune, Types
  <2>. QED BY <1>11, <2>1, <2>4, RemoveIdsOK, SameTopics DEF Prune, Types, connVars
<1>12. ASSUME NEW p \in Proc, IdleNotes(p)
      PROVE  TypeOK'
  <2>. DEFINE l == [Clean EXCEPT !.notices = IdleNotices(loc[p].affected)]
  <2>1. l \in Locals
    BY CleanLocals DEF IdleNotices
  <2>2. LocalOK(pubs, "count", l) /\ "count" \in PC
    BY DEF LocalOK, PC
  <2>3. /\ pc' \in [Proc -> PC] /\ loc' \in [Proc -> Locals] /\ LocalsOK'
    BY <1>12, <2>1, <2>2, GotoOK, ReturnOK DEF IdleNotes, Types, histVars
  <2>. QED BY <1>12, <2>3, SameTopics, SameOffers
           DEF IdleNotes, Types, connVars, innerVars, histVars
<1>13. ASSUME NEW c \in Conn, NEW t \in Topic, Subscribe(c, t)
      PROVE  TypeOK'
  <2>. DEFINE id == [peer |-> PeerId(c), on |-> t, filter |-> None]
  <2>1. c \in Conn /\ id \in SubId /\ id.on \in Topic
    BY <1>13, PeerIdType DEF SubId, Filter
  <2>2. [Clean EXCEPT !.tx = c, !.id = id] \in Locals
    BY <2>1, CleanLocals
  <2>3. LocalOK(pubs, "lookup", [Clean EXCEPT !.tx = c, !.id = id])
    BY <2>1 DEF LocalOK, Clean
  <2>4. /\ pc' \in [Proc -> PC] /\ loc' \in [Proc -> Locals] /\ LocalsOK'
    BY <1>13, <1>0, <2>2, <2>3, GotoOK, "lookup" \in PC
       DEF Subscribe, Types, histVars, PC
  <2>. QED BY <1>13, <2>4, SameTopics, SameOffers, SpendOK, "subscribe" \in Verb
           DEF Subscribe, Issue, Types, connVars, innerVars, histVars, Verb
<1>14. ASSUME NEW c \in Conn, NEW t \in Topic, NEW s \in Service, NEW ns \in Namespace,
             SubscribeGrant(c, t, s, ns)
      PROVE  TypeOK'
  <2>. DEFINE id == [peer |-> s, on |-> t, filter |-> ns]
  <2>1. registry[s] \in Conn /\ id \in SubId /\ id.on \in Topic
    BY <1>14, TRUE DEF SubscribeGrant, Types, SomeConn, Live, SubId, Filter, Peer
  <2>2. [Clean EXCEPT !.tx = registry[s], !.id = id] \in Locals
    BY <2>1, CleanLocals
  <2>3. LocalOK(pubs, "lookup", [Clean EXCEPT !.tx = registry[s], !.id = id])
    BY <2>1 DEF LocalOK, Clean
  <2>4. /\ pc' \in [Proc -> PC] /\ loc' \in [Proc -> Locals] /\ LocalsOK'
    BY <1>14, <1>0, <2>2, <2>3, GotoOK, "lookup" \in PC
       DEF SubscribeGrant, Types, histVars, PC
  <2>. QED BY <1>14, <2>4, SameTopics, SameOffers, SpendOK, "grant" \in Verb
           DEF SubscribeGrant, Issue, Types, connVars, innerVars, histVars, Verb
<1>15. ASSUME NEW c \in Conn, Lookup(c)
      PROVE  TypeOK'
  <2>1. loc[c] \in Locals /\ LocalOK(pubs, "insert", loc[c]) /\ "insert" \in PC
    BY <1>15, <1>0 DEF Lookup, Types, LocalsOK, LocalOK, PC
  <2>2. /\ pc' \in [Proc -> PC] /\ loc' \in [Proc -> Locals] /\ LocalsOK'
    BY <1>15, <1>0, <2>1, CleanLocals, GotoOK, ReturnOK DEF Lookup, Types, histVars
  <2>. QED BY <1>15, <2>2, SameTopics, SameOffers
           DEF Lookup, Types, connVars, innerVars, histVars
<1>16. ASSUME NEW c \in Conn, Insert(c)
      PROVE  TypeOK'
  <2>. DEFINE id == loc[c].id
              l  == [loc[c] EXCEPT !.first = TopicSubs(id.on) = {}]
  <2>1. id \in SubId /\ id.on \in Topic /\ loc[c].tx \in Conn /\ loc[c] \in Locals
    BY <1>16, <1>0 DEF Insert, LocalsOK, LocalOK, Types
  <2>2. id.peer \in Peer
    BY <2>1 DEF SubId
  <2>3. /\ subs' \in [SubId -> SomeConn] /\ byPeer' \in [Peer -> SUBSET SubId]
        /\ outcome' \in [SubId -> SUBSET Outcome] /\ OutcomesOK'
    BY <1>16, <2>1, <2>2 DEF Insert, Types, SomeConn, OutcomesOK
  <2>4. l \in Locals
    BY <2>1, EditLocals
  <2>5. LocalOK(pubs, "replay", l) /\ "replay" \in PC
    BY <2>1 DEF LocalOK, PC, Locals
  <2>6. /\ pc' \in [Proc -> PC] /\ loc' \in [Proc -> Locals] /\ LocalsOK'
    BY <1>16, <1>0, <2>4, <2>5, GotoOK DEF Insert, Types
  <2>. QED BY <1>16, <2>3, <2>6, SameTopics DEF Insert, Types, connVars
<1>17. ASSUME NEW c \in Conn, Replay(c)
      PROVE  TypeOK'
  <2>. DEFINE id == loc[c].id
              st == topics[id.on]
              hit == st # None /\ st.snap # 0 /\ Matches(id, pubs[st.snap].ns)
              active == IF st # None /\ loc[c].first /\ Live(st.lastTx)
                        THEN {[kind |-> "active", topic |-> id.on, to |-> st.lastTx]}
                        ELSE {}
              l == [loc[c] EXCEPT !.pub = st.snap, !.notices = active]
  <2>1. id \in SubId /\ id.on \in Topic /\ loc[c].tx \in Conn /\ loc[c] \in Locals
    BY <1>17, <1>0 DEF Replay, LocalsOK, LocalOK, Types
  <2>2. st = None \/ st \in TopicState
    BY <2>1 DEF Types
  <2>3. active \in SUBSET Notice
    BY <2>1, <2>2 DEF Notice, TopicState, Live, SomeConn
  <2>4. CASE hit
    <3>1. st.snap \in 1 .. Len(pubs) /\ pubs[st.snap].topic = id.on /\ st.snap \in Nat
      <4>1. Len(pubs) \in Nat
        BY DEF Types
      <4>2. st.snap \in 0 .. Len(pubs) /\ pubs[st.snap].topic = id.on /\ st.snap # 0
        BY <2>1, <2>4 DEF SnapshotsOK
      <4>. QED BY <4>1, <4>2
    <3>2. l \in Locals
      BY <2>1, <2>3, <3>1, EditLocals
    <3>3. l.id = id /\ l.tx = loc[c].tx /\ l.pub = st.snap
      BY <2>1 DEF Locals
    <3>4. LocalOK(pubs, "send", l) /\ "send" \in PC
      BY <2>1, <2>4, <3>1, <3>3 DEF LocalOK, PC
    <3>5. Goto(c, "send", l)
      BY <1>17, <2>4 DEF Replay
    <3>. QED BY <1>17, <1>0, <3>2, <3>4, <3>5, GotoOK, SameTopics, SameOffers
             DEF Replay, Types, connVars, innerVars, histVars
  <2>5. CASE ~hit
    <3>1. [Clean EXCEPT !.notices = active] \in Locals
      BY <2>3, CleanLocals
    <3>2. Return(c, [Clean EXCEPT !.notices = active])
      BY <1>17, <2>5 DEF Replay
    <3>. QED BY <1>17, <1>0, <3>1, <3>2, ReturnOK, SameTopics, SameOffers
             DEF Replay, Types, connVars, innerVars, histVars
  <2>. QED BY <2>4, <2>5
<1>18. ASSUME NEW c \in Conn, Send(c)
      PROVE  TypeOK'
  <2>1. /\ loc[c].id \in SubId /\ loc[c].pub \in 1 .. Len(pubs)
        /\ loc[c] \in Locals /\ loc[c].notices \in SUBSET Notice
        /\ LocalOK(pubs, "selfPrune", loc[c]) /\ "selfPrune" \in PC
    BY <1>18, <1>0 DEF Send, LocalsOK, LocalOK, Types, Locals, PC
  <2>2. [Clean EXCEPT !.notices = loc[c].notices] \in Locals
    BY <2>1, CleanLocals
  <2>3. outcome' \in [SubId -> SUBSET Outcome] /\ OutcomesOK'
    <3>1. outcome' = outcome \/ outcome' =
            [outcome EXCEPT ![loc[c].id] = outcome[loc[c].id]
                              \cup {[how |-> "offered", pub |-> loc[c].pub]}]
      BY <1>18, <2>1 DEF Send, Types
    <3>2. pubs' = pubs /\ outcome \in [SubId -> SUBSET Outcome] /\ Len(pubs) \in Nat
      BY <1>18 DEF Send, Types
    <3>3. loc[c].pub \in Nat
      BY <2>1, <3>2
    <3>4. CASE outcome' = outcome
      BY <3>2, <3>4 DEF OutcomesOK
    <3>5. CASE outcome' = [outcome EXCEPT ![loc[c].id] = outcome[loc[c].id]
                              \cup {[how |-> "offered", pub |-> loc[c].pub]}]
      <4>. DEFINE h == [id \in SubId |-> "offered"]
                  ids == {loc[c].id}
      <4>1. outcome' = [id \in SubId |-> IF id \notin ids THEN outcome[id]
                          ELSE outcome[id] \cup {[how |-> h[id], pub |-> loc[c].pub]}]
        BY <2>1, <3>2, <3>5
      <4>2. /\ h \in [SubId -> {"offered", "withheld", "deleted"}]
            /\ \A id \in ids : h[id] # "withheld"
            /\ ids \in SUBSET SubId
        BY <2>1
      <4>. HIDE DEF h, ids
      <4>. QED BY <2>1, <3>2, <4>1, <4>2, RecordOK
    <3>. QED BY <3>1, <3>4, <3>5
  <2>4. /\ pc' \in [Proc -> PC] /\ loc' \in [Proc -> Locals] /\ LocalsOK'
    BY <1>18, <1>0, <2>1, <2>2, GotoOK, ReturnOK DEF Send, Types
  <2>. QED BY <1>18, <2>3, <2>4, SameTopics DEF Send, Types, connVars, innerVars
<1>19. ASSUME NEW c \in Conn, SelfPrune(c)
      PROVE  TypeOK'
  <2>1. RemoveIds(StillDead({loc[c].id})) /\ pubs' = pubs
    BY <1>19 DEF SelfPrune, PruneDead
  <2>2. loc[c] \in Locals /\ LocalOK(pubs, "recheck", loc[c]) /\ "recheck" \in PC
    BY <1>19, <1>0 DEF SelfPrune, LocalsOK, LocalOK, Types, PC
  <2>3. /\ pc' \in [Proc -> PC] /\ loc' \in [Proc -> Locals] /\ LocalsOK'
    BY <1>19, <1>0, <2>2, GotoOK DEF SelfPrune, Types
  <2>. QED BY <1>19, <2>1, <2>3, RemoveIdsOK, SameTopics DEF SelfPrune, Types, connVars
<1>20. ASSUME NEW c \in Conn, Recheck(c)
      PROVE  TypeOK'
  <2>. DEFINE l == [Clean EXCEPT !.notices =
                      IF Live(subs[loc[c].id]) THEN loc[c].notices ELSE {}]
  <2>1. l \in Locals
    <3>1. loc[c].notices \in SUBSET Notice
      BY <1>0 DEF Types, Locals
    <3>. QED BY <3>1, CleanLocals
  <2>2. /\ pc' \in [Proc -> PC] /\ loc' \in [Proc -> Locals] /\ LocalsOK'
    BY <1>20, <1>0, <2>1, ReturnOK DEF Recheck, Types, histVars
  <2>. QED BY <1>20, <2>2, SameTopics, SameOffers
           DEF Recheck, Types, connVars, innerVars, histVars
<1>21. ASSUME NEW c \in Conn, NEW t \in Topic, Unsubscribe(c, t)
      PROVE  TypeOK'
  <2>1. PICK ids : RemoveIds(ids)
    BY <1>21 DEF Unsubscribe
  <2>2. /\ [Clean EXCEPT !.topic = t] \in Locals /\ Clean \in Locals
        /\ LocalOK(pubs, "unsubIdle", [Clean EXCEPT !.topic = t])
        /\ LocalOK(pubs, "idle", Clean) /\ "unsubIdle" \in PC /\ "idle" \in PC
    BY CleanLocals DEF LocalOK, Clean, PC
  <2>3. /\ pc' \in [Proc -> PC] /\ loc' \in [Proc -> Locals] /\ LocalsOK'
    BY <1>21, <1>0, <2>2, GotoOK DEF Unsubscribe, Types
  <2>. QED BY <1>21, <2>1, <2>3, RemoveIdsOK, SameTopics, SpendOK, "unsubscribe" \in Verb
           DEF Unsubscribe, Issue, Types, connVars, Verb
<1>22. ASSUME NEW c \in Conn, UnsubIdle(c)
      PROVE  TypeOK'
  <2>. DEFINE t == loc[c].topic
              st == topics[t]
              idle == IF st # None /\ Live(st.lastTx)
                      THEN {[kind |-> "idle", topic |-> t, to |-> st.lastTx]}
                      ELSE {}
  <2>1. t \in Topic
    BY <1>22 DEF UnsubIdle, LocalsOK, LocalOK
  <2>2. st = None \/ st \in TopicState
    BY <2>1 DEF Types
  <2>3. idle \in SUBSET Notice
    BY <2>1, <2>2 DEF Notice, TopicState, Live, SomeConn
  <2>4. [Clean EXCEPT !.notices = idle] \in Locals
    BY <2>3, CleanLocals
  <2>5. /\ pc' \in [Proc -> PC] /\ loc' \in [Proc -> Locals] /\ LocalsOK'
    BY <1>22, <1>0, <2>4, ReturnOK DEF UnsubIdle, Types, histVars
  <2>6. topics' \in [Topic -> TopicState \cup {None}] /\ SnapshotsOK'
    BY <1>22, <2>1 DEF UnsubIdle, Types, SnapshotsOK, histVars
  <2>. QED BY <1>22, <2>5, <2>6, SameOffers
           DEF UnsubIdle, Types, connVars, innerVars, histVars
<1>23. ASSUME NEW c \in Conn, NEW t \in Topic, NEW n \in BOOLEAN, Clear(c, t, n)
      PROVE  TypeOK'
  <2>0. topics[t].snap \in 1 .. Len(pubs) /\ topics[t].snap \in Nat
    <3>1. Len(pubs) \in Nat /\ topics[t].snap \in 0 .. Len(pubs) /\ topics[t].snap # 0
      BY <1>23 DEF Clear, Types, SnapshotsOK
    <3>. QED BY <3>1
  <2>1. /\ [Clean EXCEPT !.pub = topics[t].snap] \in Locals /\ Clean \in Locals
        /\ LocalOK(pubs, "clearFan", [Clean EXCEPT !.pub = topics[t].snap])
        /\ LocalOK(pubs, "idle", Clean) /\ "clearFan" \in PC /\ "idle" \in PC
    BY <2>0, CleanLocals DEF LocalOK, Clean, PC
  <2>2. /\ pc' \in [Proc -> PC] /\ loc' \in [Proc -> Locals] /\ LocalsOK'
    BY <1>23, <1>0, <2>1, GotoOK DEF Clear, Types, histVars
  <2>3. topics[t] \in TopicState
    BY <1>23 DEF Clear, Types
  <2>4. topics' = [topics EXCEPT ![t] =
                     [topics[t] EXCEPT !.snap = 0, !.stale = "no"]]
    BY <1>23 DEF Clear
  <2>5. /\ [topics[t] EXCEPT !.snap = 0, !.stale = "no"] \in TopicState
        /\ [topics[t] EXCEPT !.snap = 0, !.stale = "no"].snap = 0
        /\ [topics[t] EXCEPT !.snap = 0, !.stale = "no"].stale = "no"
    BY <2>3 DEF TopicState
  <2>6. topics' \in [Topic -> TopicState \cup {None}] /\ SnapshotsOK'
    BY <1>23, <2>4, <2>5 DEF Clear, Types, SnapshotsOK, histVars
  <2>. QED BY <1>23, <2>2, <2>6, SameOffers, SpendOK, "clear" \in Verb
           DEF Clear, Issue, Types, connVars, innerVars, histVars, Verb
<1>24. ASSUME NEW c \in Conn, ClearFan(c)
      PROVE  TypeOK'
  <2>. DEFINE k    == loc[c].pub
              to   == TopicSubs(pubs[k].topic)
              dead == {id \in to : Dead(id)}
              ids  == {id \in to : id \notin dead /\ Matches(id, pubs[k].ns)}
              h    == [id \in SubId |-> "deleted"]
  <2>1. /\ [Clean EXCEPT !.prune = dead] \in Locals /\ Clean \in Locals
        /\ LocalOK(pubs, "prune", [Clean EXCEPT !.prune = dead]) /\ "prune" \in PC
    BY CleanLocals DEF TopicSubs, LocalOK, PC
  <2>2. /\ pc' \in [Proc -> PC] /\ loc' \in [Proc -> Locals] /\ LocalsOK'
    BY <1>24, <1>0, <2>1, GotoOK, ReturnOK DEF ClearFan, Types
  <2>3. k \in 1 .. Len(pubs) /\ pubs' = pubs /\ ids \in SUBSET SubId
    BY <1>24 DEF ClearFan, LocalsOK, LocalOK, TopicSubs
  <2>4. outcome' = [id \in SubId |-> IF id \notin ids THEN outcome[id]
                      ELSE outcome[id] \cup {[how |-> h[id], pub |-> k]}]
    BY <1>24 DEF ClearFan
  <2>5. /\ h \in [SubId -> {"offered", "withheld", "deleted"}]
        /\ \A id \in SubId : h[id] # "withheld"
    OBVIOUS
  <2>6. outcome' \in [SubId -> SUBSET Outcome] /\ OutcomesOK'
    <3>. HIDE DEF h, ids, k
    <3>. QED BY <2>3, <2>4, <2>5, RecordOK
  <2>. QED BY <1>24, <2>2, <2>6, SameTopics
           DEF ClearFan, Types, connVars, innerVars
<1>25. ASSUME NEW c \in Conn, NEW u \in UiSource, UiSubscribe(c, u)
      PROVE  TypeOK'
  <2>1. UiId(c, u) \in SubId /\ PeerId(c) \in Peer
    BY PeerIdType DEF UiId, SubId, Filter
  <2>2. subs' \in [SubId -> SomeConn] /\ byPeer' \in [Peer -> SUBSET SubId]
    BY <1>25, <2>1 DEF UiSubscribe, Types, SomeConn
  <2>. QED BY <1>25, <2>2, SameTasks, SameTopics, SameOffers, SpendOK, "ui" \in Verb
           DEF UiSubscribe, Issue, Types, connVars, histVars, Verb
<1>26. ASSUME NEW c \in Conn, NEW u \in UiSource, UiUnsubscribe(c, u)
      PROVE  TypeOK'
  BY <1>26, RemoveIdsOK, SameTasks, SameTopics, SpendOK, "ui" \in Verb
     DEF UiUnsubscribe, Issue, Types, connVars, Verb
<1>27. ASSUME NEW c \in Conn, RmSubs(c)
      PROVE  TypeOK'
  <2>. DEFINE ours == {id \in byPeer[loc[c].peer] : subs[id] = c}
              l == [loc[c] EXCEPT !.affected = {t \in Topic : \E id \in ours : id.on = t}]
  <2>1. RemoveIds(ours)
    BY <1>27 DEF RmSubs
  <2>2. loc[c] \in Locals /\ loc[c].peer \in Peer
    BY <1>27, <1>0 DEF RmSubs, LocalsOK, LocalOK, Types
  <2>3. l \in Locals /\ l.peer = loc[c].peer
    BY <2>2, EditLocals DEF Locals
  <2>4. LocalOK(pubs, "rmTopics", l) /\ "rmTopics" \in PC
    BY <2>2, <2>3 DEF LocalOK, PC
  <2>5. /\ pc' \in [Proc -> PC] /\ loc' \in [Proc -> Locals] /\ LocalsOK'
    BY <1>27, <1>0, <2>3, <2>4, GotoOK DEF RmSubs, Types
  <2>. QED BY <1>27, <2>1, <2>5, RemoveIdsOK, SameTopics DEF RmSubs, Types, connVars
<1>28. ASSUME NEW c \in Conn, RmTopics(c)
      PROVE  TypeOK'
  <2>1. loc[c] \in Locals /\ LocalOK(pubs, "rmIdle", loc[c]) /\ "rmIdle" \in PC
    BY <1>28, <1>0 DEF RmTopics, LocalsOK, LocalOK, Types, PC
  <2>2. /\ pc' \in [Proc -> PC] /\ loc' \in [Proc -> Locals] /\ LocalsOK'
    BY <1>28, <1>0, <2>1, GotoOK DEF RmTopics, Types, histVars
  <2>3. ASSUME NEW st \in TopicState
        PROVE  /\ MarkStale(st) \in TopicState /\ MarkStale(st).snap = st.snap
               /\ st.snap = 0 => MarkStale(st).stale = st.stale
    BY DEF MarkStale, TopicState, SomeConn
  <2>4. topics' \in [Topic -> TopicState \cup {None}]
    BY <1>28, <2>3 DEF RmTopics, Types
  <2>5. SnapshotsOK'
    <3>. SUFFICES ASSUME NEW t \in Topic, topics'[t] # None
                  PROVE  /\ topics'[t].snap \in 0 .. Len(pubs')
                         /\ topics'[t].snap # 0 => pubs'[topics'[t].snap].topic = t
                         /\ topics'[t].snap = 0 => topics'[t].stale = "no"
      BY DEF SnapshotsOK
    <3>1. pubs' = pubs /\ (topics'[t] = topics[t] \/ topics'[t] = MarkStale(topics[t]))
      BY <1>28 DEF RmTopics, histVars
    <3>2. CASE topics[t] = None
      BY <1>28, <3>2 DEF RmTopics
    <3>3. CASE topics[t] # None
      <4>1. topics[t] \in TopicState
        BY <3>3 DEF Types
      <4>. QED BY <2>3, <3>1, <3>3, <4>1 DEF SnapshotsOK
    <3>. QED BY <3>2, <3>3
  <2>. QED BY <1>28, <2>2, <2>4, <2>5, SameOffers
           DEF RmTopics, Types, connVars, innerVars, histVars
<1>29. ASSUME NEW c \in Conn, RmIdle(c)
      PROVE  TypeOK'
  <2>. DEFINE l == [loc[c] EXCEPT !.affected = {}, !.notices = IdleNotices(loc[c].affected)]
  <2>1. l \in Locals
    BY <1>0, EditLocals DEF IdleNotices, Types
  <2>2. /\ pc' \in [Proc -> PC] /\ loc' \in [Proc -> Locals] /\ LocalsOK'
    BY <1>29, <1>0, <2>1, ReturnOK DEF RmIdle, Types, histVars
  <2>3. topics' \in [Topic -> TopicState \cup {None}] /\ SnapshotsOK'
    BY <1>29 DEF RmIdle, Types, SnapshotsOK, histVars
  <2>. QED BY <1>29, <2>2, <2>3, SameOffers
           DEF RmIdle, Types, connVars, innerVars, histVars
<1>30. ASSUME NEW t \in Topic, Expire(t)
      PROVE  TypeOK'
  <2>1. topics[t] \in TopicState
    BY <1>30 DEF Expire, Types
  <2>2. topics' = [topics EXCEPT ![t] = [topics[t] EXCEPT !.stale = "expired"]]
    BY <1>30 DEF Expire
  <2>3. /\ [topics[t] EXCEPT !.stale = "expired"] \in TopicState
        /\ [topics[t] EXCEPT !.stale = "expired"].snap = topics[t].snap
    BY <2>1 DEF TopicState
  <2>4. topics' \in [Topic -> TopicState \cup {None}]
    BY <2>2, <2>3 DEF Types
  <2>5. SnapshotsOK'
    BY <1>30, <2>1, <2>2, <2>3 DEF Expire, SnapshotsOK, Types, histVars
  <2>. QED BY <1>30, <2>4, <2>5, SameTasks, SameOffers
           DEF Expire, Types, connVars, innerVars, histVars
<1>31. ASSUME JanitorSweep
      PROVE  TypeOK'
  <2>. DEFINE dead == {id \in SubId : Dead(id)}
  <2>1. /\ [Clean EXCEPT !.prune = dead] \in Locals /\ Clean \in Locals
        /\ "prune" \in PC /\ "count" \in PC
    BY CleanLocals DEF PC
  <2>2. /\ pc' \in [Proc -> PC] /\ loc' \in [Proc -> Locals] /\ LocalsOK'
    BY <1>31, <1>0, <2>1, GotoOK, BrokerAssumption DEF JanitorSweep, Types, histVars
  <2>. QED BY <1>31, <2>2, SameTopics, SameOffers
           DEF JanitorSweep, Types, connVars, innerVars, histVars
<1>32. ASSUME JanitorCount
      PROVE  TypeOK'
  <2>. DEFINE l == [loc[Janitor] EXCEPT !.affected = {t \in Topic : TopicSubs(t) # {}}]
  <2>1. l \in Locals /\ "retain" \in PC
    BY <1>0, EditLocals DEF PC, Types
  <2>2. /\ pc' \in [Proc -> PC] /\ loc' \in [Proc -> Locals] /\ LocalsOK'
    BY <1>32, <1>0, <2>1, GotoOK, BrokerAssumption DEF JanitorCount, Types, histVars
  <2>. QED BY <1>32, <2>2, SameTopics, SameOffers
           DEF JanitorCount, Types, connVars, innerVars, histVars
<1>33. ASSUME JanitorRetain
      PROVE  TypeOK'
  <2>1. [loc[Janitor] EXCEPT !.affected = {}] \in Locals
    BY <1>0, EditLocals DEF Types
  <2>2. /\ pc' \in [Proc -> PC] /\ loc' \in [Proc -> Locals] /\ LocalsOK'
    BY <1>33, <1>0, <2>1, ReturnOK DEF JanitorRetain, Types, histVars
  <2>3. ASSUME NEW st \in TopicState, NEW snap \in {0, st.snap}
        PROVE  LET new == [st EXCEPT !.snap = snap,
                             !.stale = IF snap = 0 THEN "no" ELSE @]
               IN  /\ new \in TopicState /\ new.snap = snap
                   /\ snap = 0 => new.stale = "no"
    <3>1. snap \in Nat
      BY DEF TopicState
    <3>2. CASE snap = 0
      BY <3>1, <3>2 DEF TopicState
    <3>3. CASE snap # 0
      BY <3>1, <3>3 DEF TopicState
    <3>. QED BY <3>2, <3>3
  <2>4. ASSUME NEW t \in Topic
        PROVE  \/ topics'[t] = None
               \/ /\ topics[t] \in TopicState /\ topics'[t] \in TopicState
                  /\ topics'[t].snap \in {0, topics[t].snap}
                  /\ topics'[t].snap = 0 => topics'[t].stale = "no"
    <3>1. CASE topics[t] = None
      BY <1>33, <3>1 DEF JanitorRetain
    <3>2. CASE topics[t] # None
      <4>1. topics[t] \in TopicState
        BY <3>2 DEF Types
      <4>. DEFINE snap == IF topics[t].stale = "expired" THEN 0 ELSE topics[t].snap
                  new  == [topics[t] EXCEPT !.snap = snap,
                             !.stale = IF snap = 0 THEN "no" ELSE @]
      <4>2. topics'[t] = None \/ topics'[t] = new
        BY <1>33, <3>2 DEF JanitorRetain
      <4>3. snap \in {0, topics[t].snap}
        OBVIOUS
      <4>4. new \in TopicState /\ new.snap = snap /\ (snap = 0 => new.stale = "no")
        BY <2>3, <4>1, <4>3
      <4>. QED BY <4>1, <4>2, <4>3, <4>4
    <3>. QED BY <3>1, <3>2
  <2>5. topics' \in [Topic -> TopicState \cup {None}]
    BY <1>33, <2>4 DEF JanitorRetain
  <2>6. SnapshotsOK'
    <3>. SUFFICES ASSUME NEW t \in Topic, topics'[t] # None
                  PROVE  /\ topics'[t].snap \in 0 .. Len(pubs')
                         /\ topics'[t].snap # 0 => pubs'[topics'[t].snap].topic = t
                         /\ topics'[t].snap = 0 => topics'[t].stale = "no"
      BY DEF SnapshotsOK
    <3>2. topics[t] # None
      BY <1>33 DEF JanitorRetain
    <3>3. pubs' = pubs /\ pubs \in Seq(Publication)
      BY <1>33 DEF JanitorRetain, histVars, Types
    <3>. QED BY <2>4, <3>2, <3>3 DEF SnapshotsOK
  <2>. QED BY <1>33, <2>2, <2>5, <2>6, SameOffers
           DEF JanitorRetain, Types, connVars, innerVars, histVars
<1>34. ASSUME UNCHANGED vars
      PROVE  TypeOK'
  BY <1>34, SameTasks, SameTopics, SameOffers DEF vars, Types
<1>. QED
  BY <1>0, <1>1, <1>2, <1>3, <1>4, <1>5, <1>6, <1>7, <1>8, <1>9, <1>10, <1>11,
     <1>12, <1>13, <1>14, <1>15, <1>16, <1>17, <1>18, <1>19, <1>20,
     <1>21, <1>22, <1>23, <1>24, <1>25, <1>26, <1>27, <1>28, <1>29,
     <1>30, <1>31, <1>32, <1>33, <1>34
     DEF Next, Command, Continue, JanitorStep

\* Type correctness: every variable keeps its type, the locals a lock region
\* reads were set by the region before it, and the snapshot cache and the
\* deliveries refer to accepted publications.
THEOREM TypeCorrect == Spec => []TypeOK
<1>1. Init => TypeOK
  BY TypeInit
<1>2. TypeOK /\ [Next]_vars => TypeOK'
  BY TypeStep
<1>. QED BY <1>1, <1>2, PTL DEF Spec

-----------------------------------------------------------------------------
(* Which steps touch which table *)

\* The subscription tables change only by an insert, an unsubscribe, a ui.*
\* command, a teardown, or a prune of ids that are still dead.
LEMMA InnerSteps ==
  ASSUME [Next]_vars
  PROVE  \/ UNCHANGED innerVars
         \/ \E c \in Conn : Insert(c) \/ RmSubs(c)
         \/ \E c \in Conn, t \in Topic : Unsubscribe(c, t)
         \/ \E c \in Conn, u \in UiSource : UiSubscribe(c, u) \/ UiUnsubscribe(c, u)
         \/ \E ids : PruneDead(ids)
<1>1. ASSUME NEW c \in Conn, Connect(c) \/ WriterStops(c)
      PROVE  UNCHANGED innerVars
  BY <1>1 DEF Connect, WriterStops, innerVars
<1>2. ASSUME NEW c \in Conn, Command(c)
      PROVE  \/ UNCHANGED innerVars
             \/ \E t \in Topic : Unsubscribe(c, t)
             \/ \E u \in UiSource : UiSubscribe(c, u) \/ UiUnsubscribe(c, u)
  BY <1>2 DEF Command, Register, Deregister, Disconnect, Publish, Subscribe,
              SubscribeGrant, Clear, innerVars
<1>3. ASSUME NEW p, Prune(p) \/ IdleNotes(p) \/ Dispatch(p)
      PROVE  UNCHANGED innerVars \/ \E ids : PruneDead(ids)
  BY <1>3 DEF Prune, IdleNotes, Dispatch, innerVars
<1>4. ASSUME NEW c \in Conn, Continue(c)
      PROVE  UNCHANGED innerVars \/ Insert(c) \/ RmSubs(c) \/ \E ids : PruneDead(ids)
  BY <1>3, <1>4 DEF Continue, FanOut, ClearFan, Lookup, Replay, Send, SelfPrune,
              Recheck, UnsubIdle, RmTopics, RmIdle, Unregister, innerVars
<1>5. ASSUME JanitorStep
      PROVE  UNCHANGED innerVars \/ \E ids : PruneDead(ids)
  BY <1>3, <1>5 DEF JanitorStep, JanitorSweep, JanitorCount, JanitorRetain,
              innerVars
<1>6. ASSUME NEW s \in Service, PruneRoute(s) PROVE UNCHANGED innerVars
  BY <1>6 DEF PruneRoute, innerVars
<1>7. ASSUME NEW t \in Topic, Expire(t) PROVE UNCHANGED innerVars
  BY <1>7 DEF Expire, innerVars
<1>. QED BY <1>1, <1>2, <1>4, <1>5, <1>6, <1>7 DEF Next, vars, innerVars

-----------------------------------------------------------------------------
(* The two tables of `inner` agree *)

LEMMA IndexStep ==
  ASSUME TypeOK, IndexConsistent, [Next]_vars
  PROVE  IndexConsistent'
<1>1. /\ subs \in [SubId -> SomeConn] /\ byPeer \in [Peer -> SUBSET SubId]
      /\ None \notin Conn
  BY BrokerAssumption DEF TypeOK, Types
<1>2. CASE UNCHANGED innerVars
  BY <1>2 DEF IndexConsistent, innerVars
<1>3. ASSUME NEW c \in Conn, Insert(c)
      PROVE  IndexConsistent'
  <2>1. /\ loc[c].id \in SubId /\ loc[c].tx \in Conn
        /\ loc[c].id.peer \in Peer /\ loc[c].tx # None
    BY <1>1, <1>3 DEF Insert, TypeOK, LocalsOK, LocalOK, SubId
  <2>. QED BY <1>1, <1>3, <2>1 DEF Insert, IndexConsistent
<1>4. ASSUME NEW c \in Conn, NEW u \in UiSource, UiSubscribe(c, u)
      PROVE  IndexConsistent'
  <2>1. /\ UiId(c, u) \in SubId /\ PeerId(c) \in Peer
        /\ UiId(c, u).peer = PeerId(c) /\ c # None
    BY <1>1, PeerIdType DEF UiId, SubId, Filter, TypeOK
  <2>. QED BY <1>1, <1>4, <2>1 DEF UiSubscribe, IndexConsistent
<1>5. ASSUME NEW ids, RemoveIds(ids)
      PROVE  IndexConsistent'
  BY <1>1, <1>5 DEF RemoveIds, IndexConsistent
<1>. QED BY <1>2, <1>3, <1>4, <1>5, InnerSteps
         DEF PruneDead, RmSubs, Unsubscribe, UiUnsubscribe

\* The by_peer index lists exactly the subscriptions that exist, whichever
\* operations interleave.
THEOREM IndexAgrees == Spec => []IndexConsistent
<1>1. Init => IndexConsistent
  BY DEF Init, IndexConsistent
<1>2. TypeOK /\ IndexConsistent /\ [Next]_vars => IndexConsistent'
  BY IndexStep
<1>. QED BY <1>1, <1>2, TypeCorrect, PTL DEF Spec

-----------------------------------------------------------------------------
(* A live subscription is not reaped *)

\* A step that issues a command spends some of the client's budget.
LEMMA SpendChanges ==
  ASSUME TypeOK, NEW c \in Conn, NEW v \in Verb, Spend(c, v)
  PROVE  left'[c] # left[c]
<1>1. left \in [Conn -> [Verb -> Nat]]
  BY DEF TypeOK, Types
<1>2. left'[c][v] = left[c][v] - 1 /\ left[c][v] \in Nat
  BY <1>1 DEF Spend
<1>. QED BY <1>2

LEMMA LiveStep ==
  ASSUME TypeOK, IndexConsistent, [Next]_vars,
         NEW id \in SubId, Live(subs[id]), subs'[id] # subs[id]
  PROVE  OwnStep(id)
<1>1. \A p \in Peer : \A i \in byPeer[p] : i.peer = p
  BY DEF IndexConsistent
<1>2. pc \in [Proc -> PC] /\ Conn \subseteq Proc
  BY DEF TypeOK, Types, Proc
<1>3. ASSUME NEW c \in Conn, Insert(c) PROVE OwnStep(id)
  <2>1. loc[c].id = id
    BY <1>3 DEF Insert, TypeOK, Types
  <2>2. pc[c] = "insert" /\ pc'[c] = "replay"
    BY <1>2, <1>3 DEF Insert, Goto
  <2>. QED BY <2>1, <2>2 DEF OwnStep
<1>4. ASSUME NEW c \in Conn, RmSubs(c) PROVE OwnStep(id)
  <2>1. id \in byPeer[loc[c].peer] /\ subs[id] = c
    BY <1>4 DEF RmSubs, RemoveIds
  <2>2. loc[c].peer \in Peer
    BY <1>4 DEF RmSubs, TypeOK, LocalsOK, LocalOK
  <2>3. pc[c] = "rmSubs" /\ pc'[c] = "rmTopics"
    BY <1>2, <1>4 DEF RmSubs, Goto
  <2>. QED BY <1>1, <2>1, <2>2, <2>3 DEF OwnStep
<1>5. ASSUME NEW c \in Conn, NEW t \in Topic, Unsubscribe(c, t) PROVE OwnStep(id)
  <2>1. id \in byPeer[PeerId(c)]
    BY <1>5 DEF Unsubscribe, RemoveIds
  <2>2. PeerId(c) \in Peer
    BY PeerIdType DEF TypeOK
  <2>3. left'[c] # left[c] /\ Ready(c)
    BY <1>5, SpendChanges DEF Unsubscribe, Issue, Verb
  <2>. QED BY <1>1, <2>1, <2>2, <2>3 DEF OwnStep
<1>6. ASSUME NEW c \in Conn, NEW u \in UiSource, UiSubscribe(c, u) \/ UiUnsubscribe(c, u)
      PROVE  OwnStep(id)
  <2>1. id = UiId(c, u)
    BY <1>6 DEF UiSubscribe, UiUnsubscribe, RemoveIds, TypeOK, Types
  <2>2. left'[c] # left[c] /\ Ready(c)
    BY <1>6, SpendChanges DEF UiSubscribe, UiUnsubscribe, Issue, Verb
  <2>. QED BY <2>1, <2>2 DEF OwnStep, UiId
<1>7. ASSUME NEW ids, PruneDead(ids) PROVE FALSE
  BY <1>7 DEF PruneDead, RemoveIds, StillDead, Dead, Live
<1>8. CASE UNCHANGED innerVars
  BY <1>8 DEF innerVars
<1>. QED BY <1>3, <1>4, <1>5, <1>6, <1>7, <1>8, InnerSteps

\* A subscription on an open channel leaves its place only by a command of its
\* own peer, a subscribe for the same id, or the teardown of its own channel:
\* no prune, sweep or foreign teardown takes it.
THEOREM LiveKept == Spec => LiveSubscriptionKept
<1>1. TypeOK /\ IndexConsistent /\ [Next]_vars =>
        [\A id \in SubId :
           (Live(subs[id]) /\ subs'[id] # subs[id]) => OwnStep(id)]_vars
  BY LiveStep
<1>. QED BY <1>1, TypeCorrect, IndexAgrees, PTL DEF Spec, LiveSubscriptionKept

-----------------------------------------------------------------------------
(* Publications, snapshots and stale marks *)

\* What a step other than a publish may do to the state of a topic it keeps.
TopicMove(old, new) ==
  /\ old \in TopicState /\ new \in TopicState
  /\ new.snap \in {0, old.snap}
  /\ new.lastPub = old.lastPub /\ new.lastTx \in {old.lastTx, None}
  /\ new.stale # "no" => /\ new.snap = old.snap
                         /\ old.stale # "no" \/ new.lastTx = None

KeptOrGone(t) ==
  topics'[t] = None \/ (topics[t] # None /\ TopicMove(topics[t], topics'[t]))

\* Only a publish appends to the history or caches a snapshot.
LEMMA TopicSteps ==
  ASSUME TypeOK, [Next]_vars
  PROVE  \/ \E c \in Conn, t \in Topic, ns \in Filter, r \in BOOLEAN :
              Publish(c, t, ns, r)
         \/ /\ pubs' = pubs
            /\ \A t \in Topic : KeptOrGone(t)
<1>. DEFINE Kept == /\ pubs' = pubs
                    /\ \A t \in Topic : KeptOrGone(t)
            Pub  == \E c \in Conn, t \in Topic, ns \in Filter, r \in BOOLEAN :
                      Publish(c, t, ns, r)
<1>1. \A t \in Topic : topics[t] = None \/ topics[t] \in TopicState
  BY DEF TypeOK, Types
<1>2. ASSUME UNCHANGED <<topics, pubs>> PROVE Kept
  BY <1>1, <1>2 DEF TopicMove, KeptOrGone
<1>3. ASSUME NEW c \in Conn, Connect(c) \/ WriterStops(c) PROVE Kept
  BY <1>2, <1>3 DEF Connect, WriterStops, histVars
<1>4. ASSUME NEW c \in Conn, Command(c) PROVE Kept \/ Pub
  <2>1. ASSUME NEW t \in Topic, NEW n \in BOOLEAN, Clear(c, t, n) PROVE Kept
    <3>1. topics[t] \in TopicState /\ pubs' = pubs
      BY <1>1, <2>1 DEF Clear, histVars
    <3>2. topics' = [topics EXCEPT ![t] = [topics[t] EXCEPT !.snap = 0, !.stale = "no"]]
      BY <2>1 DEF Clear
    <3>3. TopicMove(topics[t], [topics[t] EXCEPT !.snap = 0, !.stale = "no"])
      BY <3>1 DEF TopicMove, TopicState
    <3>4. ASSUME NEW u \in Topic
          PROVE  KeptOrGone(u)
      <4>1. CASE u = t
        BY <2>1, <3>2, <3>3, <4>1 DEF Clear, TypeOK, Types, KeptOrGone
      <4>2. CASE u # t
        BY <1>1, <3>2, <4>2 DEF TypeOK, Types, TopicMove, KeptOrGone
      <4>. QED BY <4>1, <4>2
    <3>. QED BY <3>1, <3>4
  <2>2. UNCHANGED <<topics, pubs>> \/ Pub \/
          \E t \in Topic, n \in BOOLEAN : Clear(c, t, n)
    BY <1>4 DEF Command, Register, Deregister, Disconnect, Subscribe,
                SubscribeGrant, Unsubscribe, UiSubscribe, UiUnsubscribe, histVars
  <2>. QED BY <1>2, <2>1, <2>2
<1>5. ASSUME NEW p, Prune(p) \/ IdleNotes(p) \/ Dispatch(p) PROVE Kept
  BY <1>2, <1>5 DEF Prune, IdleNotes, Dispatch, histVars
<1>6. ASSUME NEW c \in Conn, Continue(c) PROVE Kept
  <2>1. CASE UnsubIdle(c) \/ RmIdle(c)
    <3>1. pubs' = pubs
      BY <2>1 DEF UnsubIdle, RmIdle, histVars
    <3>2. ASSUME NEW t \in Topic PROVE topics'[t] = None \/ topics'[t] = topics[t]
      BY <2>1 DEF UnsubIdle, RmIdle, TypeOK, Types
    <3>. QED BY <1>1, <3>1, <3>2 DEF TopicMove, KeptOrGone
  <2>2. CASE RmTopics(c)
    <3>1. pubs' = pubs
      BY <2>2 DEF RmTopics, histVars
    <3>2. ASSUME NEW st \in TopicState PROVE TopicMove(st, MarkStale(st))
      BY DEF TopicMove, MarkStale, TopicState, SomeConn
    <3>3. ASSUME NEW t \in Topic
          PROVE  \/ topics'[t] = topics[t]
                 \/ topics[t] # None /\ topics'[t] = MarkStale(topics[t])
      BY <2>2 DEF RmTopics
    <3>. QED BY <1>1, <3>1, <3>2, <3>3 DEF TopicMove, KeptOrGone
  <2>3. \/ UNCHANGED <<topics, pubs>> \/ UnsubIdle(c) \/ RmIdle(c) \/ RmTopics(c)
        \/ Prune(c) \/ IdleNotes(c) \/ Dispatch(c)
    BY <1>6 DEF Continue, FanOut, ClearFan, Lookup, Insert, Replay, Send, SelfPrune,
                Recheck, RmSubs, Unregister, histVars
  <2>. QED BY <1>2, <1>5, <2>1, <2>2, <2>3
<1>7. ASSUME JanitorStep PROVE Kept
  <2>1. CASE JanitorRetain
    <3>1. pubs' = pubs
      BY <2>1 DEF JanitorRetain, histVars
    <3>2. ASSUME NEW st \in TopicState, NEW n \in {0, st.snap}
          PROVE  TopicMove(st, [st EXCEPT !.snap = n,
                                  !.stale = IF n = 0 THEN "no" ELSE st.stale])
      <4>1. CASE n = 0
        BY <4>1 DEF TopicMove, TopicState
      <4>2. CASE n # 0
        BY <4>2 DEF TopicMove, TopicState
      <4>. QED BY <4>1, <4>2
    <3>3. ASSUME NEW t \in Topic, topics'[t] # None
          PROVE  topics[t] # None /\ TopicMove(topics[t], topics'[t])
      <4>1. topics[t] # None
        BY <2>1, <3>3 DEF JanitorRetain
      <4>. DEFINE n == IF topics[t].stale = "expired" THEN 0 ELSE topics[t].snap
      <4>2. topics'[t] = [topics[t] EXCEPT !.snap = n,
                            !.stale = IF n = 0 THEN "no" ELSE topics[t].stale]
        BY <2>1, <3>3, <4>1 DEF JanitorRetain
      <4>3. n \in {0, topics[t].snap}
        OBVIOUS
      <4>. QED BY <1>1, <3>2, <4>1, <4>2, <4>3
    <3>. QED BY <3>1, <3>3 DEF KeptOrGone
  <2>2. \/ UNCHANGED <<topics, pubs>> \/ JanitorRetain
        \/ Prune(Janitor) \/ IdleNotes(Janitor) \/ Dispatch(Janitor)
    BY <1>7 DEF JanitorStep, JanitorSweep, JanitorCount, histVars
  <2>. QED BY <1>2, <1>5, <2>1, <2>2
<1>8. ASSUME NEW s \in Service, PruneRoute(s) PROVE Kept
  BY <1>2, <1>8 DEF PruneRoute, histVars
<1>9. ASSUME NEW t \in Topic, Expire(t) PROVE Kept
  <2>1. topics[t] \in TopicState /\ pubs' = pubs /\ topics[t].stale = "stale"
    BY <1>1, <1>9 DEF Expire, histVars
  <2>2. topics' = [topics EXCEPT ![t] = [topics[t] EXCEPT !.stale = "expired"]]
    BY <1>9 DEF Expire
  <2>3. TopicMove(topics[t], [topics[t] EXCEPT !.stale = "expired"])
    BY <2>1 DEF TopicMove, TopicState
  <2>4. ASSUME NEW u \in Topic
        PROVE  KeptOrGone(u)
    <3>1. CASE u = t
      BY <1>9, <2>2, <2>3, <3>1 DEF Expire, TypeOK, Types, KeptOrGone
    <3>2. CASE u # t
      BY <1>1, <2>2, <3>2 DEF TypeOK, Types, TopicMove, KeptOrGone
    <3>. QED BY <3>1, <3>2
  <2>. QED BY <2>1, <2>4
<1>. QED BY <1>2, <1>3, <1>4, <1>6, <1>7, <1>8, <1>9 DEF Next, vars

\* What a publish does to the history and the topic table.
LEMMA PublishEffect ==
  ASSUME TypeOK, NEW c \in Conn, NEW t \in Topic, NEW ns \in Filter,
         NEW r \in BOOLEAN, Publish(c, t, ns, r)
  PROVE  /\ Len(pubs') = Len(pubs) + 1
         /\ \A i \in 1 .. Len(pubs) : pubs'[i] = pubs[i]
         /\ \A u \in Topic : u # t => topics'[u] = topics[u]
         /\ topics'[t].lastPub = PeerId(c)
         /\ \/ topics'[t].snap = Len(pubs) + 1 /\ topics'[t].stale = "no"
            \/ /\ topics[t] # None /\ topics'[t].snap = topics[t].snap
               /\ \/ topics'[t].stale = "no"
                  \/ topics[t].snap # 0 /\ pubs[topics[t].snap].by # PeerId(c)
            \/ topics'[t].snap = 0 /\ topics'[t].stale = "no"
<1>. DEFINE old   == topics[t]
            seq   == (IF old = None THEN 0 ELSE old.seq) + 1
            k     == Len(pubs) + 1
            snap  == IF r THEN k ELSE IF old = None THEN 0 ELSE old.snap
            stale == IF r \/ snap = 0 THEN "no"
                     ELSE IF pubs[snap].by = PeerId(c) THEN "no" ELSE old.stale
            x     == [topic |-> t, ns |-> ns, seq |-> seq, by |-> PeerId(c), tx |-> c]
            st    == [seq |-> seq, snap |-> snap, stale |-> stale,
                      lastPub |-> PeerId(c), lastTx |-> c]
<1>1. topics' = [topics EXCEPT ![t] = st] /\ pubs' = Append(pubs, x)
  BY DEF Publish
<1>2. pubs \in Seq(Publication) /\ topics \in [Topic -> TopicState \cup {None}]
  BY DEF TypeOK, Types
<1>4. Len(pubs') = k /\ \A i \in 1 .. Len(pubs) : pubs'[i] = pubs[i]
  BY <1>1, <1>2
<1>5. topics'[t] = st /\ \A u \in Topic : u # t => topics'[u] = topics[u]
  BY <1>1, <1>2
<1>6. st.lastPub = PeerId(c) /\ st.snap = snap /\ st.stale = stale
  OBVIOUS
<1>. QED BY <1>4, <1>5, <1>6

LEMMA FreshStep ==
  ASSUME TypeOK, RepublishFreshens, [Next]_vars
  PROVE  RepublishFreshens'
<1>. SUFFICES ASSUME NEW u \in Topic, topics'[u] # None, topics'[u].stale # "no"
              PROVE  /\ topics'[u].snap # 0
                     /\ \/ topics'[u].lastTx = None
                        \/ pubs'[topics'[u].snap].by # topics'[u].lastPub
  BY DEF RepublishFreshens
<1>1. topics[u] # None => /\ topics[u].snap \in 0 .. Len(pubs)
                          /\ topics[u].snap = 0 => topics[u].stale = "no"
  BY DEF TypeOK, SnapshotsOK
<1>2. topics[u] # None /\ topics[u].stale # "no"
        => /\ topics[u].snap # 0
           /\ topics[u].lastTx = None \/ pubs[topics[u].snap].by # topics[u].lastPub
  BY DEF RepublishFreshens
<1>3. /\ topics'[u].snap \in 0 .. Len(pubs')
      /\ topics'[u].snap = 0 => topics'[u].stale = "no"
  BY TypeStep DEF TypeOK, SnapshotsOK
<1>4. Len(pubs) \in Nat
  BY DEF TypeOK, Types
<1>5. ASSUME NEW c \in Conn, NEW t \in Topic, NEW ns \in Filter, NEW r \in BOOLEAN,
             Publish(c, t, ns, r)
      PROVE  pubs'[topics'[u].snap].by # topics'[u].lastPub \/ topics'[u].lastTx = None
  <2>1. CASE u # t
    <3>1. topics'[u] = topics[u]
      BY <1>5, <2>1, PublishEffect
    <3>2. topics[u].snap \in 1 .. Len(pubs)
      BY <1>1, <1>2, <1>4, <3>1
    <3>3. pubs'[topics[u].snap] = pubs[topics[u].snap]
      BY <1>5, <3>2, PublishEffect
    <3>. QED BY <1>2, <3>1, <3>3
  <2>2. CASE u = t
    <3>1. /\ topics[u] # None /\ topics'[u].snap = topics[u].snap
          /\ topics[u].snap # 0 /\ pubs[topics[u].snap].by # PeerId(c)
          /\ topics'[u].lastPub = PeerId(c)
      BY <1>5, <2>2, PublishEffect
    <3>2. pubs'[topics[u].snap] = pubs[topics[u].snap]
      BY <1>1, <1>4, <1>5, <3>1, PublishEffect
    <3>. QED BY <3>1, <3>2
  <2>. QED BY <2>1, <2>2
<1>6. ASSUME pubs' = pubs, topics[u] # None, TopicMove(topics[u], topics'[u])
      PROVE  pubs'[topics'[u].snap].by # topics'[u].lastPub \/ topics'[u].lastTx = None
  BY <1>2, <1>6 DEF TopicMove
<1>. QED BY <1>3, <1>5, <1>6, TopicSteps DEF KeptOrGone

\* A stale snapshot's publisher is not the bound last publisher: no publish by
\* the peer that owns the snapshot leaves it on its way to the janitor.
THEOREM Freshens == Spec => []RepublishFreshens
<1>1. Init => RepublishFreshens
  BY DEF Init, RepublishFreshens
<1>2. TypeOK /\ RepublishFreshens /\ [Next]_vars => RepublishFreshens'
  BY FreshStep
<1>. QED BY <1>1, <1>2, TypeCorrect, PTL DEF Spec

-----------------------------------------------------------------------------
(* Filters *)

\* Outcomes are recorded by a fan-out, a delete notice or the sending of a replay.
LEMMA OfferSteps ==
  ASSUME TypeOK, [Next]_vars
  PROVE  \/ \E c \in Conn : FanOut(c) \/ ClearFan(c) \/ Send(c)
         \/ \A id \in SubId : outcome'[id] \subseteq outcome[id]
<1>1. ASSUME NEW ids, RemoveIds(ids)
      PROVE  \A id \in SubId : outcome'[id] \subseteq outcome[id]
  BY <1>1 DEF RemoveIds
<1>2. ASSUME NEW c \in Conn, Insert(c)
      PROVE  \A id \in SubId : outcome'[id] \subseteq outcome[id]
  BY <1>2 DEF Insert, TypeOK, Types
<1>3. ASSUME NEW c \in Conn, Command(c)
      PROVE  outcome' = outcome \/ \E ids : RemoveIds(ids)
  BY <1>3 DEF Command, Register, Deregister, Disconnect, Publish, Subscribe,
              SubscribeGrant, Unsubscribe, Clear, UiSubscribe, UiUnsubscribe, histVars
<1>4. ASSUME NEW p, Prune(p) \/ IdleNotes(p) \/ Dispatch(p)
      PROVE  outcome' = outcome \/ \E ids : RemoveIds(ids)
  BY <1>4 DEF Prune, PruneDead, IdleNotes, Dispatch, histVars
<1>5. ASSUME NEW c \in Conn, Continue(c)
      PROVE  \/ outcome' = outcome \/ FanOut(c) \/ ClearFan(c) \/ Send(c) \/ Insert(c)
             \/ \E ids : RemoveIds(ids)
  BY <1>4, <1>5 DEF Continue, Lookup, Replay, SelfPrune, PruneDead,
              Recheck, UnsubIdle, RmSubs, RmTopics, RmIdle, Unregister, histVars
<1>6. ASSUME JanitorStep
      PROVE  outcome' = outcome \/ \E ids : RemoveIds(ids)
  BY <1>4, <1>6 DEF JanitorStep, JanitorSweep, JanitorCount, JanitorRetain, histVars
<1>7. ASSUME NEW c \in Conn, Connect(c) \/ WriterStops(c) PROVE outcome' = outcome
  BY <1>7 DEF Connect, WriterStops, histVars
<1>8. ASSUME NEW s \in Service, PruneRoute(s) PROVE outcome' = outcome
  BY <1>8 DEF PruneRoute, histVars
<1>9. ASSUME NEW t \in Topic, Expire(t) PROVE outcome' = outcome
  BY <1>9 DEF Expire, histVars
<1>. QED BY <1>1, <1>2, <1>3, <1>5, <1>6, <1>7, <1>8, <1>9 DEF Next, vars

\* The history only grows.
LEMMA HistoryGrows ==
  ASSUME TypeOK, [Next]_vars
  PROVE  \A i \in 1 .. Len(pubs) : pubs'[i] = pubs[i]
BY TopicSteps, PublishEffect

LEMMA FilterStep ==
  ASSUME TypeOK, FilterIsolation, [Next]_vars
  PROVE  FilterIsolation'
<1>. DEFINE Fits(id, k) == pubs'[k].topic = id.on /\ Matches(id, pubs'[k].ns)
<1>. SUFFICES ASSUME NEW id \in SubId, NEW o \in outcome'[id]
              PROVE  Fits(id, o.pub)
  BY DEF FilterIsolation, Matches
<1>1. CASE o \in outcome[id]
  <2>1. pubs[o.pub].topic = id.on /\ Matches(id, pubs[o.pub].ns)
    BY <1>1 DEF FilterIsolation
  <2>2. pubs'[o.pub] = pubs[o.pub]
    BY <1>1, HistoryGrows DEF TypeOK, OutcomesOK
  <2>. QED BY <2>1, <2>2
<1>2. CASE o \notin outcome[id]
  <2>0. ASSUME NEW how, NEW k PROVE [how |-> how, pub |-> k].pub = k
    OBVIOUS
  <2>1. ASSUME NEW c \in Conn, FanOut(c)
        PROVE  Fits(id, o.pub)
    <3>1. /\ pubs' = pubs /\ id \in Reachable(loc[c].pub)
          /\ \E how : o = [how |-> how, pub |-> loc[c].pub]
      BY <1>2, <2>1, FanOutEffect
    <3>. QED BY <2>0, <3>1 DEF Reachable, TopicSubs
  <2>2. ASSUME NEW c \in Conn, Send(c)
        PROVE  Fits(id, o.pub)
    <3>1. /\ pubs' = pubs /\ o = [how |-> "offered", pub |-> loc[c].pub]
          /\ id = loc[c].id /\ pc[c] = "send"
      BY <1>2, <2>2 DEF Send, TypeOK, Types
    <3>. QED BY <2>0, <3>1 DEF TypeOK, LocalsOK, LocalOK
  <2>3. ASSUME NEW c \in Conn, ClearFan(c)
        PROVE  Fits(id, o.pub)
    <3>1. /\ pubs' = pubs /\ o = [how |-> "deleted", pub |-> loc[c].pub]
          /\ id \in TopicSubs(pubs[loc[c].pub].topic)
          /\ Matches(id, pubs[loc[c].pub].ns)
      BY <1>2, <2>3 DEF ClearFan
    <3>. QED BY <2>0, <3>1 DEF TopicSubs
  <2>. QED BY <1>2, <2>1, <2>2, <2>3, OfferSteps
<1>. QED BY <1>1, <1>2

\* No interleaving of publish, subscribe, clear and teardown hands a subscriber
\* a publication of another topic or of a namespace its filter excludes, or the
\* notice that one was deleted.
THEOREM FiltersHold == Spec => []FilterIsolation
<1>1. Init => FilterIsolation
  BY DEF Init, FilterIsolation
<1>2. TypeOK /\ FilterIsolation /\ [Next]_vars => FilterIsolation'
  BY FilterStep
<1>. QED BY <1>1, <1>2, TypeCorrect, PTL DEF Spec

-----------------------------------------------------------------------------
(* A publish racing a subscribe is not missed by both *)

\* Channels that were never opened are bound nowhere.  Without it a Connect
\* could turn a subscription live that was passed over as dead.
ChannelsBegun ==
  /\ \A id \in SubId : subs[id] # None => link[subs[id]] # "new"
  /\ \A s \in Service : registry[s] # None => link[registry[s]] # "new"
  /\ \A c \in Conn : pc[c] \in {"lookup", "insert"} => link[loc[c].tx] # "new"

\* A step moves at most the task that takes it.
TaskMove(p) == \A c \in Conn : c # p => pc'[c] = pc[c] /\ loc'[c] = loc[c]

LEMMA GotoMoves ==
  ASSUME TypeOK, NEW p \in Proc, NEW label, NEW l, Goto(p, label, l)
  PROVE  TaskMove(p) /\ pc'[p] = label /\ loc'[p] = l
<1>1. pc \in [Proc -> PC] /\ loc \in [Proc -> Locals] /\ Conn \subseteq Proc
  BY DEF TypeOK, Types, Proc
<1>. QED BY <1>1 DEF Goto, TaskMove

LEMMA ReturnMoves ==
  ASSUME TypeOK, NEW p \in Proc, NEW l, Return(p, l)
  PROVE  TaskMove(p) /\ pc'[p] \in {"dispatch", "unregister", "idle"}
BY GotoMoves DEF Return

\* How link, registry and the channel held by a subscribe may change.
Begins ==
  /\ \A c \in Conn : link'[c] = "new" => link[c] = "new"
  /\ \A s \in Service : \/ registry'[s] \in {registry[s], None}
                        \/ \E c \in Conn : link[c] = "up" /\ registry'[s] = c
  /\ \A c \in Conn : pc'[c] \in {"lookup", "insert"} =>
       \/ pc[c] \in {"lookup", "insert"} /\ loc'[c] = loc[c]
       \/ link[loc'[c].tx] = "up"
       \/ \E s \in Service : registry[s] # None /\ loc'[c].tx = registry[s]

LEMMA BeginSteps ==
  ASSUME TypeOK, [Next]_vars
  PROVE  Begins
<1>. DEFINE Links == \A c \in Conn : link'[c] = "new" => link[c] = "new"
            Held(c) == pc'[c] \in {"lookup", "insert"} =>
                         \/ pc[c] \in {"lookup", "insert"} /\ loc'[c] = loc[c]
                         \/ link[loc'[c].tx] = "up"
                         \/ \E s \in Service : registry[s] # None /\ loc'[c].tx = registry[s]
            Names == \A s \in Service :
                       \/ registry'[s] \in {registry[s], None}
                       \/ \E c \in Conn : link[c] = "up" /\ registry'[s] = c
<1>0. Conn \subseteq Proc /\ Janitor \in Proc /\ Janitor \notin Conn
  BY BrokerAssumption DEF Proc
<1>1. ASSUME UNCHANGED <<pc, loc>> PROVE \A c \in Conn : Held(c)
  BY <1>1
<1>2. ASSUME NEW p \in Proc, TaskMove(p), p \in Conn => Held(p)
      PROVE  \A c \in Conn : Held(c)
  BY <1>2 DEF TaskMove
<1>3. ASSUME NEW c \in Conn, Connect(c) \/ WriterStops(c) PROVE Begins
  BY <1>1, <1>3 DEF Connect, WriterStops, Begins, TypeOK, Types
<1>4. ASSUME NEW c \in Conn, Command(c) PROVE Begins
  <2>1. CASE \E s \in Service : Register(c, s)
    BY <1>1, <2>1 DEF Register, Issue, Ready, Begins
  <2>2. CASE Deregister(c) \/ Disconnect(c)
    <3>1. TaskMove(c) /\ pc'[c] = "rmSubs"
      BY <1>0, <2>2, GotoMoves DEF Deregister, Disconnect
    <3>2. Links /\ registry' = registry
      BY <2>2 DEF Deregister, Disconnect, TypeOK, Types
    <3>. QED BY <1>0, <1>2, <3>1, <3>2 DEF Begins
  <2>3. CASE \E t \in Topic, ns \in Filter, r \in BOOLEAN : Publish(c, t, ns, r)
    <3>1. TaskMove(c) /\ pc'[c] = "fanout"
      BY <1>0, <2>3, GotoMoves DEF Publish
    <3>. QED BY <1>0, <1>2, <2>3, <3>1 DEF Publish, connVars, Begins
  <2>4. CASE \E t \in Topic : Subscribe(c, t)
    <3>1. TaskMove(c) /\ loc'[c].tx = c
      <4>1. PICK t \in Topic : Subscribe(c, t)
        BY <2>4
      <4>. DEFINE l == [Clean EXCEPT !.tx = c,
                          !.id = [peer |-> PeerId(c), on |-> t, filter |-> None]]
      <4>2. Goto(c, "lookup", l) /\ l.tx = c
        BY <4>1 DEF Subscribe, Clean
      <4>. HIDE DEF l
      <4>. QED BY <1>0, <4>2, GotoMoves
    <3>2. link[c] = "up" /\ UNCHANGED connVars
      BY <2>4 DEF Subscribe, Issue, Ready
    <3>. QED BY <1>0, <1>2, <3>1, <3>2 DEF connVars, Begins
  <2>5. CASE \E t \in Topic, s \in Service, ns \in Namespace : SubscribeGrant(c, t, s, ns)
    <3>1. PICK t \in Topic, s \in Service, ns \in Namespace : SubscribeGrant(c, t, s, ns)
      BY <2>5
    <3>2. TaskMove(c) /\ loc'[c].tx = registry[s]
      <4>. DEFINE l == [Clean EXCEPT !.tx = registry[s],
                          !.id = [peer |-> s, on |-> t, filter |-> ns]]
      <4>1. Goto(c, "lookup", l) /\ l.tx = registry[s]
        BY <3>1 DEF SubscribeGrant, Clean
      <4>. HIDE DEF l
      <4>. QED BY <1>0, <4>1, GotoMoves
    <3>3. registry[s] # None /\ UNCHANGED connVars
      BY <3>1 DEF SubscribeGrant, Live
    <3>. QED BY <1>0, <1>2, <3>2, <3>3 DEF connVars, Begins
  <2>6. CASE \/ \E t \in Topic : Unsubscribe(c, t)
             \/ \E t \in Topic, n \in BOOLEAN : Clear(c, t, n)
    <3>1. TaskMove(c) /\ pc'[c] \in {"unsubIdle", "clearFan", "idle"}
      BY <1>0, <2>6, GotoMoves DEF Unsubscribe, Clear
    <3>. QED BY <1>0, <1>2, <2>6, <3>1 DEF Unsubscribe, Clear, connVars, Begins
  <2>7. CASE \E u \in UiSource : UiSubscribe(c, u) \/ UiUnsubscribe(c, u)
    BY <1>1, <2>7 DEF UiSubscribe, UiUnsubscribe, connVars, Begins
  <2>. QED BY <1>4, <2>1, <2>2, <2>3, <2>4, <2>5, <2>6, <2>7 DEF Command
<1>5. ASSUME NEW p \in Proc, Prune(p) \/ IdleNotes(p) \/ Dispatch(p) PROVE Begins
  <2>1. TaskMove(p) /\ pc'[p] \notin {"lookup", "insert"}
    BY <1>5, GotoMoves, ReturnMoves DEF Prune, IdleNotes, Dispatch
  <2>. QED BY <1>2, <1>5, <2>1 DEF Prune, IdleNotes, Dispatch, connVars, Begins
<1>6. ASSUME NEW c \in Conn, Continue(c) PROVE Begins
  <2>1. CASE Lookup(c)
    <3>1. TaskMove(c) /\ Held(c)
      BY <1>0, <2>1, GotoMoves, ReturnMoves DEF Lookup
    <3>. QED BY <1>0, <1>2, <2>1, <3>1 DEF Lookup, connVars, Begins
  <2>2. CASE Unregister(c)
    <3>1. TaskMove(c) /\ pc'[c] \in {"idle", "done"}
      BY <1>0, <2>2, GotoMoves DEF Unregister
    <3>. QED BY <1>0, <1>2, <2>2, <3>1 DEF Unregister, Begins
  <2>3. CASE FanOut(c) \/ ClearFan(c) \/ Insert(c) \/ Replay(c) \/ Send(c)
    <3>1. TaskMove(c) /\ pc'[c] \notin {"lookup", "insert"}
      <4>1. CASE FanOut(c)
        BY <1>0, <4>1, GotoMoves, ReturnMoves DEF FanOut
      <4>2. CASE ClearFan(c)
        BY <1>0, <4>2, GotoMoves, ReturnMoves DEF ClearFan
      <4>3. CASE Insert(c)
        BY <1>0, <4>3, GotoMoves, ReturnMoves DEF Insert
      <4>4. CASE Replay(c)
        BY <1>0, <4>4, GotoMoves, ReturnMoves DEF Replay
      <4>5. CASE Send(c)
        BY <1>0, <4>5, GotoMoves, ReturnMoves DEF Send
      <4>. QED BY <2>3, <4>1, <4>2, <4>3, <4>4, <4>5
    <3>. QED BY <1>0, <1>2, <2>3, <3>1
             DEF FanOut, ClearFan, Insert, Replay, Send, connVars, Begins
  <2>4. CASE SelfPrune(c) \/ Recheck(c) \/ UnsubIdle(c)
             \/ RmSubs(c) \/ RmTopics(c) \/ RmIdle(c)
    <3>1. TaskMove(c) /\ pc'[c] \notin {"lookup", "insert"}
      <4>1. CASE SelfPrune(c)
        BY <1>0, <4>1, GotoMoves, ReturnMoves DEF SelfPrune
      <4>2. CASE Recheck(c)
        BY <1>0, <4>2, GotoMoves, ReturnMoves DEF Recheck
      <4>3. CASE UnsubIdle(c)
        BY <1>0, <4>3, GotoMoves, ReturnMoves DEF UnsubIdle
      <4>4. CASE RmSubs(c)
        BY <1>0, <4>4, GotoMoves, ReturnMoves DEF RmSubs
      <4>5. CASE RmTopics(c)
        BY <1>0, <4>5, GotoMoves, ReturnMoves DEF RmTopics
      <4>6. CASE RmIdle(c)
        BY <1>0, <4>6, GotoMoves, ReturnMoves DEF RmIdle
      <4>. QED BY <2>4, <4>1, <4>2, <4>3, <4>4, <4>5, <4>6
    <3>. QED BY <1>0, <1>2, <2>4, <3>1
             DEF SelfPrune, Recheck, UnsubIdle, RmSubs, RmTopics, RmIdle, connVars, Begins
  <2>. QED BY <1>0, <1>5, <1>6, <2>1, <2>2, <2>3, <2>4 DEF Continue
<1>7. ASSUME JanitorStep PROVE Begins
  <2>1. CASE JanitorSweep \/ JanitorCount \/ JanitorRetain
    <3>1. TaskMove(Janitor)
      BY <1>0, <2>1, GotoMoves, ReturnMoves DEF JanitorSweep, JanitorCount, JanitorRetain
    <3>. QED BY <1>0, <1>2, <2>1, <3>1
             DEF JanitorSweep, JanitorCount, JanitorRetain, connVars, Begins
  <2>. QED BY <1>0, <1>5, <1>7, <2>1 DEF JanitorStep
<1>8. ASSUME NEW s \in Service, PruneRoute(s) PROVE Begins
  BY <1>1, <1>8 DEF PruneRoute, Begins, TypeOK, Types
<1>9. ASSUME NEW t \in Topic, Expire(t) PROVE Begins
  BY <1>1, <1>9 DEF Expire, connVars, Begins
<1>10. ASSUME UNCHANGED vars PROVE Begins
  BY <1>1, <1>10 DEF vars, Begins
<1>. QED BY <1>3, <1>4, <1>6, <1>7, <1>8, <1>9, <1>10 DEF Next

LEMMA BegunStep ==
  ASSUME TypeOK, ChannelsBegun, [Next]_vars
  PROVE  ChannelsBegun'
<1>1. Begins
  BY BeginSteps
<1>2. /\ link \in [Conn -> {"new", "up", "down"}] /\ registry \in [Service -> SomeConn]
      /\ subs \in [SubId -> SomeConn]
  BY DEF TypeOK, Types
<1>3. ASSUME NEW c \in Conn, link[c] # "new" PROVE link'[c] # "new"
  BY <1>1, <1>3 DEF Begins
<1>4. ASSUME NEW s \in Service, registry'[s] # None PROVE link'[registry'[s]] # "new"
  BY <1>1, <1>2, <1>3, <1>4 DEF Begins, ChannelsBegun, SomeConn
<1>5. ASSUME NEW c \in Conn, pc'[c] \in {"lookup", "insert"}
      PROVE  link'[loc'[c].tx] # "new"
  <2>1. loc'[c].tx \in Conn
    BY <1>5, TypeStep DEF TypeOK, LocalsOK, LocalOK
  <2>2. link[loc'[c].tx] # "new"
    BY <1>1, <1>5, <2>1 DEF Begins, ChannelsBegun
  <2>. QED BY <1>3, <2>1, <2>2
<1>6. ASSUME NEW id \in SubId, subs'[id] # None PROVE link'[subs'[id]] # "new"
  <2>1. CASE subs'[id] = subs[id]
    BY <1>2, <1>3, <1>6, <2>1 DEF ChannelsBegun, SomeConn
  <2>2. CASE subs'[id] # subs[id]
    <3>1. ASSUME NEW c \in Conn, Insert(c) PROVE link'[subs'[id]] # "new"
      <4>1. subs'[id] = loc[c].tx /\ pc[c] = "insert" /\ loc[c].tx \in Conn
        BY <1>2, <2>2, <3>1 DEF Insert, TypeOK, LocalsOK, LocalOK
      <4>. QED BY <1>3, <4>1 DEF ChannelsBegun
    <3>2. ASSUME NEW c \in Conn, NEW u \in UiSource, UiSubscribe(c, u)
          PROVE  link'[subs'[id]] # "new"
      <4>1. subs'[id] = c /\ link[c] = "up"
        BY <1>2, <2>2, <3>2 DEF UiSubscribe, Issue, Ready
      <4>. QED BY <1>3, <4>1
    <3>3. ASSUME NEW ids, RemoveIds(ids) PROVE FALSE
      BY <1>6, <2>2, <3>3 DEF RemoveIds
    <3>. QED BY <2>2, <3>1, <3>2, <3>3, InnerSteps
             DEF innerVars, PruneDead, RmSubs, Unsubscribe, UiUnsubscribe
  <2>. QED BY <2>1, <2>2
<1>. QED BY <1>4, <1>5, <1>6 DEF ChannelsBegun

\* The steps that neither offer, nor cache, nor bind a channel to a topic.
Quiet ==
  /\ \A c \in Conn : pc[c] \in {"fanout", "replay", "send"}
                       => pc'[c] = pc[c] /\ loc'[c] = loc[c]
  /\ \A id \in SubId : id.on \in Topic =>
       subs'[id] = None \/ (subs'[id] = subs[id] /\ outcome[id] \subseteq outcome'[id])
  /\ \A c \in Conn : open'[c] => open[c] \/ link[c] = "new"

LEMMA QuietSteps ==
  ASSUME TypeOK, [Next]_vars
  PROVE  \/ \E c \in Conn, t \in Topic, ns \in Filter, r \in BOOLEAN :
              Publish(c, t, ns, r)
         \/ \E c \in Conn : Insert(c) \/ FanOut(c) \/ Replay(c) \/ Send(c)
         \/ Quiet
<1>. DEFINE Owing(p) == pc[p] \in {"fanout", "replay", "send"}
            Tables == \A id \in SubId : id.on \in Topic =>
                        \/ subs'[id] = None
                        \/ subs'[id] = subs[id] /\ outcome[id] \subseteq outcome'[id]
            Opens == \A c \in Conn : open'[c] => open[c] \/ link[c] = "new"
<1>0. Conn \subseteq Proc /\ Janitor \in Proc /\ Janitor \notin Conn
  BY BrokerAssumption DEF Proc
<1>1. ASSUME UNCHANGED <<pc, loc>>, Tables, Opens PROVE Quiet
  BY <1>1 DEF Quiet
<1>2. ASSUME NEW p, TaskMove(p), ~Owing(p), Tables, Opens PROVE Quiet
  BY <1>2 DEF TaskMove, Quiet
<1>3. ASSUME UNCHANGED <<subs, outcome>> PROVE Tables
  BY <1>3
<1>4. ASSUME NEW ids, RemoveIds(ids) PROVE Tables
  BY <1>4 DEF RemoveIds
<1>5. ASSUME NEW c \in Conn, Connect(c) \/ WriterStops(c) PROVE Quiet
  <2>1. Opens
    BY <1>5 DEF Connect, WriterStops, TypeOK, Types
  <2>. QED BY <1>1, <1>3, <1>5, <2>1 DEF Connect, WriterStops, innerVars, histVars
<1>6. ASSUME NEW c \in Conn, NEW s \in Service, Register(c, s) PROVE Quiet
  BY <1>1, <1>3, <1>6 DEF Register, innerVars, histVars
<1>7. ASSUME NEW c \in Conn, Deregister(c) \/ Disconnect(c) PROVE Quiet
  <2>1. TaskMove(c) /\ ~Owing(c)
    BY <1>0, <1>7, GotoMoves DEF Deregister, Disconnect, Issue, Ready
  <2>. QED BY <1>2, <1>3, <1>7, <2>1 DEF Deregister, Disconnect, innerVars, histVars
<1>8. ASSUME NEW c \in Conn, \/ \E t \in Topic : Subscribe(c, t)
                             \/ \E t \in Topic, s \in Service, ns \in Namespace :
                                  SubscribeGrant(c, t, s, ns)
                             \/ \E t \in Topic, n \in BOOLEAN : Clear(c, t, n)
      PROVE  Quiet
  <2>1. TaskMove(c) /\ ~Owing(c)
    BY <1>0, <1>8, GotoMoves DEF Subscribe, SubscribeGrant, Clear, Issue, Ready
  <2>. QED BY <1>2, <1>3, <1>8, <2>1
           DEF Subscribe, SubscribeGrant, Clear, connVars, innerVars, histVars
<1>9. ASSUME NEW c \in Conn, NEW t \in Topic, Unsubscribe(c, t) PROVE Quiet
  <2>1. TaskMove(c) /\ ~Owing(c)
    BY <1>0, <1>9, GotoMoves DEF Unsubscribe, Issue, Ready
  <2>. QED BY <1>2, <1>4, <1>9, <2>1 DEF Unsubscribe, connVars
<1>10. ASSUME NEW c \in Conn, NEW u \in UiSource, UiSubscribe(c, u) PROVE Quiet
  <2>1. UiId(c, u).on \notin Topic
    BY BrokerAssumption DEF UiId
  <2>2. Tables
    BY <1>10, <2>1 DEF UiSubscribe, histVars, TypeOK, Types
  <2>. QED BY <1>1, <1>10, <2>2 DEF UiSubscribe, connVars
<1>11. ASSUME NEW c \in Conn, NEW u \in UiSource, UiUnsubscribe(c, u) PROVE Quiet
  BY <1>1, <1>4, <1>11 DEF UiUnsubscribe, connVars
<1>12. ASSUME NEW p \in Proc, Prune(p) PROVE Quiet
  <2>1. TaskMove(p) /\ ~Owing(p)
    BY <1>12, GotoMoves, ReturnMoves DEF Prune
  <2>. QED BY <1>2, <1>4, <1>12, <2>1 DEF Prune, PruneDead, connVars
<1>13. ASSUME NEW p \in Proc, IdleNotes(p) \/ Dispatch(p) PROVE Quiet
  <2>1. TaskMove(p) /\ ~Owing(p)
    BY <1>13, GotoMoves, ReturnMoves DEF IdleNotes, Dispatch
  <2>. QED BY <1>2, <1>3, <1>13, <2>1 DEF IdleNotes, Dispatch, connVars, innerVars, histVars
<1>14. ASSUME NEW c \in Conn, SelfPrune(c) \/ RmSubs(c) PROVE Quiet
  <2>1. TaskMove(c) /\ ~Owing(c)
    BY <1>0, <1>14, GotoMoves DEF SelfPrune, RmSubs
  <2>. QED BY <1>2, <1>4, <1>14, <2>1 DEF SelfPrune, PruneDead, RmSubs, connVars
<1>15. ASSUME NEW c \in Conn, Unregister(c) PROVE Quiet
  <2>1. TaskMove(c) /\ ~Owing(c)
    BY <1>0, <1>15, GotoMoves DEF Unregister
  <2>2. Opens
    BY <1>15 DEF Unregister, TypeOK, Types
  <2>. QED BY <1>2, <1>3, <1>15, <2>1, <2>2 DEF Unregister, innerVars, histVars
<1>21. ASSUME NEW c \in Conn, ClearFan(c) PROVE Quiet
  <2>1. TaskMove(c) /\ ~Owing(c)
    BY <1>0, <1>21, GotoMoves, ReturnMoves DEF ClearFan
  <2>2. Tables
    BY <1>21 DEF ClearFan, innerVars
  <2>. QED BY <1>2, <1>21, <2>1, <2>2 DEF ClearFan, connVars
<1>16. ASSUME NEW c \in Conn, \/ Lookup(c) \/ Recheck(c)
                              \/ UnsubIdle(c) \/ RmTopics(c) \/ RmIdle(c)
       PROVE  Quiet
  <2>1. TaskMove(c) /\ ~Owing(c)
    BY <1>0, <1>16, GotoMoves, ReturnMoves
       DEF Lookup, Recheck, UnsubIdle, RmTopics, RmIdle
  <2>. QED BY <1>2, <1>3, <1>16, <2>1
           DEF Lookup, Recheck, UnsubIdle, RmTopics, RmIdle,
               connVars, innerVars, histVars
<1>17. ASSUME JanitorSweep \/ JanitorCount \/ JanitorRetain PROVE Quiet
  <2>1. TaskMove(Janitor) /\ ~Owing(Janitor)
    BY <1>0, <1>17, GotoMoves, ReturnMoves DEF JanitorSweep, JanitorCount, JanitorRetain
  <2>. QED BY <1>2, <1>3, <1>17, <2>1
           DEF JanitorSweep, JanitorCount, JanitorRetain, connVars, innerVars, histVars
<1>18. ASSUME NEW s \in Service, PruneRoute(s) PROVE Quiet
  BY <1>1, <1>3, <1>18 DEF PruneRoute, innerVars, histVars
<1>19. ASSUME NEW t \in Topic, Expire(t) PROVE Quiet
  BY <1>1, <1>3, <1>19 DEF Expire, connVars, innerVars, histVars
<1>20. ASSUME UNCHANGED vars PROVE Quiet
  BY <1>1, <1>3, <1>20 DEF vars
<1>. QED BY <1>0, <1>5, <1>6, <1>7, <1>8, <1>9, <1>10, <1>11, <1>12, <1>13, <1>14,
            <1>15, <1>16, <1>17, <1>18, <1>19, <1>20, <1>21
         DEF Next, Command, Continue, JanitorStep

LEMMA NoLostStep ==
  ASSUME TypeOK, ChannelsBegun, NoLostUpdate, [Next]_vars
  PROVE  NoLostUpdate'
<1>. DEFINE Due(id, n) ==
              \/ \E c \in Conn : pc'[c] = "fanout" /\ loc'[c].pub = n
              \/ \E c \in Conn : /\ loc'[c].id = id /\ loc'[c].tx = subs'[id]
                                 /\ \/ pc'[c] = "replay"
                                    \/ pc'[c] = "send" /\ loc'[c].pub = n
            Told(id, n) ==
              \/ [how |-> "offered", pub |-> n] \in outcome'[id]
              \/ /\ pubs'[n].tx \in Native
                 /\ [how |-> "withheld", pub |-> n] \in outcome'[id]
<1>. SUFFICES ASSUME NEW id \in SubId, id.on \in Topic, subs'[id] # None, open'[subs'[id]],
                     topics'[id.on] # None, topics'[id.on].snap # 0,
                     Matches(id, pubs'[topics'[id.on].snap].ns)
              PROVE  \/ Told(id, topics'[id.on].snap)
                     \/ Due(id, topics'[id.on].snap)
  BY DEF NoLostUpdate, Matches, Owed, Live, Settled
<1>. DEFINE k == topics[id.on].snap
<1>0. /\ subs \in [SubId -> SomeConn] /\ open \in [Conn -> BOOLEAN]
      /\ outcome \in [SubId -> SUBSET Outcome] /\ Conn \subseteq Proc /\ None \notin Conn
      /\ subs'[id] \in Conn /\ open'[subs'[id]]
  BY BrokerAssumption, TypeStep DEF TypeOK, Types, Proc, Live, SomeConn
<1>1. topics[id.on] # None => /\ k \in 0 .. Len(pubs)
                              /\ k # 0 => pubs[k].topic = id.on
  BY DEF TypeOK, SnapshotsOK
\* What the invariant says of the state before the step.
<1>2. ASSUME Live(subs[id]), topics[id.on] # None, k # 0, Matches(id, pubs[k].ns)
      PROVE  Settled(id, k) \/ Owed(id, k)
  BY <1>2 DEF NoLostUpdate
\* What is settled stays settled.
<1>6. ASSUME Settled(id, k), outcome[id] \subseteq outcome'[id], pubs'[k] = pubs[k]
      PROVE  Told(id, k)
  BY <1>6 DEF Settled
\* A task that owes and does not move still owes.
<1>3. ASSUME NEW c \in Conn, pc'[c] = pc[c], loc'[c] = loc[c], subs'[id] = subs[id],
             \/ pc[c] = "fanout" /\ loc[c].pub = k
             \/ /\ loc[c].id = id /\ loc[c].tx = subs[id]
                /\ pc[c] = "replay" \/ (pc[c] = "send" /\ loc[c].pub = k)
      PROVE  Due(id, k)
  BY <1>3
<1>4. ASSUME NEW c \in Conn, NEW t \in Topic, NEW ns \in Filter, NEW r \in BOOLEAN,
             Publish(c, t, ns, r)
      PROVE  Told(id, topics'[id.on].snap) \/ Due(id, topics'[id.on].snap)
  <2>. DEFINE n == Len(pubs) + 1
  <2>1. pc[c] = "idle" /\ UNCHANGED <<subs, outcome, open>>
    BY <1>4 DEF Publish, Issue, Ready, connVars, innerVars
  <2>2. TaskMove(c) /\ pc'[c] = "fanout" /\ loc'[c].pub = n
    <3>. DEFINE l == [Clean EXCEPT !.pub = n]
    <3>1. Goto(c, "fanout", l) /\ l.pub = n
      BY <1>4 DEF Publish, Clean
    <3>. HIDE DEF l
    <3>. QED BY <1>0, <3>1, GotoMoves
  <2>3. CASE t = id.on /\ topics'[t].snap = n
    BY <2>2, <2>3
  <2>4. CASE topics[id.on] # None /\ topics'[id.on].snap = k
    <3>1. Live(subs[id])
      BY <2>1 DEF Live
    <3>2. pubs'[k] = pubs[k]
      BY <1>1, <1>4, <2>4, PublishEffect DEF TypeOK, Types
    <3>3. Settled(id, k) \/ Owed(id, k)
      BY <1>2, <2>4, <3>1, <3>2
    <3>. QED BY <1>3, <1>6, <2>1, <2>2, <2>4, <3>2, <3>3 DEF Owed, TaskMove
  <2>. QED BY <1>4, <2>3, <2>4, PublishEffect
<1>5. CASE ~ \E c \in Conn, t \in Topic, ns \in Filter, r \in BOOLEAN : Publish(c, t, ns, r)
  <2>1. /\ pubs' = pubs /\ topics[id.on] # None
        /\ topics'[id.on].snap = k /\ k # 0 /\ Matches(id, pubs[k].ns)
    BY <1>5, TopicSteps DEF KeptOrGone, TopicMove
  <2>2. CASE Quiet
    <3>1. subs'[id] = subs[id] /\ outcome[id] \subseteq outcome'[id]
      BY <1>0, <2>2 DEF Quiet
    <3>2. Live(subs[id])
      BY <1>0, <2>2, <3>1 DEF Quiet, Live, ChannelsBegun
    <3>3. Settled(id, k) \/ Owed(id, k)
      BY <1>2, <2>1, <3>2
    <3>. QED BY <1>3, <1>6, <2>1, <2>2, <3>1, <3>3 DEF Owed, Quiet
  <2>3. ASSUME NEW c \in Conn, Insert(c)
        PROVE  Told(id, k) \/ Due(id, k)
    <3>. DEFINE l == [loc[c] EXCEPT !.first = TopicSubs(loc[c].id.on) = {}]
    <3>1. loc[c] \in Locals /\ pc[c] = "insert" /\ loc[c].id \in SubId
      BY <1>0, <2>3 DEF Insert, TypeOK, Types, LocalsOK, LocalOK
    <3>2. l.id = loc[c].id /\ l.tx = loc[c].tx
      BY <3>1 DEF Locals
    <3>3. Goto(c, "replay", l) /\ UNCHANGED open
      BY <2>3 DEF Insert, connVars
    <3>4. TaskMove(c) /\ pc'[c] = "replay" /\ loc'[c] = l
      BY <1>0, <3>3, GotoMoves
    <3>5. CASE loc[c].id = id
      <4>1. subs'[id] = loc[c].tx
        BY <1>0, <2>3, <3>5 DEF Insert
      <4>. QED BY <3>2, <3>4, <3>5, <4>1
    <3>6. CASE loc[c].id # id
      <4>1. subs'[id] = subs[id] /\ outcome'[id] = outcome[id]
        BY <1>0, <2>3, <3>6 DEF Insert
      <4>2. Settled(id, k) \/ Owed(id, k)
        BY <1>2, <2>1, <3>3, <4>1 DEF Live
      <4>. QED BY <1>3, <1>6, <2>1, <3>1, <3>4, <4>1, <4>2 DEF Owed, TaskMove
    <3>. QED BY <3>5, <3>6
  <2>4. ASSUME NEW c \in Conn, FanOut(c) \/ Replay(c) \/ Send(c)
        PROVE  Told(id, k) \/ Due(id, k)
    <3>1. UNCHANGED <<subs, open, topics>>
      BY <2>4 DEF FanOut, Replay, Send, connVars, innerVars
    <3>2. outcome[id] \subseteq outcome'[id]
      <4>1. CASE FanOut(c)
        BY <4>1, FanOutEffect
      <4>2. CASE Replay(c)
        BY <4>2 DEF Replay, histVars
      <4>3. CASE Send(c)
        BY <1>0, <4>3 DEF Send
      <4>. QED BY <2>4, <4>1, <4>2, <4>3
    <3>3. TaskMove(c)
      BY <1>0, <2>4, GotoMoves, ReturnMoves DEF FanOut, Replay, Send
    <3>4. Live(subs[id]) /\ subs[id] # None
      BY <3>1 DEF Live
    <3>5. Settled(id, k) \/ Owed(id, k)
      BY <1>2, <2>1, <3>4
    <3>6. CASE pc[c] = "fanout" /\ loc[c].pub = k
      <4>1. FanOut(c)
        BY <2>4, <3>6 DEF Replay, Send
      <4>2. id \in TopicSubs(pubs[k].topic) /\ ~Dead(id)
        BY <1>1, <2>1, <3>4 DEF TopicSubs, Dead, Live
      <4>3. id \in Reachable(k)
        BY <2>1, <4>2 DEF Reachable
      <4>4. \E how : /\ how = "offered" \/ (how = "withheld" /\ pubs[k].tx \in Native)
                     /\ outcome'[id] = outcome[id] \cup {[how |-> how, pub |-> k]}
        <5>1. PICK h : /\ outcome' = [i \in SubId |->
                              IF i \notin Reachable(k) THEN outcome[i]
                              ELSE outcome[i] \cup {[how |-> h[i], pub |-> k]}]
                       /\ \A i \in SubId : \/ h[i] = "offered"
                                           \/ h[i] = "withheld" /\ pubs[k].tx \in Native
          BY <3>6, <4>1, FanOutEffect
        <5>. QED BY <4>3, <5>1
      <4>. QED BY <2>1, <4>4
    <3>7. CASE pc[c] = "replay" /\ loc[c].id = id /\ loc[c].tx = subs[id]
      <4>1. Replay(c)
        BY <2>4, <3>7 DEF FanOut, Send
      <4>2. PICK ns : Goto(c, "send", [loc[c] EXCEPT !.pub = k, !.notices = ns])
        BY <2>1, <3>7, <4>1 DEF Replay
      <4>. DEFINE l == [loc[c] EXCEPT !.pub = k, !.notices = ns]
      <4>3. l.id = id /\ l.tx = subs[id] /\ l.pub = k
        BY <1>0, <3>7 DEF TypeOK, Types, Locals
      <4>4. pc'[c] = "send" /\ loc'[c] = l
        BY <1>0, <4>2, GotoMoves
      <4>. QED BY <3>1, <4>3, <4>4
    <3>8. CASE pc[c] = "send" /\ loc[c].id = id /\ loc[c].tx = subs[id] /\ loc[c].pub = k
      <4>1. Send(c)
        BY <2>4, <3>8 DEF FanOut, Replay
      <4>. QED BY <1>0, <3>4, <3>8, <4>1 DEF Send, Live
    <3>. QED BY <1>3, <1>6, <2>1, <3>1, <3>2, <3>3, <3>5, <3>6, <3>7, <3>8 DEF Owed, TaskMove
  <2>. QED BY <1>5, <2>1, <2>2, <2>3, <2>4, QuietSteps
<1>. QED BY <1>4, <1>5

\* The latest-value guarantee: in every interleaving, the cached snapshot has
\* been offered to each live subscription it matches or a task is about to, save
\* where its own fan-out passed the subscription over for its native session.
THEOREM NothingLost == Spec => []NoLostUpdate
<1>1. Init => ChannelsBegun /\ NoLostUpdate
  BY DEF Init, ChannelsBegun, NoLostUpdate, Live, Proc
<1>2. TypeOK /\ ChannelsBegun /\ [Next]_vars => ChannelsBegun'
  BY BegunStep
<1>3. TypeOK /\ ChannelsBegun /\ NoLostUpdate /\ [Next]_vars => NoLostUpdate'
  BY NoLostStep
<1>. QED BY <1>1, <1>2, <1>3, TypeCorrect, PTL DEF Spec
=============================================================================
