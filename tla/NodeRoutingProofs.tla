-------------------------- MODULE NodeRoutingProofs --------------------------
(* Proofs about NodeRouting, for any connections, names, request ids and casts. *)
EXTENDS NodeRouting, SequenceTheorems, FiniteSetTheorems, WellFoundedInduction, TLAPS

-----------------------------------------------------------------------------
(* Positions of a list, for the taps *)

\* A set of natural numbers has a least element.
LEMMA LeastNat ==
  ASSUME NEW T \in SUBSET Nat, T # {}
  PROVE  \E m \in T : \A k \in T : m <= k
<1> DEFINE R == {ss \in Nat \X Nat : ss[1] < ss[2]}
<1>1. IsWellFoundedOn(R, Nat)
  BY NatLessThanWellFounded DEF OpToRel
<1>2. \E x \in T : \A y \in T : ~(<<y, x>> \in R)
  <2> HIDE DEF R
  <2>. QED BY <1>1, WFMin
<1>3. PICK x \in T : \A y \in T : ~(<<y, x>> \in R)
  BY <1>2
<1>4. ASSUME NEW y \in T PROVE x <= y
  <2>1. <<y, x>> \in Nat \X Nat
    OBVIOUS
  <2>2. ~(y < x)
    BY <1>3, <2>1
  <2>. QED BY <2>2
<1>. QED BY <1>4

Increasing(f) == \A i, j \in DOMAIN f : i < j => f[i] < f[j]

LEMMA SubsetFinite ==
  ASSUME NEW n \in Nat, NEW S \in SUBSET (1 .. n)
  PROVE  IsFiniteSet(S) /\ Cardinality(S) \in Nat /\ Cardinality(S) <= n
<1>1. IsFiniteSet(1 .. n) /\ Cardinality(1 .. n) = n
  <2>1. n = 0 \/ 1 <= n
    OBVIOUS
  <2>. QED BY <2>1, FS_Interval
<1>2. IsFiniteSet(S) /\ Cardinality(S) <= Cardinality(1 .. n)
  BY <1>1, FS_Subset
<1>. QED BY <1>1, <1>2, FS_CardinalityType

\* The places of a list can be put in order: if some set of places could not,
\* take one with the smallest bound, and leave out its last place.
LEMMA PlacesEnumerated ==
  ASSUME NEW n \in Nat, NEW S \in SUBSET (1 .. n)
  PROVE  \E f \in [1 .. Cardinality(S) -> S] : Increasing(f)
<1> DEFINE Fails(m) == \E P \in SUBSET (1 .. m) : ~ \E f \in [1 .. Cardinality(P) -> P] : Increasing(f)
           T == {m \in Nat : Fails(m)}
<1> SUFFICES ASSUME T # {} PROVE FALSE
  OBVIOUS
<1>1. PICK m \in T : \A k \in T : m <= k
  <2>1. T \in SUBSET Nat
    OBVIOUS
  <2> HIDE DEF T
  <2>. QED BY <2>1, LeastNat
<1>2. PICK P \in SUBSET (1 .. m) : ~ \E f \in [1 .. Cardinality(P) -> P] : Increasing(f)
  BY <1>1
<1>3. IsFiniteSet(P) /\ Cardinality(P) \in Nat
  BY <1>1, SubsetFinite
<1>4. CASE m = 0
  <2>0. 1 .. m = {}
    BY <1>4
  <2>1. P = {} /\ Cardinality(P) = 0
    BY <2>0, FS_EmptySet
  <2>2. 1 .. Cardinality(P) = {}
    BY <2>1
  <2> DEFINE f == [i \in {} |-> 0]
  <2>3. f \in [1 .. Cardinality(P) -> P] /\ Increasing(f)
    BY <2>2 DEF Increasing
  <2>. QED BY <2>3, <1>2
<1>5. CASE m # 0
  <2>0. m \in Nat /\ m - 1 \in Nat /\ ~(m <= m - 1)
    BY <1>5
  <2>1. m - 1 \in Nat /\ m - 1 \notin T /\ m \in Nat
    <3> HIDE DEF T
    <3>. QED BY <2>0, <1>1
  <2>2. m \in P
    <3>1. ASSUME m \notin P PROVE P \in SUBSET (1 .. m - 1)
      BY <2>1, <3>1
    <3>. QED BY <1>2, <2>1, <3>1
  <2> DEFINE Q == P \ {m}
  <2>3. Q \in SUBSET (1 .. m - 1) /\ P = Q \cup {m} /\ m \notin Q
    BY <2>1, <2>2
  <2>4. PICK g \in [1 .. Cardinality(Q) -> Q] : Increasing(g)
    BY <2>1, <2>3
  <2>5. IsFiniteSet(Q) /\ Cardinality(Q) \in Nat
    BY <2>1, <2>3, SubsetFinite
  <2> HIDE DEF Q
  <2>6. Cardinality(P) = Cardinality(Q) + 1
    BY <2>3, <2>5, FS_AddElement
  <2> DEFINE c == Cardinality(P)
             f == [i \in 1 .. c |-> IF i = c THEN m ELSE g[i]]
  <2>7. \A i \in 1 .. c : i # c => i \in 1 .. Cardinality(Q)
    BY <2>5, <2>6
  <2>8. f \in [1 .. c -> P]
    BY <2>3, <2>4, <2>7
  <2>9. ASSUME NEW i \in 1 .. c, NEW j \in 1 .. c, i < j PROVE f[i] < f[j]
    <3>1. i # c /\ i \in 1 .. Cardinality(Q)
      BY <1>3, <2>7, <2>9
    <3>2. g[i] \in Q /\ f[i] = g[i]
      BY <2>4, <3>1
    <3>3. CASE j = c
      <4>1. f[j] = m /\ g[i] \in 1 .. m - 1
        BY <2>3, <3>2, <3>3
      <4>2. g[i] < m
        BY <2>1, <4>1
      <4>. QED BY <3>2, <4>1, <4>2
    <3>4. CASE j # c
      <4>1. j \in 1 .. Cardinality(Q) /\ f[j] = g[j]
        BY <2>7, <3>4
      <4>. QED BY <2>4, <2>9, <3>1, <3>2, <4>1 DEF Increasing
    <3>. QED BY <3>3, <3>4
  <2>10. Increasing(f)
    BY <2>9 DEF Increasing
  <2>. QED BY <1>2, <2>8, <2>10
<1>. QED BY <1>4, <1>5

LEMMA TapsWithoutType ==
  ASSUME taps \in Seq(Conn), Len(taps) <= MaxTaps, NEW D
  PROVE  TapsWithout(D) \in Seq(Conn) /\ Len(TapsWithout(D)) <= MaxTaps
<1> DEFINE kept == DOMAIN taps \ D
           n == Cardinality(kept)
<1>1. Len(taps) \in Nat /\ DOMAIN taps = 1 .. Len(taps) /\ kept \in SUBSET (1 .. Len(taps))
      /\ \A i \in 1 .. Len(taps) : taps[i] \in Conn
  BY LenProperties, ElementOfSeq
<1>2. n \in Nat /\ n <= Len(taps) /\ MaxTaps \in Nat
  BY <1>1, SubsetFinite, RoutingAssumption
<1>3. InOrder(kept) \in [1 .. n -> kept]
  <2>1. \E f \in [1 .. n -> kept] : Increasing(f)
    BY <1>1, PlacesEnumerated
  <2>. QED BY <2>1 DEF InOrder, Increasing
<1>4. TapsWithout(D) = [k \in 1 .. n |-> taps[InOrder(kept)[k]]]
  BY DEF TapsWithout
<1> HIDE DEF kept, n
<1>5. [k \in 1 .. n |-> taps[InOrder(kept)[k]]] \in [1 .. n -> Conn]
  BY <1>1, <1>3
<1> DEFINE q == TapsWithout(D)
<1>6. q \in Seq(Conn)
  BY <1>2, <1>4, <1>5
<1>7. Len(q) = n
  BY <1>2, <1>4, <1>6, LenProperties
<1>. QED BY <1>1, <1>2, <1>6, <1>7

-----------------------------------------------------------------------------
(* Types *)

LEMMA CleanLocals ==
  /\ Clean \in Locals
  /\ \A x \in Service \cup {None} : [Clean EXCEPT !.svc = x] \in Locals
  /\ \A x \in SUBSET (1 .. MaxTaps) : [Clean EXCEPT !.dead = x] \in Locals
  /\ \A x \in Service, y \in RequestId \cup {None}, z \in SomeConn :
       [Clean EXCEPT !.svc = x, !.id = y, !.target = z] \in Locals
  /\ \A x \in [caller : Conn, id : RequestId], y \in Request \cup {None} :
       [Clean EXCEPT !.entry = x, !.to = y] \in Locals
BY DEF Clean, Locals, SomeConn, BrokerId

LEMMA EditLocals ==
  ASSUME NEW l \in Locals
  PROVE  /\ \A x \in BrokerId : [l EXCEPT !.bid = x] \in Locals
         /\ [l EXCEPT !.target = None] \in Locals
BY DEF Locals, SomeConn

\* What a task at a label is about to read is set.
TaskOK(label, l) ==
  /\ label \in {"pend", "attempt", "dropRoute"} => l.svc # None /\ l.target # None
  /\ label = "pend" => l.bid = 0
  /\ label \in {"attempt", "dropRoute", "takeBack"} => (l.id = None <=> l.bid = 0)
  /\ label = "reply" => l.entry # None
  /\ label = "prune" => l.dead # {}

TasksOK ==
  /\ pc \in [Conn -> PC] /\ loc \in [Conn -> Locals]
  /\ \A c \in Conn : TaskOK(pc[c], loc[c])

TablesOK ==
  /\ open \subseteq Conn /\ name \in [Conn -> Service \cup {None}]
  /\ registry \in [Service -> SomeConn]
  /\ nextId \in Nat \ {0} /\ DOMAIN pending \subseteq 1 .. nextId - 1
  /\ \A b \in DOMAIN pending : pending[b] \in Entry
  /\ taps \in Seq(Conn) /\ Len(taps) <= MaxTaps

SessionsOK ==
  /\ role \in Cast
  /\ live \subseteq role.gated /\ closing \subseteq role.gated /\ victims \subseteq role.gated
  /\ drained \in victims \cup {None}

HistoryOK ==
  /\ asked \subseteq Request /\ addressee \in [Request -> SomeConn]
  /\ inbox \in [Conn -> SUBSET (BrokerId \X Request)]
  /\ replies \in [Request -> Seq(Reply)]
  /\ retired \subseteq Conn

LEMMA TypeParts == TypeOK <=> TasksOK /\ TablesOK /\ SessionsOK /\ HistoryOK
BY DEF TypeOK, TasksOK, TaskOK, TablesOK, SessionsOK, HistoryOK

LEMMA TypePartsPrime == TypeOK' <=> TasksOK' /\ TablesOK' /\ SessionsOK' /\ HistoryOK'
BY DEF TypeOK, TasksOK, TaskOK, TablesOK, SessionsOK, HistoryOK

LEMMA GotoOK ==
  ASSUME TasksOK, NEW c \in Conn, NEW label \in PC, NEW l \in Locals, TaskOK(label, l),
         Goto(c, label, l)
  PROVE  TasksOK'
<1>1. pc' = [pc EXCEPT ![c] = label] /\ loc' = [loc EXCEPT ![c] = l]
  BY DEF Goto
<1>2. pc' \in [Conn -> PC] /\ loc' \in [Conn -> Locals]
  BY <1>1 DEF TasksOK
<1>3. ASSUME NEW d \in Conn PROVE TaskOK(pc'[d], loc'[d])
  <2>1. CASE d = c
    BY <1>1, <2>1 DEF TasksOK
  <2>2. CASE d # c
    BY <1>1, <2>2 DEF TasksOK
  <2>. QED BY <2>1, <2>2
<1>. QED BY <1>2, <1>3 DEF TasksOK

LEMMA DoneOK == ASSUME TasksOK, NEW c \in Conn, Done(c) PROVE TasksOK'
<1>1. TaskOK("idle", Clean) /\ "idle" \in PC
  BY DEF TaskOK, PC
<1>. QED BY <1>1, GotoOK, CleanLocals DEF Done

LEMMA SameTasks == ASSUME TasksOK, UNCHANGED taskVars PROVE TasksOK'
BY DEF TasksOK, taskVars

LEMMA SameSessions == ASSUME SessionsOK, UNCHANGED <<role, reloadVars>> PROVE SessionsOK'
BY DEF SessionsOK, reloadVars

LEMMA SameHistory ==
  ASSUME HistoryOK, UNCHANGED histVars, retired' \subseteq Conn PROVE HistoryOK'
BY DEF HistoryOK, histVars

LEMMA SameTables ==
  ASSUME TablesOK, UNCHANGED <<pending, nextId, taps>>, open' \subseteq Conn,
         name' \in [Conn -> Service \cup {None}], registry' \in [Service -> SomeConn]
  PROVE  TablesOK'
BY DEF TablesOK

LEMMA ReleasedType ==
  ASSUME registry \in [Service -> SomeConn], NEW s, NEW c
  PROVE  Released(s, c) \in [Service -> SomeConn]
BY DEF Released, SomeConn

LEMMA WithoutOK ==
  ASSUME TablesOK, NEW B, pending' = Without(B), UNCHANGED <<open, name, nextId, taps, registry>>
  PROVE  TablesOK'
<1>1. DOMAIN pending' = DOMAIN pending \ B /\ \A b \in DOMAIN pending' : pending'[b] = pending[b]
  BY DEF Without
<1>. QED BY <1>1 DEF TablesOK

LEMMA DeliverOK ==
  ASSUME HistoryOK, NEW r \in Request, NEW m \in Reply, Deliver(r, m)
  PROVE  replies' \in [Request -> Seq(Reply)]
<1>1. CASE replies' = [replies EXCEPT ![r] = Append(@, m)]
  <2>1. replies[r] \in Seq(Reply)
    BY DEF HistoryOK
  <2>2. Append(replies[r], m) \in Seq(Reply)
    BY <2>1, AppendProperties
  <2>. QED BY <1>1, <2>2 DEF HistoryOK
<1>2. CASE UNCHANGED replies
  BY <1>2 DEF HistoryOK
<1>. QED BY <1>1, <1>2 DEF Deliver

LEMMA ErrorReplyType == ErrorReply \in Reply
BY DEF ErrorReply, Reply, SomeConn

LEMMA TypeInit == Init => TypeOK
<1> SUFFICES ASSUME Init PROVE TypeOK
  OBVIOUS
<1>1. TasksOK
  BY CleanLocals DEF Init, TasksOK, TaskOK, PC
<1>2. TablesOK
  BY RoutingAssumption DEF Init, TablesOK, SomeConn
<1>3. SessionsOK
  BY DEF Init, SessionsOK
<1>4. HistoryOK
  BY DEF Init, HistoryOK, SomeConn
<1>. QED BY <1>1, <1>2, <1>3, <1>4, TypeParts

LEMMA TypeStep == TypeOK /\ [Next]_vars => TypeOK'
<1> SUFFICES ASSUME TypeOK, [Next]_vars PROVE TypeOK'
  OBVIOUS
<1>0. TasksOK /\ TablesOK /\ SessionsOK /\ HistoryOK
  BY TypeParts
<1>t. /\ open \subseteq Conn /\ name \in [Conn -> Service \cup {None}]
      /\ registry \in [Service -> SomeConn] /\ retired \subseteq Conn
  BY <1>0 DEF TablesOK, HistoryOK
<1>l. \A c \in Conn : loc[c] \in Locals /\ pc[c] \in PC /\ TaskOK(pc[c], loc[c])
  BY <1>0 DEF TasksOK
<1>1. ASSUME NEW c \in Conn, role' = role, Connect(c) PROVE TypeOK'
  <2>1. TasksOK'
    BY <1>0, <1>1, DoneOK DEF Connect
  <2>2. TablesOK'
    BY <1>0, <1>t, <1>1, SameTables DEF Connect
  <2>3. SessionsOK' /\ HistoryOK'
    BY <1>0, <1>t, <1>1, SameSessions, SameHistory DEF Connect
  <2>. QED BY <2>1, <2>2, <2>3, TypePartsPrime
<1>2. ASSUME NEW c \in Conn, role' = role, WriterStops(c) PROVE TypeOK'
  <2>1. TasksOK' /\ SessionsOK' /\ HistoryOK'
    BY <1>0, <1>t, <1>2, SameTasks, SameSessions, SameHistory DEF WriterStops
  <2>2. TablesOK'
    BY <1>0, <1>t, <1>2, SameTables DEF WriterStops
  <2>. QED BY <2>1, <2>2, TypePartsPrime
<1>3. ASSUME NEW c \in Conn, NEW s \in Service, role' = role, Register(c, s) PROVE TypeOK'
  <2>1. TasksOK'
    BY <1>0, <1>3, SameTasks DEF Register
  <2>2. registry' \in [Service -> SomeConn] /\ name' \in [Conn -> Service \cup {None}]
    <3>1. Released(name[c], c) \in [Service -> SomeConn] /\ c \in SomeConn
      BY <1>t, ReleasedType DEF SomeConn
    <3>. QED BY <1>t, <1>3, <3>1 DEF Register
  <2>3. TablesOK'
    BY <1>0, <1>t, <1>3, <2>2, SameTables DEF Register
  <2>4. SessionsOK'
    BY <1>0, <1>3 DEF Register, SessionsOK
  <2>5. HistoryOK'
    BY <1>0, <1>t, <1>3, SameHistory DEF Register
  <2>. QED BY <2>1, <2>3, <2>4, <2>5, TypePartsPrime
<1>4. ASSUME NEW c \in Conn, role' = role, Deregister(c) PROVE TypeOK'
  <2>1. TasksOK'
    <3>1. CASE name[c] = None
      BY <1>0, <1>4, <3>1, SameTasks DEF Deregister
    <3>2. CASE name[c] # None
      <4>1. [Clean EXCEPT !.svc = name[c]] \in Locals
        BY <1>t, CleanLocals
      <4>2. TaskOK("dereg", [Clean EXCEPT !.svc = name[c]]) /\ "dereg" \in PC
        BY DEF TaskOK, PC
      <4>. QED BY <1>0, <1>4, <3>2, <4>1, <4>2, GotoOK DEF Deregister
    <3>. QED BY <3>1, <3>2
  <2>2. TablesOK'
    <3>1. name' \in [Conn -> Service \cup {None}]
      BY <1>t, <1>4 DEF Deregister
    <3>. QED BY <1>0, <1>t, <1>4, <3>1, SameTables DEF Deregister
  <2>3. retired' \subseteq Conn
    BY <1>t, <1>4 DEF Deregister
  <2>4. SessionsOK' /\ HistoryOK'
    BY <1>0, <1>4, <2>3, SameSessions, SameHistory DEF Deregister
  <2>. QED BY <2>1, <2>2, <2>4, TypePartsPrime
<1>5. ASSUME NEW c \in Conn, role' = role, Deregistered(c) PROVE TypeOK'
  <2>1. TasksOK'
    BY <1>0, <1>5, DoneOK DEF Deregistered
  <2>2. TablesOK'
    <3>1. registry' \in [Service -> SomeConn]
      BY <1>t, <1>5, ReleasedType DEF Deregistered
    <3>. QED BY <1>0, <1>t, <1>5, <3>1, SameTables DEF Deregistered
  <2>3. retired' \subseteq Conn
    BY <1>t, <1>5 DEF Deregistered
  <2>4. SessionsOK' /\ HistoryOK'
    BY <1>0, <1>5, <2>3, SameSessions, SameHistory DEF Deregistered
  <2>. QED BY <2>1, <2>2, <2>4, TypePartsPrime
<1>6. ASSUME NEW c \in Conn, role' = role, TapOn(c) PROVE TypeOK'
  <2>1. TasksOK' /\ SessionsOK' /\ HistoryOK'
    BY <1>0, <1>t, <1>6, SameTasks, SameSessions, SameHistory DEF TapOn
  <2>2. taps \in Seq(Conn) /\ Len(taps) \in Nat /\ Len(taps) < MaxTaps /\ MaxTaps \in Nat
        /\ taps' = Append(taps, c)
    BY <1>0, <1>6, LenProperties, RoutingAssumption DEF TapOn, TablesOK
  <2>3. Append(taps, c) \in Seq(Conn) /\ Len(Append(taps, c)) = Len(taps) + 1
    BY <2>2, AppendProperties
  <2>4. taps' \in Seq(Conn) /\ Len(taps') <= MaxTaps
    BY <2>2, <2>3
  <2>5. TablesOK'
    BY <1>0, <1>6, <2>4 DEF TapOn, TablesOK
  <2>. QED BY <2>1, <2>5, TypePartsPrime
<1>7. ASSUME NEW c \in Conn, NEW s \in Service, NEW i \in RequestId \cup {None}, role' = role,
             Send(c, s, i)
      PROVE  TypeOK'
  <2> DEFINE l == [Clean EXCEPT !.svc = s, !.id = i, !.target = registry[s]]
  <2>1. registry[s] \in SomeConn /\ l \in Locals /\ l.svc = s /\ l.id = i /\ l.target = registry[s]
    BY <1>t, CleanLocals DEF Clean
  <2>2. ASSUME registry[s] = None PROVE TasksOK' /\ replies' \in [Request -> Seq(Reply)]
    <3>1. NotFound(c, l)
      BY <1>7, <2>2 DEF Send
    <3>2. TaskOK("tap", l) /\ "tap" \in PC
      BY DEF TaskOK, PC
    <3>3. TasksOK'
      BY <1>0, <2>1, <3>1, <3>2, GotoOK DEF NotFound
    <3>4. replies' \in [Request -> Seq(Reply)]
      <4>1. CASE i = None
        BY <1>0, <2>1, <3>1, <4>1 DEF NotFound, HistoryOK
      <4>2. CASE i # None
        <5>1. <<c, l.id>> \in Request
          BY <2>1, <4>2 DEF Request
        <5>. QED BY <1>0, <2>1, <3>1, <4>2, <5>1, DeliverOK, ErrorReplyType DEF NotFound
      <4>. QED BY <4>1, <4>2
    <3>. QED BY <3>3, <3>4
  <2>3. ASSUME registry[s] # None PROVE TasksOK' /\ replies' \in [Request -> Seq(Reply)]
    <3>1. Goto(c, "pend", l) /\ replies' = replies
      BY <1>7, <2>3 DEF Send
    <3>2. TaskOK("pend", l) /\ "pend" \in PC
      BY <2>1, <2>3, RoutingAssumption DEF TaskOK, PC, Clean
    <3>3. TasksOK'
      BY <1>0, <2>1, <3>1, <3>2, GotoOK
    <3>. QED BY <1>0, <3>1, <3>3 DEF HistoryOK
  <2>4. TasksOK' /\ replies' \in [Request -> Seq(Reply)]
    BY <2>2, <2>3
  <2>5. TablesOK' /\ SessionsOK'
    BY <1>0, <1>t, <1>7, SameTables, SameSessions DEF Send
  <2>6. asked' \subseteq Request
    BY <1>0, <1>7 DEF Send, HistoryOK, Request
  <2>7. HistoryOK'
    BY <1>0, <1>7, <2>4, <2>6 DEF Send, HistoryOK
  <2>. QED BY <2>4, <2>5, <2>7, TypePartsPrime
<1>8. ASSUME NEW c \in Conn, role' = role, Pend(c) PROVE TypeOK'
  <2> DEFINE l == loc[c]
  <2>1. l \in Locals /\ l.svc # None /\ l.target # None /\ l.bid = 0
        /\ "attempt" \in PC /\ nextId \in BrokerId
    BY <1>0, <1>l, <1>8 DEF Pend, TaskOK, PC, TablesOK, BrokerId
  <2>2. SessionsOK'
    BY <1>0, <1>8, SameSessions DEF Pend
  <2>3. CASE l.id = None
    <3>1. Goto(c, "attempt", l) /\ UNCHANGED <<pending, nextId, addressee>>
      BY <1>8, <2>3 DEF Pend
    <3>5. TaskOK("attempt", l)
      BY <2>1, <2>3 DEF TaskOK
    <3>2. TasksOK'
      BY <1>0, <2>1, <3>1, <3>5, GotoOK
    <3>3. TablesOK'
      BY <1>0, <1>t, <1>8, <3>1, SameTables DEF Pend
    <3>4. HistoryOK'
      BY <1>0, <1>8, <3>1 DEF Pend, HistoryOK
    <3>. QED BY <2>2, <3>2, <3>3, <3>4, TypePartsPrime
  <2>4. CASE l.id # None
    <3> DEFINE e == [caller |-> c, id |-> l.id, responder |-> l.target]
    <3>1. /\ pending' = [k \in DOMAIN pending \cup {nextId} |->
                           IF k = nextId THEN e ELSE pending[k]]
          /\ nextId' = nextId + 1
          /\ addressee' = [addressee EXCEPT ![<<c, l.id>>] = l.target]
          /\ Goto(c, "attempt", [l EXCEPT !.bid = nextId])
      BY <1>8, <2>4 DEF Pend
    <3>2. [l EXCEPT !.bid = nextId] \in Locals
      BY <2>1, EditLocals
    <3>3. TaskOK("attempt", [l EXCEPT !.bid = nextId])
      BY <2>1, <2>4 DEF TaskOK, Locals, BrokerId
    <3>4. TasksOK'
      BY <1>0, <2>1, <3>1, <3>2, <3>3, GotoOK
    <3>5. e \in Entry /\ <<c, l.id>> \in Request /\ l.target \in SomeConn
      BY <2>1, <2>4 DEF Entry, Locals, SomeConn, Request
    <3> HIDE DEF e, l
    <3>6. DOMAIN pending' \subseteq 1 .. nextId' - 1
      <4>1. DOMAIN pending' = DOMAIN pending \cup {nextId}
        BY <3>1
      <4>2. nextId \in Nat \ {0} /\ DOMAIN pending \subseteq 1 .. nextId - 1
        BY <1>0 DEF TablesOK
      <4>. QED BY <3>1, <4>1, <4>2
    <3>7. \A b \in DOMAIN pending' : pending'[b] \in Entry
      BY <1>0, <3>1, <3>5 DEF TablesOK
    <3>8. TablesOK'
      <4>1. UNCHANGED <<open, name, registry, taps>>
        BY <1>8 DEF Pend
      <4>2. nextId' \in Nat \ {0}
        BY <1>0, <3>1 DEF TablesOK
      <4>. QED BY <1>0, <3>6, <3>7, <4>1, <4>2 DEF TablesOK
    <3>9. HistoryOK'
      BY <1>0, <1>8, <3>1, <3>5 DEF HistoryOK, Pend
    <3>. QED BY <2>2, <3>4, <3>8, <3>9, TypePartsPrime
  <2>. QED BY <2>3, <2>4
<1>9. ASSUME NEW c \in Conn, role' = role, Attempt(c) PROVE TypeOK'
  <2> DEFINE l == loc[c]
  <2>1. l \in Locals /\ l.svc # None /\ l.target # None /\ (l.id = None <=> l.bid = 0)
        /\ {"tap", "takeBack", "dropRoute"} \subseteq PC
        /\ TaskOK("tap", l) /\ TaskOK("takeBack", l) /\ TaskOK("dropRoute", l)
    BY <1>l, <1>9 DEF Attempt, TaskOK, PC
  <2>2. TablesOK' /\ SessionsOK'
    BY <1>0, <1>t, <1>9, SameTables, SameSessions DEF Attempt
  <2>3. CASE Enqueue(c, l)
    <3>1. TasksOK'
      BY <1>0, <2>1, <2>3, GotoOK DEF Enqueue
    <3>2. inbox' \in [Conn -> SUBSET (BrokerId \X Request)]
      <4>1. CASE l.id = None
        BY <1>0, <2>3, <4>1 DEF Enqueue, HistoryOK
      <4>2. CASE l.id # None
        <5>1. /\ inbox' = [inbox EXCEPT ![l.target] = @ \cup {<<l.bid, <<c, l.id>>>>}]
          BY <2>3, <4>2 DEF Enqueue
        <5>2. l.target \in Conn /\ l.id \in RequestId
          BY <2>1, <4>2 DEF Locals, SomeConn
        <5>3. <<l.bid, <<c, l.id>>>> \in BrokerId \X Request
          BY <2>1, <4>2, <5>2 DEF Locals, Request
        <5>. QED BY <1>0, <5>1, <5>2, <5>3 DEF HistoryOK
      <4>. QED BY <4>1, <4>2
    <3>3. HistoryOK'
      BY <1>0, <1>9, <3>2 DEF Attempt, HistoryOK
    <3>. QED BY <2>2, <3>1, <3>3, TypePartsPrime
  <2>4. CASE (Goto(c, "takeBack", l) \/ Goto(c, "dropRoute", l)) /\ UNCHANGED inbox
    <3>1. TasksOK'
      BY <1>0, <2>1, <2>4, GotoOK
    <3>2. HistoryOK'
      BY <1>0, <1>9, <2>4 DEF Attempt, HistoryOK
    <3>. QED BY <2>2, <3>1, <3>2, TypePartsPrime
  <2>. QED BY <1>9, <2>3, <2>4 DEF Attempt
<1>10. ASSUME NEW c \in Conn, role' = role, DropRoute(c) PROVE TypeOK'
  <2>1. [loc[c] EXCEPT !.target = None] \in Locals
    BY <1>l, EditLocals
  <2>2. TaskOK("takeBack", [loc[c] EXCEPT !.target = None]) /\ "takeBack" \in PC
    BY <1>l, <1>10 DEF TaskOK, PC, DropRoute, Locals
  <2>3. TasksOK'
    BY <1>0, <1>10, <2>1, <2>2, GotoOK DEF DropRoute
  <2>4. registry' \in [Service -> SomeConn]
    BY <1>t, <1>10, ReleasedType DEF DropRoute
  <2>5. TablesOK'
    BY <1>0, <1>t, <1>10, <2>4, SameTables DEF DropRoute
  <2>6. SessionsOK' /\ HistoryOK'
    BY <1>0, <1>t, <1>10, SameSessions, SameHistory DEF DropRoute
  <2>. QED BY <2>3, <2>5, <2>6, TypePartsPrime

<1>11. ASSUME NEW c \in Conn, role' = role, TakeBack(c) PROVE TypeOK'
  <2> DEFINE l == loc[c]
  <2>1. l \in Locals /\ "tap" \in PC /\ TaskOK("tap", l)
    BY <1>l DEF PC, TaskOK
  <2>2. TasksOK'
    BY <1>0, <1>11, <2>1, GotoOK DEF TakeBack
  <2>3. TablesOK' /\ SessionsOK'
    BY <1>0, <1>11, WithoutOK, SameSessions DEF TakeBack
  <2>4. replies' \in [Request -> Seq(Reply)]
    <3>1. CASE l.bid \in DOMAIN pending /\ l.id # None
      <4>1. <<c, l.id>> \in Request
        BY <2>1, <3>1 DEF Locals, Request
      <4>. QED BY <1>0, <1>11, <3>1, <4>1, DeliverOK, ErrorReplyType DEF TakeBack
    <3>2. CASE l.bid \in DOMAIN pending /\ l.id = None
      <4>1. l.bid # 0
        BY <1>0, <3>2 DEF TablesOK
      <4>. QED BY <1>0, <1>11, <1>l, <2>1, <3>2, <4>1 DEF TakeBack, TaskOK
    <3>3. CASE l.bid \notin DOMAIN pending
      BY <1>0, <1>11, <3>3 DEF TakeBack, HistoryOK
    <3>. QED BY <3>1, <3>2, <3>3
  <2>5. HistoryOK'
    BY <1>0, <1>11, <2>4 DEF TakeBack, HistoryOK
  <2>. QED BY <2>2, <2>3, <2>5, TypePartsPrime
<1>12. ASSUME NEW c \in Conn, role' = role, Tap(c) PROVE TypeOK'
  <2> DEFINE dead == {k \in DOMAIN taps : taps[k] # loc[c].target /\ taps[k] \notin open}
  <2>1. TasksOK'
    <3>1. CASE dead = {}
      BY <1>0, <1>12, <3>1, DoneOK DEF Tap
    <3>2. CASE dead # {}
      <4>1. taps \in Seq(Conn) /\ Len(taps) \in Nat /\ Len(taps) <= MaxTaps /\ MaxTaps \in Nat
            /\ DOMAIN taps = 1 .. Len(taps)
        BY <1>0, LenProperties, RoutingAssumption DEF TablesOK
      <4>2. dead \in SUBSET (1 .. MaxTaps)
        BY <4>1
      <4>3. Goto(c, "prune", [Clean EXCEPT !.dead = dead])
        BY <1>12, <3>2 DEF Tap
      <4> HIDE DEF dead
      <4>4. [Clean EXCEPT !.dead = dead] \in Locals
        BY <4>2, CleanLocals
      <4>5. TaskOK("prune", [Clean EXCEPT !.dead = dead]) /\ "prune" \in PC
        BY <3>2 DEF TaskOK, PC, Clean
      <4>. QED BY <1>0, <4>3, <4>4, <4>5, GotoOK
    <3>. QED BY <3>1, <3>2
  <2>2. TablesOK' /\ SessionsOK' /\ HistoryOK'
    BY <1>0, <1>t, <1>12, SameTables, SameSessions, SameHistory DEF Tap
  <2>. QED BY <2>1, <2>2, TypePartsPrime
<1>13. ASSUME NEW c \in Conn, role' = role, TapPrune(c) PROVE TypeOK'
  <2>1. TaskOK("panicked", Clean) /\ "panicked" \in PC
    BY DEF TaskOK, PC
  <2>2. TasksOK'
    BY <1>0, <1>13, <2>1, DoneOK, GotoOK, CleanLocals DEF TapPrune
  <2>3. taps' \in Seq(Conn) /\ Len(taps') <= MaxTaps
    <3>1. taps \in Seq(Conn) /\ Len(taps) <= MaxTaps
      BY <1>0 DEF TablesOK
    <3>. QED BY <1>13, <3>1, TapsWithoutType DEF TapPrune
  <2>4. TablesOK'
    BY <1>0, <1>13, <2>3 DEF TapPrune, TablesOK
  <2>5. SessionsOK' /\ HistoryOK'
    BY <1>0, <1>t, <1>13, SameSessions, SameHistory DEF TapPrune
  <2>. QED BY <2>2, <2>4, <2>5, TypePartsPrime
<1>14. ASSUME NEW c \in Conn, role' = role, Respond(c) PROVE TypeOK'
  <2>1. ASSUME NEW b, NEW r \in Request \cup {None}, TakeResponse(c, b, r)
        PROVE  TasksOK' /\ \E B : pending' = Without(B)
    <3>1. b \in DOMAIN pending /\ pending' = Without({b})
          /\ Goto(c, "reply", [Clean EXCEPT
               !.entry = [caller |-> pending[b].caller, id |-> pending[b].id], !.to = r])
      BY <2>1 DEF TakeResponse
    <3> DEFINE e == [caller |-> pending[b].caller, id |-> pending[b].id]
    <3>2. pending[b] \in Entry
      BY <1>0, <3>1 DEF TablesOK
    <3>3. e \in [caller : Conn, id : RequestId]
      BY <3>2 DEF Entry
    <3>4. e # None
      BY <3>3, RoutingAssumption
    <3> HIDE DEF e
    <3>5. [Clean EXCEPT !.entry = e, !.to = r] \in Locals
      BY <3>3, CleanLocals
    <3>6. TaskOK("reply", [Clean EXCEPT !.entry = e, !.to = r]) /\ "reply" \in PC
      BY <3>4 DEF TaskOK, PC, Clean
    <3>. QED BY <1>0, <3>1, <3>5, <3>6, GotoOK DEF e
  <2>2. \A m \in inbox[c] : m[2] \in Request
    BY <1>0 DEF HistoryOK
  <2>3. TasksOK' /\ \E B : pending' = Without(B)
    BY <1>14, <2>1, <2>2 DEF Respond
  <2>4. TablesOK'
    BY <1>0, <1>14, <2>3, WithoutOK DEF Respond
  <2>5. SessionsOK' /\ HistoryOK'
    BY <1>0, <1>t, <1>14, SameSessions, SameHistory DEF Respond
  <2>. QED BY <2>3, <2>4, <2>5, TypePartsPrime
<1>15. ASSUME NEW c \in Conn, role' = role, ReplyTo(c) PROVE TypeOK'
  <2> DEFINE e == loc[c].entry
             m == [kind |-> "answer", from |-> c, to |-> loc[c].to]
  <2>1. TasksOK'
    BY <1>0, <1>15, DoneOK DEF ReplyTo
  <2>2. loc[c] \in Locals /\ e # None
    BY <1>l, <1>15 DEF ReplyTo, TaskOK
  <2>3. e \in [caller : Conn, id : RequestId] /\ m \in Reply
    BY <2>2 DEF Locals, Reply, SomeConn
  <2>4. <<e.caller, e.id>> \in Request
    BY <2>3 DEF Request
  <2>5. Deliver(<<e.caller, e.id>>, m) \/ Deliver(<<e.caller, e.id>>, ErrorReply)
    BY <1>15 DEF ReplyTo
  <2> HIDE DEF e, m
  <2>6. replies' \in [Request -> Seq(Reply)]
    BY <1>0, <2>3, <2>4, <2>5, DeliverOK, ErrorReplyType
  <2>7. HistoryOK'
    BY <1>0, <1>15, <2>6 DEF ReplyTo, HistoryOK
  <2>8. TablesOK' /\ SessionsOK'
    BY <1>0, <1>t, <1>15, SameTables, SameSessions DEF ReplyTo
  <2>. QED BY <2>1, <2>7, <2>8, TypePartsPrime
<1>16. ASSUME NEW c \in Conn, role' = role, Leave(c) PROVE TypeOK'
  <2>1. TaskOK("drain", Clean) /\ "drain" \in PC
    BY DEF TaskOK, PC
  <2>2. TasksOK'
    BY <1>0, <1>16, <2>1, GotoOK, CleanLocals DEF Leave
  <2>3. TablesOK' /\ HistoryOK'
    BY <1>0, <1>t, <1>16, SameTables, SameHistory DEF Leave
  <2>4. SessionsOK'
    BY <1>0, <1>16 DEF Leave, SessionsOK
  <2>. QED BY <2>2, <2>3, <2>4, TypePartsPrime
<1>17. ASSUME NEW c \in Conn, role' = role, Drain(c) PROVE TypeOK'
  <2>1. TaskOK("unregister", Clean) /\ "unregister" \in PC
    BY DEF TaskOK, PC
  <2>2. TasksOK'
    BY <1>0, <1>17, <2>1, GotoOK, CleanLocals DEF Drain
  <2>3. TablesOK' /\ SessionsOK' /\ HistoryOK'
    BY <1>0, <1>t, <1>17, WithoutOK, SameSessions, SameHistory DEF Drain
  <2>. QED BY <2>2, <2>3, TypePartsPrime
<1>18. ASSUME NEW c \in Conn, role' = role, Unregister(c) PROVE TypeOK'
  <2>1. TaskOK("gone", Clean) /\ "gone" \in PC
    BY DEF TaskOK, PC
  <2>2. TasksOK'
    BY <1>0, <1>18, <2>1, GotoOK, CleanLocals DEF Unregister
  <2>3. registry' \in [Service -> SomeConn]
    BY <1>t, <1>18, ReleasedType DEF Unregister
  <2>4. TablesOK' /\ SessionsOK' /\ HistoryOK'
    BY <1>0, <1>t, <1>18, <2>3, SameTables, SameSessions, SameHistory DEF Unregister
  <2>. QED BY <2>2, <2>4, TypePartsPrime
<1>19. ASSUME NEW V \in SUBSET live, role' = role, Reload(V) PROVE TypeOK'
  <2>1. TasksOK' /\ TablesOK' /\ HistoryOK'
    BY <1>0, <1>t, <1>19, SameTasks, SameTables, SameHistory DEF Reload
  <2>2. SessionsOK'
    BY <1>0, <1>19 DEF Reload, SessionsOK
  <2>. QED BY <2>1, <2>2, TypePartsPrime
<1>20. ASSUME NEW v \in Conn, role' = role, RevokeDrain(v) PROVE TypeOK'
  <2>1. TasksOK' /\ TablesOK' /\ HistoryOK'
    BY <1>0, <1>t, <1>20, SameTasks, WithoutOK, SameHistory DEF RevokeDrain
  <2>2. SessionsOK'
    BY <1>0, <1>20 DEF RevokeDrain, SessionsOK
  <2>. QED BY <2>1, <2>2, TypePartsPrime
<1>21. ASSUME NEW v \in Conn, role' = role, RevokeClose(v) PROVE TypeOK'
  <2>1. TasksOK' /\ TablesOK' /\ HistoryOK'
    BY <1>0, <1>t, <1>21, SameTasks, SameTables, SameHistory DEF RevokeClose
  <2>2. v \in victims
    BY <1>0, <1>21, RoutingAssumption DEF RevokeClose, SessionsOK
  <2>3. SessionsOK'
    BY <1>0, <1>21, <2>2 DEF RevokeClose, SessionsOK
  <2>. QED BY <2>1, <2>3, TypePartsPrime
<1>22. CASE UNCHANGED vars
  <2>1. TasksOK' /\ TablesOK' /\ SessionsOK' /\ HistoryOK'
    BY <1>0, <1>22 DEF vars, TasksOK, TablesOK, SessionsOK, HistoryOK
  <2>. QED BY <2>1, TypePartsPrime
<1>23. ASSUME NEW c \in Conn, Handler(c) PROVE TypeOK'
  BY <1>5, <1>8, <1>9, <1>10, <1>11, <1>12, <1>13, <1>15, <1>16, <1>17, <1>18, <1>23 DEF Handler
<1>24. ASSUME NEW c \in Conn, role' = role, Client(c) PROVE TypeOK'
  BY <1>1, <1>2, <1>3, <1>4, <1>6, <1>7, <1>14, <1>16, <1>24 DEF Client
<1>. QED BY <1>19, <1>20, <1>21, <1>22, <1>23, <1>24 DEF Next, ReloadTask

\* Every table, local and history keeps its type, the tap list its bound, and
\* what a step is about to read is set, whatever the casts of clients.
THEOREM TypeCorrect == Spec => []TypeOK
BY TypeInit, TypeStep, PTL DEF Spec

-----------------------------------------------------------------------------
(* At most one reply: the right to answer a request is in one place *)

\* The request an entry of the correlation table stands for, and the one a task
\* that took an entry is about to answer.
EntryOf(e) == <<e.caller, e.id>>
AskedBy(c) == <<c, loc[c].id>>

Routing(c) == pc[c] \in {"pend", "attempt", "dropRoute", "takeBack"} /\ loc[c].id # None
Replying(c) == pc[c] = "reply"

\* Nothing but the task that routes r can still speak for it.
Unclaimed(r) ==
  /\ \A b \in DOMAIN pending : EntryOf(pending[b]) # r
  /\ \A c \in Conn : Replying(c) => EntryOf(loc[c].entry) # r
  /\ replies[r] = <<>>

\* What is in flight was asked.
InFlightAsked ==
  /\ \A b \in DOMAIN pending : EntryOf(pending[b]) \in asked
  /\ \A c \in Conn : Replying(c) => EntryOf(loc[c].entry) \in asked
  /\ \A c \in Conn : Routing(c) => AskedBy(c) \in asked
  /\ \A r \in Request : replies[r] # <<>> => r \in asked

\* The right to answer a request is in one place: with the task that routes it,
\* in the table, with the task that took it from there, or used up.
OneClaim ==
  /\ \A c \in Conn : pc[c] = "pend" /\ loc[c].id # None => Unclaimed(AskedBy(c))
  /\ \A a, b \in DOMAIN pending : EntryOf(pending[a]) = EntryOf(pending[b]) => a = b
  /\ \A b \in DOMAIN pending :
       /\ \A c \in Conn : Replying(c) => EntryOf(loc[c].entry) # EntryOf(pending[b])
       /\ replies[EntryOf(pending[b])] = <<>>
  /\ \A c, d \in Conn :
       Replying(c) /\ Replying(d) /\ EntryOf(loc[c].entry) = EntryOf(loc[d].entry) => c = d
  /\ \A c \in Conn : Replying(c) => replies[EntryOf(loc[c].entry)] = <<>>

\* A task that has registered a request knows its entry by the broker's id.
OwnEntry ==
  \A c \in Conn : pc[c] \in {"attempt", "dropRoute", "takeBack"} =>
    IF loc[c].id = None THEN loc[c].bid = 0
    ELSE /\ loc[c].bid \in 1 .. nextId - 1
         /\ loc[c].bid \in DOMAIN pending => EntryOf(pending[loc[c].bid]) = AskedBy(c)

ClaimInv == InFlightAsked /\ OneClaim /\ OwnEntry /\ ReplyOnce


Busy == {"pend", "attempt", "dropRoute", "takeBack", "reply"}

\* Steps of d's task that move no claim.
Calm(d) ==
  \/ pc'[d] = pc[d] /\ loc'[d] = loc[d]
  \/ pc'[d] \notin Busy
  \/ /\ pc[d] \in {"attempt", "dropRoute", "takeBack"}
     /\ pc'[d] \in {"attempt", "dropRoute", "takeBack"}
     /\ loc'[d].id = loc[d].id /\ loc'[d].bid = loc[d].bid

Shrinks ==
  /\ DOMAIN pending' \subseteq DOMAIN pending
  /\ \A b \in DOMAIN pending' : pending'[b] = pending[b]

LEMMA RequestTypes ==
  ASSUME TypeOK
  PROVE  /\ \A b \in DOMAIN pending : EntryOf(pending[b]) \in Request
         /\ \A c \in Conn : Replying(c) => EntryOf(loc[c].entry) \in Request
         /\ \A c \in Conn : loc[c].id # None => AskedBy(c) \in Request
<1>1. ASSUME NEW b \in DOMAIN pending PROVE EntryOf(pending[b]) \in Request
  <2>1. pending[b] \in Entry
    BY DEF TypeOK
  <2>. QED BY <2>1 DEF Entry, EntryOf, Request
<1>2. ASSUME NEW c \in Conn, Replying(c) PROVE EntryOf(loc[c].entry) \in Request
  <2>1. loc[c] \in Locals /\ loc[c].entry # None
    BY <1>2 DEF TypeOK, Replying
  <2>2. loc[c].entry \in [caller : Conn, id : RequestId]
    BY <2>1 DEF Locals
  <2>. QED BY <2>2 DEF EntryOf, Request
<1>3. ASSUME NEW c \in Conn, loc[c].id # None PROVE AskedBy(c) \in Request
  <2>1. loc[c] \in Locals
    BY DEF TypeOK
  <2>. QED BY <1>3, <2>1 DEF Locals, AskedBy, Request
<1>. QED BY <1>1, <1>2, <1>3

LEMMA RequestTypesPrime ==
  ASSUME TypeOK'
  PROVE  /\ \A b \in DOMAIN pending' : EntryOf(pending'[b]) \in Request
         /\ \A c \in Conn : pc'[c] = "reply" => EntryOf(loc'[c].entry) \in Request
         /\ \A c \in Conn : loc'[c].id # None => <<c, loc'[c].id>> \in Request
<1>1. ASSUME NEW b \in DOMAIN pending' PROVE EntryOf(pending'[b]) \in Request
  <2>1. pending'[b] \in Entry
    BY DEF TypeOK
  <2>. QED BY <2>1 DEF Entry, EntryOf, Request
<1>2. ASSUME NEW c \in Conn, pc'[c] = "reply" PROVE EntryOf(loc'[c].entry) \in Request
  <2>1. loc'[c] \in Locals /\ loc'[c].entry # None
    BY <1>2 DEF TypeOK
  <2>2. loc'[c].entry \in [caller : Conn, id : RequestId]
    BY <2>1 DEF Locals
  <2>. QED BY <2>2 DEF EntryOf, Request
<1>3. ASSUME NEW c \in Conn, loc'[c].id # None PROVE <<c, loc'[c].id>> \in Request
  <2>1. loc'[c] \in Locals
    BY DEF TypeOK
  <2>. QED BY <1>3, <2>1 DEF Locals, Request
<1>. QED BY <1>1, <1>2, <1>3

\* A step that takes claims away and makes none; and speaks for at most the
\* request r, whose claim it takes away.
LEMMA ClaimFrame ==
  ASSUME TypeOK, TypeOK', ClaimInv, Shrinks, \A d \in Conn : Calm(d),
         nextId' = nextId, asked \subseteq asked',
         \/ replies' = replies
         \/ \E r \in Request :
              /\ \E m : replies' = [replies EXCEPT ![r] = Append(@, m)]
              /\ r \in asked' /\ replies[r] = <<>>
              /\ \A b \in DOMAIN pending' : EntryOf(pending[b]) # r
              /\ \A d \in Conn : pc'[d] = "reply" => EntryOf(loc'[d].entry) # r
              /\ \A d \in Conn : pc'[d] = "pend" /\ loc'[d].id # None => <<d, loc'[d].id>> # r
  PROVE  ClaimInv'
<1>1. \A d \in Conn : Replying(d)' => Replying(d) /\ loc'[d] = loc[d]
  BY DEF Calm, Replying, Busy
<1>2. \A d \in Conn : pc'[d] = "pend" => pc[d] = "pend" /\ loc'[d] = loc[d]
  BY DEF Calm, Busy
<1>3. ASSUME NEW d \in Conn, pc'[d] \in {"attempt", "dropRoute", "takeBack"}
      PROVE  /\ pc[d] \in {"attempt", "dropRoute", "takeBack"}
             /\ loc'[d].id = loc[d].id /\ loc'[d].bid = loc[d].bid
  BY <1>3 DEF Calm, Busy
<1>4. /\ \A b \in DOMAIN pending' : b \in DOMAIN pending /\ pending'[b] = pending[b]
      /\ \A q \in Request : replies'[q] # <<>> => q \in asked'
      /\ \A b \in DOMAIN pending' : replies'[EntryOf(pending[b])] = <<>>
      /\ \A d \in Conn : pc'[d] = "reply" => replies'[EntryOf(loc'[d].entry)] = <<>>
      /\ \A d \in Conn : pc'[d] = "pend" /\ loc'[d].id # None => replies'[<<d, loc'[d].id>>] = <<>>
      /\ \A q \in Request : Len(replies'[q]) <= 1
  <2>0. \A b \in DOMAIN pending' : b \in DOMAIN pending /\ pending'[b] = pending[b]
    BY DEF Shrinks
  <2>a. /\ \A b \in DOMAIN pending' : EntryOf(pending[b]) \in Request
        /\ \A d \in Conn : pc'[d] = "reply" => EntryOf(loc'[d].entry) \in Request
        /\ \A d \in Conn : pc'[d] = "pend" /\ loc'[d].id # None => <<d, loc'[d].id>> \in Request
    BY <2>0, RequestTypesPrime
  <2>b. /\ \A q \in Request : replies[q] # <<>> => q \in asked
        /\ \A b \in DOMAIN pending : replies[EntryOf(pending[b])] = <<>>
        /\ \A d \in Conn : Replying(d) => replies[EntryOf(loc[d].entry)] = <<>>
        /\ \A d \in Conn : pc[d] = "pend" /\ loc[d].id # None => replies[<<d, loc[d].id>>] = <<>>
        /\ \A q \in Request : Len(replies[q]) <= 1
    BY DEF ClaimInv, InFlightAsked, OneClaim, Unclaimed, AskedBy, ReplyOnce
  <2>1. CASE replies' = replies
    BY <1>1, <1>2, <2>0, <2>b, <2>1 DEF Replying
  <2>2. CASE replies' # replies
    <3>1. PICK r \in Request :
              /\ \E m : replies' = [replies EXCEPT ![r] = Append(@, m)]
              /\ r \in asked' /\ replies[r] = <<>>
              /\ \A b \in DOMAIN pending' : EntryOf(pending[b]) # r
              /\ \A d \in Conn : pc'[d] = "reply" => EntryOf(loc'[d].entry) # r
              /\ \A d \in Conn : pc'[d] = "pend" /\ loc'[d].id # None => <<d, loc'[d].id>> # r
      BY <2>2
    <3>2. PICK m : replies' = [replies EXCEPT ![r] = Append(@, m)]
      BY <3>1
    <3>3. /\ \A q \in Request : q # r => replies'[q] = replies[q]
          /\ replies'[r] = Append(<<>>, m)
      BY <3>1, <3>2 DEF TypeOK
    <3>4. Len(replies'[r]) = 1
      BY <3>3
    <3>. QED BY <1>1, <1>2, <2>0, <2>a, <2>b, <3>1, <3>3, <3>4 DEF Replying
  <2>. QED BY <2>1, <2>2
<1>5. InFlightAsked'
  <2>1. \A d \in Conn : pc'[d] \in {"pend", "attempt", "dropRoute", "takeBack"} /\ loc'[d].id # None
          => <<d, loc'[d].id>> \in asked
    BY <1>2, <1>3 DEF ClaimInv, InFlightAsked, Routing, AskedBy
  <2>2. \A d \in Conn : pc'[d] = "reply" => EntryOf(loc'[d].entry) \in asked
    BY <1>1 DEF ClaimInv, InFlightAsked, Replying
  <2>3. \A b \in DOMAIN pending' : EntryOf(pending'[b]) \in asked
    BY <1>4 DEF ClaimInv, InFlightAsked
  <2>. QED BY <1>4, <2>1, <2>2, <2>3 DEF InFlightAsked, Replying, Routing, AskedBy
<1>6. OneClaim'
  <2>1. ASSUME NEW c \in Conn, pc'[c] = "pend", loc'[c].id # None
        PROVE  Unclaimed(AskedBy(c))'
    <3>1. pc[c] = "pend" /\ loc'[c] = loc[c] /\ Unclaimed(AskedBy(c))
      BY <1>2, <2>1 DEF ClaimInv, OneClaim
    <3>. QED BY <1>1, <1>4, <2>1, <3>1 DEF Unclaimed, AskedBy, Replying
  <2>2. \A a, b \in DOMAIN pending' : EntryOf(pending'[a]) = EntryOf(pending'[b]) => a = b
    BY <1>4 DEF ClaimInv, OneClaim
  <2>3. ASSUME NEW b \in DOMAIN pending', NEW c \in Conn, pc'[c] = "reply"
        PROVE  EntryOf(loc'[c].entry) # EntryOf(pending'[b])
    BY <1>1, <1>4, <2>3 DEF ClaimInv, OneClaim, Replying
  <2>4. ASSUME NEW c \in Conn, NEW d \in Conn, pc'[c] = "reply", pc'[d] = "reply",
               EntryOf(loc'[c].entry) = EntryOf(loc'[d].entry)
        PROVE  c = d
    BY <1>1, <2>4 DEF ClaimInv, OneClaim, Replying
  <2>. QED BY <1>4, <2>1, <2>2, <2>3, <2>4 DEF OneClaim, Replying
<1>7. OwnEntry'
  <2> SUFFICES ASSUME NEW c \in Conn, pc'[c] \in {"attempt", "dropRoute", "takeBack"}
               PROVE  IF loc'[c].id = None THEN loc'[c].bid = 0
                      ELSE /\ loc'[c].bid \in 1 .. nextId' - 1
                           /\ loc'[c].bid \in DOMAIN pending' =>
                                EntryOf(pending'[loc'[c].bid]) = <<c, loc'[c].id>>
    BY DEF OwnEntry, AskedBy
  <2>. QED BY <1>3, <1>4 DEF ClaimInv, OwnEntry, AskedBy
<1>8. ReplyOnce'
  BY <1>4 DEF ReplyOnce
<1>. QED BY <1>5, <1>6, <1>7, <1>8 DEF ClaimInv

\* Where a task goes, the others being left alone.
LEMMA GotoMoves ==
  ASSUME TypeOK, NEW c \in Conn, NEW label, NEW l, Goto(c, label, l)
  PROVE  /\ pc'[c] = label /\ loc'[c] = l
         /\ \A d \in Conn : d # c => pc'[d] = pc[d] /\ loc'[d] = loc[d]
BY DEF TypeOK, Goto

LEMMA CalmGoto ==
  ASSUME TypeOK, NEW c \in Conn, NEW label, NEW l, Goto(c, label, l), label \notin Busy
  PROVE  \A d \in Conn : Calm(d)
BY GotoMoves DEF Calm

LEMMA CalmDone == ASSUME TypeOK, NEW c \in Conn, Done(c) PROVE \A d \in Conn : Calm(d)
<1>1. "idle" \notin Busy
  BY DEF Busy
<1>. QED BY <1>1, CalmGoto DEF Done

LEMMA CalmSame == ASSUME UNCHANGED taskVars PROVE \A d \in Conn : Calm(d)
BY DEF taskVars, Calm

LEMMA WithoutShrinks == ASSUME NEW B, pending' = Without(B) PROVE Shrinks
BY DEF Without, Shrinks

LEMMA SameShrinks == ASSUME pending' = pending PROVE Shrinks
BY DEF Shrinks

\* Everything but routing and answering.
LEMMA QuietCalm ==
  ASSUME TypeOK, NEW c \in Conn,
         \/ Connect(c) \/ WriterStops(c) \/ Deregister(c) \/ Deregistered(c) \/ TapOn(c)
         \/ Tap(c) \/ TapPrune(c) \/ Leave(c) \/ Drain(c) \/ Unregister(c)
         \/ RevokeDrain(c) \/ RevokeClose(c)
         \/ \E s \in Service : Register(c, s)
  PROVE  (\A d \in Conn : Calm(d)) /\ Shrinks
<1>1. "idle" \notin Busy /\ "dereg" \notin Busy /\ "prune" \notin Busy /\ "panicked" \notin Busy
      /\ "drain" \notin Busy /\ "unregister" \notin Busy /\ "gone" \notin Busy
  BY DEF Busy
<1>2. \A d \in Conn : Calm(d)
  <2>1. CASE Connect(c) \/ Deregistered(c)
    BY <2>1, CalmDone DEF Connect, Deregistered
  <2>2. CASE WriterStops(c) \/ TapOn(c) \/ RevokeDrain(c) \/ RevokeClose(c)
             \/ \E s \in Service : Register(c, s)
    BY <2>2, CalmSame DEF WriterStops, TapOn, RevokeDrain, RevokeClose, Register
  <2>3. CASE Deregister(c)
    BY <1>1, <2>3, CalmSame, CalmGoto DEF Deregister
  <2>4. CASE Tap(c)
    BY <1>1, <2>4, CalmDone, CalmGoto DEF Tap
  <2>5. CASE TapPrune(c)
    BY <1>1, <2>5, CalmDone, CalmGoto DEF TapPrune
  <2>6. CASE Leave(c) \/ Drain(c) \/ Unregister(c)
    BY <1>1, <2>6, CalmGoto DEF Leave, Drain, Unregister
  <2>. QED BY <2>1, <2>2, <2>3, <2>4, <2>5, <2>6
<1>3. Shrinks
  <2>1. CASE Drain(c) \/ RevokeDrain(c)
    BY <2>1, WithoutShrinks DEF Drain, RevokeDrain
  <2>2. CASE pending' = pending
    BY <2>2, SameShrinks
  <2>. QED BY <2>1, <2>2 DEF Connect, WriterStops, Deregister, Deregistered, TapOn, Tap, TapPrune,
         Leave, Unregister, RevokeClose, Register
<1>. QED BY <1>2, <1>3

LEMMA ClaimQuiet ==
  ASSUME TypeOK, TypeOK', ClaimInv, NEW c \in Conn,
         \/ Connect(c) \/ WriterStops(c) \/ Deregister(c) \/ Deregistered(c) \/ TapOn(c)
         \/ Tap(c) \/ TapPrune(c) \/ Leave(c) \/ Drain(c) \/ Unregister(c)
         \/ RevokeDrain(c) \/ RevokeClose(c)
         \/ \E s \in Service : Register(c, s)
  PROVE  ClaimInv'
<1>1. nextId' = nextId /\ asked' = asked /\ replies' = replies
  BY DEF Connect, WriterStops, Deregister, Deregistered, TapOn, Tap, TapPrune, Leave, Drain,
         Unregister, RevokeDrain, RevokeClose, Register, histVars
<1>. QED BY <1>1, QuietCalm, ClaimFrame

\* A new request is in nobody's hands but its sender's.
LEMMA FreshUnclaimed ==
  ASSUME ClaimInv, NEW r \in Request, r \notin asked
  PROVE  Unclaimed(r)
BY DEF ClaimInv, InFlightAsked, Unclaimed

LEMMA ClaimSend ==
  ASSUME TypeOK, TypeOK', ClaimInv, NEW c \in Conn, NEW s \in Service,
         NEW i \in RequestId \cup {None}, Send(c, s, i)
  PROVE  ClaimInv'
<1> DEFINE l == [Clean EXCEPT !.svc = s, !.id = i, !.target = registry[s]]
<1>0. /\ <<c, i>> \notin asked /\ pc[c] = "idle" /\ l.id = i
      /\ asked' = IF i = None THEN asked ELSE asked \cup {<<c, i>>}
      /\ UNCHANGED <<pending, nextId>>
  BY DEF Send, Ready, Clean
<1>1. i # None => <<c, i>> \in Request /\ Unclaimed(<<c, i>>)
  BY <1>0, FreshUnclaimed DEF Request
<1>2. Shrinks /\ asked \subseteq asked'
  BY <1>0, SameShrinks
<1>3. CASE registry[s] = None
  <2>1. NotFound(c, l)
    BY <1>3 DEF Send
  <2>2. "tap" \notin Busy
    BY DEF Busy
  <2>3. \A d \in Conn : Calm(d)
    BY <2>1, <2>2, CalmGoto DEF NotFound
  <2>4. CASE replies' = replies
    BY <1>0, <1>2, <2>3, <2>4, ClaimFrame
  <2>5. CASE replies' # replies
    <3> DEFINE r == <<c, i>>
    <3>1. i # None /\ replies' = [replies EXCEPT ![r] = Append(@, ErrorReply)]
      BY <1>0, <2>1, <2>5 DEF NotFound, Deliver
    <3>2. r \in Request /\ Unclaimed(r) /\ r \in asked' /\ r \notin asked
      BY <1>0, <1>1, <3>1
    <3>3. pc'[c] = "tap" /\ \A d \in Conn : d # c => pc'[d] = pc[d] /\ loc'[d] = loc[d]
      BY <2>1, GotoMoves DEF NotFound
    <3>4. \A b \in DOMAIN pending' : EntryOf(pending[b]) # r
      BY <1>0, <3>2 DEF Unclaimed
    <3>5. \A d \in Conn : pc'[d] = "reply" => EntryOf(loc'[d].entry) # r
      BY <3>2, <3>3 DEF Unclaimed, Replying
    <3>6. \A d \in Conn : pc'[d] = "pend" /\ loc'[d].id # None => <<d, loc'[d].id>> # r
      BY <3>3
    <3>7. replies[r] = <<>>
      BY <3>2 DEF Unclaimed
    <3> HIDE DEF r
    <3>. QED BY <1>0, <1>2, <2>3, <3>1, <3>2, <3>4, <3>5, <3>6, <3>7, ClaimFrame
  <2>. QED BY <2>4, <2>5
<1>4. CASE registry[s] # None
  <2>1. Goto(c, "pend", l) /\ replies' = replies
    BY <1>4 DEF Send
  <2>2. /\ pc'[c] = "pend" /\ loc'[c].id = i
        /\ \A d \in Conn : d # c => pc'[d] = pc[d] /\ loc'[d] = loc[d]
    BY <1>0, <2>1, GotoMoves
  <2>3. \A d \in Conn : pc'[d] = "reply" => pc[d] = "reply" /\ loc'[d] = loc[d]
    BY <2>2
  <2>4. InFlightAsked'
    <3>1. \A d \in Conn : Routing(d)' => AskedBy(d)' \in asked'
      BY <1>0, <2>2 DEF ClaimInv, InFlightAsked, Routing, AskedBy
    <3>. QED BY <1>0, <1>2, <2>1, <2>3, <3>1 DEF ClaimInv, InFlightAsked, Replying
  <2>5. ASSUME NEW d \in Conn, pc'[d] = "pend", loc'[d].id # None
        PROVE  Unclaimed(AskedBy(d))'
    <3>1. Unclaimed(<<d, loc'[d].id>>)
      BY <1>1, <2>2, <2>5 DEF ClaimInv, OneClaim, AskedBy
    <3>. QED BY <1>0, <2>1, <2>3, <3>1 DEF Unclaimed, AskedBy, Replying
  <2>6. OneClaim'
    BY <1>0, <2>1, <2>3, <2>5 DEF ClaimInv, OneClaim, Replying
  <2>7. OwnEntry'
    BY <1>0, <2>2 DEF ClaimInv, OwnEntry, AskedBy
  <2>. QED BY <2>1, <2>4, <2>6, <2>7 DEF ClaimInv, ReplyOnce
<1>. QED BY <1>3, <1>4

LEMMA ClaimPend ==
  ASSUME TypeOK, TypeOK', ClaimInv, NEW c \in Conn, Pend(c)
  PROVE  ClaimInv'
<1> DEFINE l == loc[c]
           r == <<c, l.id>>
<1>0. pc[c] = "pend" /\ l \in Locals /\ l.bid = 0 /\ UNCHANGED <<asked, replies>>
      /\ nextId \in Nat \ {0} /\ DOMAIN pending \subseteq 1 .. nextId - 1
  BY DEF Pend, TypeOK
<1>1. CASE l.id = None
  <2>1. Goto(c, "attempt", l) /\ UNCHANGED <<pending, nextId>>
    BY <1>1 DEF Pend
  <2>2. /\ pc'[c] = "attempt" /\ loc'[c] = loc[c]
        /\ \A d \in Conn : d # c => pc'[d] = pc[d] /\ loc'[d] = loc[d]
    BY <2>1, GotoMoves
  <2>3. \A d \in Conn : loc'[d] = loc[d] /\ (pc'[d] = "reply" <=> pc[d] = "reply")
                        /\ (pc'[d] = "pend" => pc[d] = "pend")
    BY <1>0, <2>2
  <2>4. InFlightAsked'
    BY <1>0, <1>1, <2>1, <2>2, <2>3 DEF ClaimInv, InFlightAsked, Replying, Routing, AskedBy
  <2>5. OneClaim'
    BY <1>0, <2>1, <2>3 DEF ClaimInv, OneClaim, Replying, AskedBy, Unclaimed
  <2>6. OwnEntry'
    BY <1>0, <1>1, <2>1, <2>2 DEF ClaimInv, OwnEntry, AskedBy
  <2>. QED BY <1>0, <2>4, <2>5, <2>6 DEF ClaimInv, ReplyOnce
<1>2. CASE l.id # None
  <2> DEFINE e == [caller |-> c, id |-> l.id, responder |-> l.target]
  <2>1. /\ pending' = [k \in DOMAIN pending \cup {nextId} |-> IF k = nextId THEN e ELSE pending[k]]
        /\ nextId' = nextId + 1
        /\ Goto(c, "attempt", [l EXCEPT !.bid = nextId])
    BY <1>2 DEF Pend
  <2>2. /\ pc'[c] = "attempt" /\ loc'[c].id = l.id /\ loc'[c].bid = nextId
        /\ \A d \in Conn : d # c => pc'[d] = pc[d] /\ loc'[d] = loc[d]
    <3>1. /\ pc'[c] = "attempt" /\ loc'[c] = [l EXCEPT !.bid = nextId]
          /\ \A d \in Conn : d # c => pc'[d] = pc[d] /\ loc'[d] = loc[d]
      BY <2>1, GotoMoves
    <3>. QED BY <1>0, <3>1 DEF Locals
  <2>3. EntryOf(e) = r /\ r \in asked /\ Unclaimed(r) /\ nextId \notin DOMAIN pending
    BY <1>0, <1>2 DEF EntryOf, ClaimInv, InFlightAsked, OneClaim, Routing, AskedBy
  <2> HIDE DEF e
  <2>4. /\ DOMAIN pending' = DOMAIN pending \cup {nextId}
        /\ EntryOf(pending'[nextId]) = r
        /\ \A b \in DOMAIN pending : pending'[b] = pending[b] /\ b # nextId
    BY <2>1, <2>3
  <2>5. \A d \in Conn : /\ pc'[d] = "reply" => pc[d] = "reply" /\ loc'[d] = loc[d]
                        /\ pc'[d] = "pend" => pc[d] = "pend" /\ loc'[d] = loc[d] /\ d # c
    BY <2>2
  <2>6. InFlightAsked'
    <3>1. \A d \in Conn : Routing(d)' => AskedBy(d)' \in asked
      BY <1>0, <2>2, <2>3 DEF ClaimInv, InFlightAsked, Routing, AskedBy
    <3>. QED BY <1>0, <2>3, <2>4, <2>5, <3>1 DEF ClaimInv, InFlightAsked, Replying
  <2>7. OneClaim'
    <3>1. ASSUME NEW d \in Conn, pc'[d] = "pend", loc'[d].id # None
          PROVE  Unclaimed(AskedBy(d))'
      <4>1. Unclaimed(<<d, loc'[d].id>>) /\ <<d, loc'[d].id>> # r
        BY <2>5, <3>1 DEF ClaimInv, OneClaim, AskedBy
      <4>. QED BY <1>0, <2>4, <2>5, <4>1 DEF Unclaimed, AskedBy, Replying
    <3>2. \A a, b \in DOMAIN pending' : EntryOf(pending'[a]) = EntryOf(pending'[b]) => a = b
      BY <2>3, <2>4 DEF ClaimInv, OneClaim, Unclaimed
    <3>3. ASSUME NEW b \in DOMAIN pending'
          PROVE  /\ \A d \in Conn : pc'[d] = "reply" => EntryOf(loc'[d].entry) # EntryOf(pending'[b])
                 /\ replies'[EntryOf(pending'[b])] = <<>>
      <4>1. CASE b = nextId
        BY <1>0, <2>3, <2>4, <2>5, <4>1 DEF Unclaimed, Replying
      <4>2. CASE b \in DOMAIN pending
        BY <1>0, <2>4, <2>5, <4>2 DEF ClaimInv, OneClaim, Replying
      <4>. QED BY <2>4, <4>1, <4>2
    <3>. QED BY <1>0, <2>5, <3>1, <3>2, <3>3 DEF ClaimInv, OneClaim, Replying
  <2>8. OwnEntry'
    <3> SUFFICES ASSUME NEW d \in Conn, pc'[d] \in {"attempt", "dropRoute", "takeBack"}
                 PROVE  IF loc'[d].id = None THEN loc'[d].bid = 0
                        ELSE /\ loc'[d].bid \in 1 .. nextId' - 1
                             /\ loc'[d].bid \in DOMAIN pending' =>
                                  EntryOf(pending'[loc'[d].bid]) = <<d, loc'[d].id>>
      BY DEF OwnEntry, AskedBy
    <3>1. CASE d = c
      BY <1>0, <1>2, <2>1, <2>2, <2>4, <3>1
    <3>2. CASE d # c
      <4>1. IF loc[d].id = None THEN loc[d].bid = 0
            ELSE /\ loc[d].bid \in 1 .. nextId - 1
                 /\ loc[d].bid \in DOMAIN pending => EntryOf(pending[loc[d].bid]) = <<d, loc[d].id>>
        BY <2>2, <3>2 DEF ClaimInv, OwnEntry, AskedBy
      <4>. QED BY <1>0, <2>1, <2>2, <2>4, <3>2, <4>1
    <3>. QED BY <3>1, <3>2
  <2>. QED BY <1>0, <2>6, <2>7, <2>8 DEF ClaimInv, ReplyOnce
<1>. QED BY <1>1, <1>2

LEMMA ClaimAttempt ==
  ASSUME TypeOK, TypeOK', ClaimInv, NEW c \in Conn, Attempt(c) \/ DropRoute(c)
  PROVE  ClaimInv'
<1>0. loc[c] \in Locals /\ UNCHANGED <<pending, nextId, asked, replies>>
  BY DEF Attempt, DropRoute, TypeOK, histVars
<1>1. \A d \in Conn : Calm(d)
  <2>1. CASE Attempt(c)
    <3>1. "tap" \notin Busy /\ pc[c] = "attempt"
      BY <2>1 DEF Busy, Attempt
    <3>2. CASE Goto(c, "tap", loc[c])
      BY <3>1, <3>2, CalmGoto
    <3>3. CASE Goto(c, "takeBack", loc[c]) \/ Goto(c, "dropRoute", loc[c])
      BY <3>1, <3>3, GotoMoves DEF Calm
    <3>. QED BY <2>1, <3>2, <3>3 DEF Attempt, Enqueue
  <2>2. CASE DropRoute(c)
    <3>1. pc[c] = "dropRoute" /\ Goto(c, "takeBack", [loc[c] EXCEPT !.target = None])
      BY <2>2 DEF DropRoute
    <3>2. [loc[c] EXCEPT !.target = None].id = loc[c].id
          /\ [loc[c] EXCEPT !.target = None].bid = loc[c].bid
      BY <1>0 DEF Locals
    <3> DEFINE x == [loc[c] EXCEPT !.target = None]
    <3>3. x.id = loc[c].id /\ x.bid = loc[c].bid /\ Goto(c, "takeBack", x)
      BY <3>1, <3>2
    <3> HIDE DEF x
    <3>4. /\ pc'[c] = "takeBack" /\ loc'[c] = x
          /\ \A d \in Conn : d # c => pc'[d] = pc[d] /\ loc'[d] = loc[d]
      BY <3>3, GotoMoves
    <3>. QED BY <3>1, <3>3, <3>4 DEF Calm
  <2>. QED BY <2>1, <2>2
<1>. QED BY <1>0, <1>1, SameShrinks, ClaimFrame

LEMMA ClaimTakeBack ==
  ASSUME TypeOK, TypeOK', ClaimInv, NEW c \in Conn, TakeBack(c)
  PROVE  ClaimInv'
<1> DEFINE l == loc[c]
           r == <<c, l.id>>
<1>0. /\ pc[c] = "takeBack" /\ pending' = Without({l.bid}) /\ Goto(c, "tap", l)
      /\ UNCHANGED <<nextId, asked>>
      /\ IF l.bid \in DOMAIN pending THEN Deliver(r, ErrorReply) ELSE replies' = replies
  BY DEF TakeBack
<1>1. "tap" \notin Busy
  BY DEF Busy
<1>2. (\A d \in Conn : Calm(d)) /\ Shrinks /\ asked \subseteq asked'
  BY <1>0, <1>1, CalmGoto, WithoutShrinks
<1>3. CASE replies' = replies
  BY <1>0, <1>2, <1>3, ClaimFrame
<1>4. CASE replies' # replies
  <2>1. l.bid \in DOMAIN pending /\ replies' = [replies EXCEPT ![r] = Append(@, ErrorReply)]
    BY <1>0, <1>4 DEF Deliver
  <2>2. l.id # None
    <3>1. l.bid # 0
      BY <2>1 DEF TypeOK
    <3>. QED BY <1>0, <3>1 DEF ClaimInv, OwnEntry
  <2>3. EntryOf(pending[l.bid]) = r /\ r \in Request /\ r \in asked /\ replies[r] = <<>>
    <3>1. EntryOf(pending[l.bid]) = r
      BY <1>0, <2>1, <2>2 DEF ClaimInv, OwnEntry, AskedBy
    <3>. QED BY <2>1, <3>1, RequestTypes DEF ClaimInv, InFlightAsked, OneClaim
  <2>4. \A b \in DOMAIN pending' : EntryOf(pending[b]) # r
    BY <1>0, <2>1, <2>3 DEF Without, ClaimInv, OneClaim
  <2>5. pc'[c] = "tap" /\ \A d \in Conn : d # c => pc'[d] = pc[d] /\ loc'[d] = loc[d]
    BY <1>0, GotoMoves
  <2>6. \A d \in Conn : pc'[d] = "reply" => EntryOf(loc'[d].entry) # r
    BY <2>1, <2>3, <2>5 DEF ClaimInv, OneClaim, Replying
  <2>7. \A d \in Conn : pc'[d] = "pend" /\ loc'[d].id # None => <<d, loc'[d].id>> # r
    BY <2>5
  <2> HIDE DEF r
  <2>. QED BY <1>0, <1>2, <2>1, <2>3, <2>4, <2>6, <2>7, ClaimFrame
<1>. QED BY <1>3, <1>4

LEMMA ClaimReplyTo ==
  ASSUME TypeOK, TypeOK', ClaimInv, NEW c \in Conn, ReplyTo(c)
  PROVE  ClaimInv'
<1> DEFINE r == EntryOf(loc[c].entry)
<1>0. /\ pc[c] = "reply" /\ Done(c) /\ UNCHANGED <<nextId, asked, pending>>
      /\ replies' = replies \/ \E m : replies' = [replies EXCEPT ![r] = Append(@, m)]
  BY DEF ReplyTo, Deliver, EntryOf
<1>1. (\A d \in Conn : Calm(d)) /\ Shrinks /\ asked \subseteq asked'
  BY <1>0, CalmDone, SameShrinks
<1>2. r \in Request /\ r \in asked /\ replies[r] = <<>>
  BY <1>0, RequestTypes DEF ClaimInv, InFlightAsked, OneClaim, Replying
<1>3. \A b \in DOMAIN pending' : EntryOf(pending[b]) # r
  BY <1>0 DEF ClaimInv, OneClaim, Replying
<1>4. pc'[c] = "idle" /\ \A d \in Conn : d # c => pc'[d] = pc[d] /\ loc'[d] = loc[d]
  BY <1>0, GotoMoves DEF Done
<1>5. \A d \in Conn : pc'[d] = "reply" => EntryOf(loc'[d].entry) # r
  BY <1>0, <1>4 DEF ClaimInv, OneClaim, Replying
<1>6. \A d \in Conn : pc'[d] = "pend" /\ loc'[d].id # None => <<d, loc'[d].id>> # r
  BY <1>0, <1>4 DEF ClaimInv, OneClaim, Unclaimed, AskedBy, Replying
<1> HIDE DEF r
<1>. QED BY <1>0, <1>1, <1>2, <1>3, <1>5, <1>6, ClaimFrame

\* The claim moves from the table to the task that took the entry.
LEMMA ClaimTaken ==
  ASSUME TypeOK, TypeOK', ClaimInv, NEW c \in Conn, NEW b, NEW q, TakeResponse(c, b, q),
         pc[c] = "idle", UNCHANGED <<nextId, asked, replies>>
  PROVE  ClaimInv'
<1> DEFINE r == EntryOf(pending[b])
<1>0. /\ b \in DOMAIN pending /\ pending' = Without({b})
      /\ pc'[c] = "reply" /\ EntryOf(loc'[c].entry) = r
      /\ \A d \in Conn : d # c => pc'[d] = pc[d] /\ loc'[d] = loc[d]
  <2> DEFINE x == [Clean EXCEPT
                 !.entry = [caller |-> pending[b].caller, id |-> pending[b].id], !.to = q]
  <2>1. b \in DOMAIN pending /\ pending' = Without({b}) /\ Goto(c, "reply", x)
    BY DEF TakeResponse
  <2>2. EntryOf(x.entry) = r
    BY DEF EntryOf, Clean
  <2> HIDE DEF x
  <2>3. pc'[c] = "reply" /\ loc'[c] = x /\ \A d \in Conn : d # c => pc'[d] = pc[d] /\ loc'[d] = loc[d]
    BY <2>1, GotoMoves
  <2>. QED BY <2>1, <2>2, <2>3
<1>1. /\ DOMAIN pending' = DOMAIN pending \ {b}
      /\ \A a \in DOMAIN pending' : pending'[a] = pending[a] /\ EntryOf(pending[a]) # r
  BY <1>0 DEF Without, ClaimInv, OneClaim
<1>2. /\ r \in asked /\ replies[r] = <<>>
      /\ \A d \in Conn : Replying(d) => EntryOf(loc[d].entry) # r
  BY <1>0 DEF ClaimInv, InFlightAsked, OneClaim
<1> HIDE DEF r
<1>3. InFlightAsked'
  <2>1. \A d \in Conn : Routing(d)' => AskedBy(d)' \in asked
    BY <1>0 DEF ClaimInv, InFlightAsked, Routing, AskedBy
  <2>. QED BY <1>0, <1>1, <1>2, <2>1 DEF ClaimInv, InFlightAsked, Replying
<1>4. OneClaim'
  <2>1. ASSUME NEW d \in Conn, pc'[d] = "pend", loc'[d].id # None
        PROVE  Unclaimed(AskedBy(d))'
    <3>1. Unclaimed(<<d, loc'[d].id>>) /\ <<d, loc'[d].id>> # r
      BY <1>0, <2>1 DEF ClaimInv, OneClaim, AskedBy, Unclaimed, r
    <3>. QED BY <1>0, <1>1, <3>1 DEF Unclaimed, AskedBy, Replying
  <2>2. \A a, k \in DOMAIN pending' : EntryOf(pending'[a]) = EntryOf(pending'[k]) => a = k
    BY <1>1 DEF ClaimInv, OneClaim
  <2>3. ASSUME NEW a \in DOMAIN pending'
        PROVE  /\ \A d \in Conn : pc'[d] = "reply" => EntryOf(loc'[d].entry) # EntryOf(pending'[a])
               /\ replies'[EntryOf(pending'[a])] = <<>>
    <3>1. a \in DOMAIN pending /\ pending'[a] = pending[a] /\ EntryOf(pending[a]) # r
      BY <1>1
    <3>2. ASSUME NEW d \in Conn, pc'[d] = "reply"
          PROVE  EntryOf(loc'[d].entry) # EntryOf(pending[a])
      <4>1. CASE d = c
        BY <1>0, <3>1, <4>1
      <4>2. CASE d # c
        BY <1>0, <3>1, <3>2, <4>2 DEF ClaimInv, OneClaim, Replying
      <4>. QED BY <4>1, <4>2
    <3>3. replies[EntryOf(pending[a])] = <<>>
      BY <3>1 DEF ClaimInv, OneClaim
    <3>. QED BY <3>1, <3>2, <3>3
  <2>4. ASSUME NEW d \in Conn, NEW k \in Conn, pc'[d] = "reply", pc'[k] = "reply",
               EntryOf(loc'[d].entry) = EntryOf(loc'[k].entry)
        PROVE  d = k
    BY <1>0, <1>2, <2>4 DEF ClaimInv, OneClaim, Replying
  <2>5. \A d \in Conn : pc'[d] = "reply" => replies'[EntryOf(loc'[d].entry)] = <<>>
    BY <1>0, <1>2 DEF ClaimInv, OneClaim, Replying
  <2>. QED BY <2>1, <2>2, <2>3, <2>4, <2>5 DEF OneClaim, Replying
<1>5. OwnEntry'
  <2> SUFFICES ASSUME NEW d \in Conn, pc'[d] \in {"attempt", "dropRoute", "takeBack"}
               PROVE  IF loc'[d].id = None THEN loc'[d].bid = 0
                      ELSE /\ loc'[d].bid \in 1 .. nextId' - 1
                           /\ loc'[d].bid \in DOMAIN pending' =>
                                EntryOf(pending'[loc'[d].bid]) = <<d, loc'[d].id>>
    BY DEF OwnEntry, AskedBy
  <2>1. d # c /\ pc'[d] = pc[d] /\ loc'[d] = loc[d]
    BY <1>0
  <2>. QED BY <1>1, <2>1 DEF ClaimInv, OwnEntry, AskedBy
<1>. QED BY <1>3, <1>4, <1>5 DEF ClaimInv, ReplyOnce

LEMMA ClaimRespond ==
  ASSUME TypeOK, TypeOK', ClaimInv, NEW c \in Conn, Respond(c)
  PROVE  ClaimInv'
<1>1. pc[c] = "idle" /\ UNCHANGED <<nextId, asked, replies>>
  BY DEF Respond, Ready, histVars
<1>2. \E b, q : TakeResponse(c, b, q)
  BY DEF Respond
<1>. QED BY <1>1, <1>2, ClaimTaken

LEMMA ClaimInit == Init => ClaimInv
BY DEF Init, ClaimInv, InFlightAsked, OneClaim, OwnEntry, ReplyOnce, Replying, Routing

LEMMA ClaimStep == TypeOK /\ ClaimInv /\ [Next]_vars => ClaimInv'
<1> SUFFICES ASSUME TypeOK, ClaimInv, [Next]_vars PROVE ClaimInv'
  OBVIOUS
<1>0. TypeOK'
  BY TypeStep
<1>1. ASSUME NEW c \in Conn, Handler(c) PROVE ClaimInv'
  BY <1>0, <1>1, ClaimQuiet, ClaimPend, ClaimAttempt, ClaimTakeBack, ClaimReplyTo DEF Handler
<1>2. ASSUME NEW c \in Conn, Client(c) PROVE ClaimInv'
  BY <1>0, <1>2, ClaimQuiet, ClaimSend, ClaimRespond DEF Client
<1>3. ASSUME NEW v \in Conn, RevokeDrain(v) \/ RevokeClose(v) PROVE ClaimInv'
  BY <1>0, <1>3, ClaimQuiet
<1>4. ASSUME UNCHANGED vars \/ \E V \in SUBSET live : Reload(V) PROVE ClaimInv'
  <2>1. \A d \in Conn : Calm(d)
    BY <1>4, CalmSame DEF Reload, vars, taskVars
  <2>2. UNCHANGED <<pending, nextId, asked, replies>>
    BY <1>4 DEF Reload, vars, histVars
  <2>. QED BY <1>0, <2>1, <2>2, SameShrinks, ClaimFrame
<1>. QED BY <1>1, <1>2, <1>3, <1>4 DEF Next, ReloadTask

\* A caller gets at most one reply per request, whatever answers, failed
\* deliveries, cleanups and reloads compete for its entry.
THEOREM RepliesOnce == Spec => []ReplyOnce
<1>1. Spec => [](TypeOK /\ ClaimInv)
  BY TypeInit, TypeStep, ClaimInit, ClaimStep, PTL DEF Spec
<1>. QED BY <1>1, PTL DEF ClaimInv

-----------------------------------------------------------------------------
(* A reply is the addressee's, and answers this request *)

\* Only the addressee's answer to the entry's own request can take an entry.
Addressed ==
  /\ \A b \in DOMAIN pending : pending[b].responder = addressee[EntryOf(pending[b])]
  /\ \A c \in Conn : \A m \in inbox[c] :
       m[1] < nextId /\ (m[1] \in DOMAIN pending => m[2] = EntryOf(pending[m[1]]))
  /\ \A c \in Conn : Replying(c) =>
       addressee[EntryOf(loc[c].entry)] = c /\ loc[c].to \in {EntryOf(loc[c].entry), None}

AnswerInv == Addressed /\ AnswerCorrelated


\* What an answer under request r has to be.
Right(r, m) == m.kind = "answer" => m.from = addressee[r] /\ m.to \in {r, None}

LEMMA CorrelatedAppend ==
  ASSUME TypeOK, AnswerCorrelated, addressee' = addressee, NEW r \in Request, NEW m \in Reply,
         Right(r, m), replies' = [replies EXCEPT ![r] = Append(@, m)]
  PROVE  AnswerCorrelated'
<1> SUFFICES ASSUME NEW q \in Request, NEW k \in DOMAIN replies'[q]
             PROVE  Right(q, replies'[q][k])
  BY DEF AnswerCorrelated, Right
<1>1. \A j \in DOMAIN replies[q] : Right(q, replies[q][j])
  BY DEF AnswerCorrelated, Right
<1>2. CASE q # r
  BY <1>1, <1>2 DEF TypeOK
<1>3. CASE q = r
  <2> DEFINE s == replies[r]
  <2>1. replies'[q] = Append(s, m) /\ s \in Seq(Reply)
    BY <1>3 DEF TypeOK
  <2> HIDE DEF s
  <2>2. Len(s) \in Nat /\ DOMAIN s = 1 .. Len(s)
    BY <2>1, LenProperties
  <2>3. /\ Append(s, m) \in Seq(Reply) /\ Len(Append(s, m)) = Len(s) + 1
        /\ \A j \in 1 .. Len(s) : Append(s, m)[j] = s[j]
        /\ Append(s, m)[Len(s) + 1] = m
    BY <2>1, AppendProperties
  <2>4. DOMAIN Append(s, m) = 1 .. Len(s) + 1
    BY <2>3, LenProperties
  <2>5. k \in 1 .. Len(s) \/ k = Len(s) + 1
    BY <2>1, <2>2, <2>4
  <2>6. CASE k \in 1 .. Len(s)
    BY <1>1, <1>3, <2>1, <2>2, <2>3, <2>6 DEF s
  <2>7. CASE k = Len(s) + 1
    BY <1>3, <2>1, <2>3, <2>7
  <2>. QED BY <2>5, <2>6, <2>7
<1>. QED BY <1>2, <1>3

\* A step that takes entries away, puts nothing on a channel, and appends to the
\* replies of one request at most what is right there.
LEMMA AnswerFrame ==
  ASSUME TypeOK, TypeOK', AnswerInv, Shrinks, \A d \in Conn : Calm(d),
         UNCHANGED <<nextId, addressee, inbox>>,
         \/ replies' = replies
         \/ \E r \in Request, m \in Reply :
              Right(r, m) /\ replies' = [replies EXCEPT ![r] = Append(@, m)]
  PROVE  AnswerInv'
<1>1. \A d \in Conn : pc'[d] = "reply" => pc[d] = "reply" /\ loc'[d] = loc[d]
  BY DEF Calm, Busy
<1>2. \A b \in DOMAIN pending' : b \in DOMAIN pending /\ pending'[b] = pending[b]
  BY DEF Shrinks
<1>3. Addressed'
  BY <1>1, <1>2 DEF AnswerInv, Addressed, Replying
<1>4. AnswerCorrelated'
  <2>1. CASE replies' = replies
    BY <2>1 DEF AnswerInv, AnswerCorrelated
  <2>2. CASE replies' # replies
    BY <2>2, CorrelatedAppend DEF AnswerInv
  <2>. QED BY <2>1, <2>2
<1>. QED BY <1>3, <1>4 DEF AnswerInv

LEMMA ErrorRight == ASSUME NEW r PROVE Right(r, ErrorReply)
BY DEF Right, ErrorReply

LEMMA AnswerQuiet ==
  ASSUME TypeOK, TypeOK', AnswerInv, NEW c \in Conn,
         \/ Connect(c) \/ WriterStops(c) \/ Deregister(c) \/ Deregistered(c) \/ TapOn(c)
         \/ Tap(c) \/ TapPrune(c) \/ Leave(c) \/ Drain(c) \/ Unregister(c)
         \/ RevokeDrain(c) \/ RevokeClose(c)
         \/ \E s \in Service : Register(c, s)
  PROVE  AnswerInv'
<1>1. UNCHANGED <<nextId, addressee, inbox, replies>>
  BY DEF Connect, WriterStops, Deregister, Deregistered, TapOn, Tap, TapPrune, Leave, Drain,
         Unregister, RevokeDrain, RevokeClose, Register, histVars
<1>. QED BY <1>1, QuietCalm, AnswerFrame

LEMMA AnswerSend ==
  ASSUME TypeOK, TypeOK', AnswerInv, NEW c \in Conn, NEW s \in Service,
         NEW i \in RequestId \cup {None}, Send(c, s, i)
  PROVE  AnswerInv'
<1> DEFINE l == [Clean EXCEPT !.svc = s, !.id = i, !.target = registry[s]]
<1>0. UNCHANGED <<pending, nextId, addressee, inbox>> /\ l.id = i /\ pc[c] = "idle"
  BY DEF Send, Clean, Ready
<1>1. CASE registry[s] = None
  <2>1. NotFound(c, l)
    BY <1>1 DEF Send
  <2>2. "tap" \notin Busy
    BY DEF Busy
  <2>3. \A d \in Conn : Calm(d)
    BY <2>1, <2>2, CalmGoto DEF NotFound
  <2>4. \/ replies' = replies
        \/ \E r \in Request, m \in Reply :
             Right(r, m) /\ replies' = [replies EXCEPT ![r] = Append(@, m)]
    BY <1>0, <2>1, ErrorRight, ErrorReplyType DEF NotFound, Deliver, Request
  <2>. QED BY <1>0, <2>3, <2>4, SameShrinks, AnswerFrame
<1>2. CASE registry[s] # None
  <2>1. Goto(c, "pend", l) /\ replies' = replies
    BY <1>2 DEF Send
  <2>2. pc'[c] = "pend" /\ \A d \in Conn : d # c => pc'[d] = pc[d] /\ loc'[d] = loc[d]
    BY <2>1, GotoMoves
  <2>. QED BY <1>0, <2>1, <2>2 DEF AnswerInv, Addressed, AnswerCorrelated, Replying
<1>. QED BY <1>1, <1>2

LEMMA AnswerPend ==
  ASSUME TypeOK, TypeOK', ClaimInv, AnswerInv, NEW c \in Conn, Pend(c)
  PROVE  AnswerInv'
<1> DEFINE l == loc[c]
           r == <<c, l.id>>
<1>0. pc[c] = "pend" /\ l \in Locals /\ UNCHANGED <<inbox, replies>>
      /\ nextId \in Nat \ {0} /\ DOMAIN pending \subseteq 1 .. nextId - 1
  BY DEF Pend, TypeOK
<1>1. CASE l.id = None
  <2>1. Goto(c, "attempt", l) /\ UNCHANGED <<pending, nextId, addressee>>
    BY <1>1 DEF Pend
  <2>2. pc'[c] = "attempt" /\ \A d \in Conn : d # c => pc'[d] = pc[d] /\ loc'[d] = loc[d]
    BY <2>1, GotoMoves
  <2>. QED BY <1>0, <2>1, <2>2 DEF AnswerInv, Addressed, AnswerCorrelated, Replying
<1>2. CASE l.id # None
  <2> DEFINE e == [caller |-> c, id |-> l.id, responder |-> l.target]
  <2>1. /\ pending' = [k \in DOMAIN pending \cup {nextId} |-> IF k = nextId THEN e ELSE pending[k]]
        /\ nextId' = nextId + 1
        /\ addressee' = [addressee EXCEPT ![r] = l.target]
        /\ Goto(c, "attempt", [l EXCEPT !.bid = nextId])
    BY <1>2 DEF Pend
  <2>2. pc'[c] = "attempt" /\ \A d \in Conn : d # c => pc'[d] = pc[d] /\ loc'[d] = loc[d]
    BY <2>1, GotoMoves
  <2>3. EntryOf(e) = r /\ e.responder = l.target /\ Unclaimed(r) /\ nextId \notin DOMAIN pending
        /\ r \in Request
    BY <1>0, <1>2, RequestTypes DEF EntryOf, ClaimInv, OneClaim, AskedBy
  <2> HIDE DEF e
  <2>4. /\ DOMAIN pending' = DOMAIN pending \cup {nextId} /\ pending'[nextId] = e
        /\ \A b \in DOMAIN pending : pending'[b] = pending[b] /\ b # nextId
    BY <2>1, <2>3
  <2>5. \A d \in Conn : pc'[d] = "reply" => pc[d] = "reply" /\ loc'[d] = loc[d]
    BY <2>2
  <2>6. addressee'[r] = l.target /\ \A q \in Request : q # r => addressee'[q] = addressee[q]
    BY <2>1, <2>3 DEF TypeOK
  <2> HIDE DEF r
  <2>7. \A b \in DOMAIN pending' : pending'[b].responder = addressee'[EntryOf(pending'[b])]
    BY <2>3, <2>4, <2>6, RequestTypes DEF AnswerInv, Addressed, Unclaimed
  <2>8. ASSUME NEW d \in Conn, NEW m \in inbox'[d]
        PROVE  m[1] < nextId' /\ (m[1] \in DOMAIN pending' => m[2] = EntryOf(pending'[m[1]]))
    <3>1. m[1] \in Nat /\ m[1] < nextId /\ (m[1] \in DOMAIN pending => m[2] = EntryOf(pending[m[1]]))
      BY <1>0, <2>8 DEF AnswerInv, Addressed, TypeOK, BrokerId
    <3>. QED BY <1>0, <2>1, <2>4, <3>1
  <2>9. ASSUME NEW d \in Conn, pc'[d] = "reply"
        PROVE  addressee'[EntryOf(loc'[d].entry)] = d /\ loc'[d].to \in {EntryOf(loc'[d].entry), None}
    BY <2>3, <2>5, <2>6, <2>9, RequestTypes DEF AnswerInv, Addressed, Unclaimed, Replying
  <2>10. AnswerCorrelated'
    <3> SUFFICES ASSUME NEW q \in Request, NEW k \in DOMAIN replies[q]
                 PROVE  replies[q][k].kind = "answer"
                          => replies[q][k].from = addressee'[q] /\ replies[q][k].to \in {q, None}
      BY <1>0 DEF AnswerCorrelated
    <3>1. q # r
      BY <2>3 DEF Unclaimed
    <3>. QED BY <2>6, <3>1 DEF AnswerInv, AnswerCorrelated
  <2>. QED BY <2>7, <2>8, <2>9, <2>10 DEF AnswerInv, Addressed, Replying
<1>. QED BY <1>1, <1>2

LEMMA AnswerAttempt ==
  ASSUME TypeOK, TypeOK', ClaimInv, AnswerInv, NEW c \in Conn, Attempt(c)
  PROVE  AnswerInv'
<1> DEFINE l == loc[c]
<1>0. /\ pc[c] = "attempt" /\ UNCHANGED <<pending, nextId, addressee, replies>>
      /\ l \in Locals /\ l.target # None
  BY DEF Attempt, TypeOK
<1>1. \A d \in Conn : pc'[d] = "reply" => pc[d] = "reply" /\ loc'[d] = loc[d]
  BY GotoMoves DEF Attempt, Enqueue
<1>2. ASSUME NEW d \in Conn, NEW m \in inbox'[d]
      PROVE  m[1] < nextId /\ (m[1] \in DOMAIN pending => m[2] = EntryOf(pending[m[1]]))
  <2>1. CASE m \in inbox[d]
    BY <2>1 DEF AnswerInv, Addressed
  <2>2. CASE m \notin inbox[d]
    <3>1. l.id # None /\ inbox' = [inbox EXCEPT ![l.target] = @ \cup {<<l.bid, <<c, l.id>>>>}]
      BY <1>2, <2>2 DEF Attempt, Enqueue
    <3>2. m = <<l.bid, <<c, l.id>>>>
      BY <1>0, <1>2, <2>2, <3>1 DEF TypeOK
    <3>3. l.bid \in 1 .. nextId - 1 /\ (l.bid \in DOMAIN pending => EntryOf(pending[l.bid]) = <<c, l.id>>)
      BY <1>0, <3>1 DEF ClaimInv, OwnEntry, AskedBy
    <3>4. nextId \in Nat
      BY DEF TypeOK
    <3>. QED BY <3>2, <3>3, <3>4
  <2>. QED BY <2>1, <2>2
<1>. QED BY <1>0, <1>1, <1>2 DEF AnswerInv, Addressed, AnswerCorrelated, Replying

LEMMA AnswerTakeBack ==
  ASSUME TypeOK, TypeOK', ClaimInv, AnswerInv, NEW c \in Conn, TakeBack(c) \/ DropRoute(c)
  PROVE  AnswerInv'
<1>1. UNCHANGED <<nextId, addressee, inbox>>
  BY DEF TakeBack, DropRoute, histVars
<1>2. CASE DropRoute(c)
  <2>1. pc[c] = "dropRoute" /\ UNCHANGED <<pending, replies>>
        /\ Goto(c, "takeBack", [loc[c] EXCEPT !.target = None])
    BY <1>2 DEF DropRoute, histVars
  <2>2. \A d \in Conn : pc'[d] = "reply" => pc[d] = "reply" /\ loc'[d] = loc[d]
    BY <2>1, GotoMoves
  <2>. QED BY <1>1, <2>1, <2>2 DEF AnswerInv, Addressed, AnswerCorrelated, Replying
<1>3. CASE TakeBack(c)
  <2>1. /\ pc[c] = "takeBack" /\ pending' = Without({loc[c].bid}) /\ Goto(c, "tap", loc[c])
        /\ IF loc[c].bid \in DOMAIN pending THEN Deliver(<<c, loc[c].id>>, ErrorReply)
           ELSE replies' = replies
    BY <1>3 DEF TakeBack
  <2>2. "tap" \notin Busy
    BY DEF Busy
  <2>3. (\A d \in Conn : Calm(d)) /\ Shrinks
    BY <2>1, <2>2, CalmGoto, WithoutShrinks
  <2>4. loc[c].bid \in DOMAIN pending => <<c, loc[c].id>> \in Request
    <3>1. 0 \notin DOMAIN pending
      BY DEF TypeOK
    <3>2. loc[c].id = None <=> loc[c].bid = 0
      BY <2>1 DEF TypeOK
    <3>. QED BY <3>1, <3>2, RequestTypes DEF AskedBy
  <2>5. \/ replies' = replies
        \/ \E r \in Request, m \in Reply :
             Right(r, m) /\ replies' = [replies EXCEPT ![r] = Append(@, m)]
    BY <2>1, <2>4, ErrorRight, ErrorReplyType DEF Deliver
  <2>. QED BY <1>1, <2>3, <2>5, AnswerFrame
<1>. QED BY <1>2, <1>3

LEMMA AnswerReplyTo ==
  ASSUME TypeOK, TypeOK', AnswerInv, NEW c \in Conn, ReplyTo(c)
  PROVE  AnswerInv'
<1> DEFINE r == EntryOf(loc[c].entry)
           a == [kind |-> "answer", from |-> c, to |-> loc[c].to]
<1>0. /\ pc[c] = "reply" /\ Done(c) /\ UNCHANGED <<nextId, addressee, inbox, pending>>
      /\ Deliver(r, a) \/ Deliver(r, ErrorReply)
  BY DEF ReplyTo, EntryOf
<1>1. r \in Request
  BY <1>0, RequestTypes DEF Replying
<1>2. Right(r, a)
  BY <1>0 DEF Right, AnswerInv, Addressed, Replying
<1>3. a \in Reply
  BY DEF TypeOK, Locals, Reply, SomeConn
<1> HIDE DEF r, a
<1>4. \/ replies' = replies
      \/ \E q \in Request, m \in Reply :
           Right(q, m) /\ replies' = [replies EXCEPT ![q] = Append(@, m)]
  BY <1>0, <1>1, <1>2, <1>3, ErrorRight, ErrorReplyType DEF Deliver
<1>. QED BY <1>0, <1>4, CalmDone, SameShrinks, AnswerFrame

\* An entry goes to its responder only, with the request its own channel gave it.
LEMMA AnswerTaken ==
  ASSUME TypeOK, TypeOK', AnswerInv, NEW c \in Conn, NEW b, NEW q, TakeResponse(c, b, q),
         UNCHANGED <<nextId, addressee, inbox, replies>>,
         q \in {EntryOf(pending[b]), None}
  PROVE  AnswerInv'
<1> DEFINE x == [Clean EXCEPT
               !.entry = [caller |-> pending[b].caller, id |-> pending[b].id], !.to = q]
<1>1. b \in DOMAIN pending /\ pending[b].responder = c /\ pending' = Without({b})
      /\ Goto(c, "reply", x)
  BY DEF TakeResponse
<1>2. EntryOf(x.entry) = EntryOf(pending[b]) /\ x.to = q
  BY DEF EntryOf, Clean
<1> HIDE DEF x
<1>3. pc'[c] = "reply" /\ loc'[c] = x /\ \A d \in Conn : d # c => pc'[d] = pc[d] /\ loc'[d] = loc[d]
  BY <1>1, GotoMoves
<1>4. \A a \in DOMAIN pending' : a \in DOMAIN pending /\ pending'[a] = pending[a]
  BY <1>1 DEF Without
<1>5. addressee[EntryOf(pending[b])] = c
  BY <1>1 DEF AnswerInv, Addressed
<1>6. \A d \in Conn : pc'[d] = "reply" =>
        addressee[EntryOf(loc'[d].entry)] = d /\ loc'[d].to \in {EntryOf(loc'[d].entry), None}
  BY <1>2, <1>3, <1>5 DEF AnswerInv, Addressed, Replying
<1>. QED BY <1>4, <1>6 DEF AnswerInv, Addressed, AnswerCorrelated, Replying

LEMMA AnswerRespond ==
  ASSUME TypeOK, TypeOK', AnswerInv, NEW c \in Conn, Respond(c)
  PROVE  AnswerInv'
<1>1. UNCHANGED <<nextId, addressee, inbox, replies>>
  BY DEF Respond, histVars
<1>2. \A m \in inbox[c] : m[1] \in DOMAIN pending => m[2] = EntryOf(pending[m[1]])
  BY DEF AnswerInv, Addressed
<1>3. \E b, q : TakeResponse(c, b, q) /\ q \in {EntryOf(pending[b]), None}
  BY <1>2 DEF Respond, TakeResponse
<1>. QED BY <1>1, <1>3, AnswerTaken

LEMMA AnswerInit == Init => AnswerInv
BY DEF Init, AnswerInv, Addressed, AnswerCorrelated, Replying

LEMMA AnswerStep == TypeOK /\ ClaimInv /\ AnswerInv /\ [Next]_vars => AnswerInv'
<1> SUFFICES ASSUME TypeOK, ClaimInv, AnswerInv, [Next]_vars PROVE AnswerInv'
  OBVIOUS
<1>0. TypeOK'
  BY TypeStep
<1>1. ASSUME NEW c \in Conn, Handler(c) PROVE AnswerInv'
  BY <1>0, <1>1, AnswerQuiet, AnswerPend, AnswerAttempt, AnswerTakeBack, AnswerReplyTo DEF Handler
<1>2. ASSUME NEW c \in Conn, Client(c) PROVE AnswerInv'
  BY <1>0, <1>2, AnswerQuiet, AnswerSend, AnswerRespond DEF Client
<1>3. ASSUME NEW v \in Conn, RevokeDrain(v) \/ RevokeClose(v) PROVE AnswerInv'
  BY <1>0, <1>3, AnswerQuiet
<1>4. ASSUME UNCHANGED vars \/ \E V \in SUBSET live : Reload(V) PROVE AnswerInv'
  <2>1. \A d \in Conn : Calm(d)
    BY <1>4, CalmSame DEF Reload, vars, taskVars
  <2>2. UNCHANGED <<pending, nextId, addressee, inbox, replies>>
    BY <1>4 DEF Reload, vars, histVars
  <2>. QED BY <1>0, <2>1, <2>2, SameShrinks, AnswerFrame
<1>. QED BY <1>1, <1>2, <1>3, <1>4 DEF Next, ReloadTask

\* BROKER-001: an answer under request r was written by the connection r was
\* addressed to, as the answer to r, whatever ids callers choose.
THEOREM AnswersCorrelate == Spec => []AnswerCorrelated
<1>1. Spec => [](TypeOK /\ ClaimInv /\ AnswerInv)
  BY TypeInit, TypeStep, ClaimInit, ClaimStep, AnswerInit, AnswerStep, PTL DEF Spec
<1>. QED BY <1>1, PTL DEF AnswerInv

-----------------------------------------------------------------------------
(* NodeRouting implements ReplyPromise *)

\* A request stands in one place.
LEMMA StageIs ==
  ASSUME TypeOK, ClaimInv, NEW r \in Request
  PROVE  /\ Accepted(r) => Stage(r) = "accepted"
         /\ Waiting(r) => Stage(r) = "waiting" /\ ~Accepted(r) /\ replies[r] = <<>>
<1>1. ASSUME Accepted(r) PROVE r \in asked /\ Unclaimed(r)
  <2>1. PICK c \in Conn : pc[c] = "pend" /\ r = <<c, loc[c].id>>
    BY <1>1 DEF Accepted
  <2>2. loc[c].id # None
    BY <2>1, RoutingAssumption DEF Request
  <2>. QED BY <2>1, <2>2 DEF ClaimInv, InFlightAsked, OneClaim, Routing, AskedBy
<1>2. ASSUME Waiting(r) PROVE r \in asked /\ ~Unclaimed(r) /\ replies[r] = <<>>
  <2>1. CASE \E b \in DOMAIN pending : r = EntryOf(pending[b])
    BY <2>1 DEF ClaimInv, InFlightAsked, OneClaim, Unclaimed
  <2>2. CASE \E c \in Conn : Replying(c) /\ r = EntryOf(loc[c].entry)
    BY <2>2 DEF ClaimInv, InFlightAsked, OneClaim, Unclaimed
  <2>. QED BY <1>2, <2>1, <2>2 DEF Waiting, EntryOf, Replying
<1>. QED BY <1>1, <1>2 DEF Stage

\* Steps of d's task that leave every request where it is.
Aside(d) ==
  \/ pc'[d] = pc[d] /\ loc'[d] = loc[d]
  \/ pc[d] \notin {"pend", "reply"} /\ pc'[d] \notin {"pend", "reply"}

LEMMA AsideGoto ==
  ASSUME TypeOK, NEW c \in Conn, NEW label, NEW l, Goto(c, label, l),
         pc[c] \notin {"pend", "reply"}, label \notin {"pend", "reply"}
  PROVE  \A d \in Conn : Aside(d)
BY GotoMoves DEF Aside

\* Entries that go are requests abandoned.
LEMMA PromiseFrame ==
  ASSUME TypeOK, ClaimInv, Shrinks, \A d \in Conn : Aside(d), UNCHANGED <<asked, addressee, replies>>
  PROVE  RP!Next
<1> DEFINE S == {r \in Request : Waiting(r) /\ ~Waiting(r)'}
<1>1. ASSUME NEW r \in Request PROVE Accepted(r)' <=> Accepted(r)
  BY DEF Accepted, Aside
<1>2. ASSUME NEW r \in Request, Waiting(r)' PROVE Waiting(r)
  BY <1>2 DEF Waiting, Aside, Shrinks
<1>3. ASSUME NEW r \in Request
      PROVE  Stage(r)' = IF r \in S THEN "settled" ELSE Stage(r)
  <2>1. CASE r \in S
    <3>1. r \in asked /\ ~Accepted(r)
      BY <2>1, StageIs DEF Stage
    <3>. QED BY <1>1, <2>1, <3>1 DEF Stage
  <2>2. CASE r \notin S
    BY <1>1, <1>2, <2>2 DEF Stage
  <2>. QED BY <2>1, <2>2
<1>4. \A r \in S : r \in Request /\ Stage(r) = "waiting"
  BY StageIs
<1> HIDE DEF S
<1>5. S \in SUBSET Request
  BY <1>4
<1>6. RP!Abandon(S)
  BY <1>3, <1>4 DEF RP!Abandon
<1>. QED BY <1>5, <1>6 DEF RP!Next

\* One request goes on.
LEMMA MovesOne ==
  ASSUME NEW r \in Request, NEW a, NEW b, Stage(r) = a, Stage(r)' = b,
         \A q \in Request : q # r => Stage(q)' = Stage(q)
  PROVE  RP!Moves(r, a, b)
BY DEF RP!Moves

LEMMA PromiseQuiet ==
  ASSUME TypeOK, ClaimInv, NEW c \in Conn,
         \/ Connect(c) \/ WriterStops(c) \/ Deregister(c) \/ Deregistered(c) \/ TapOn(c)
         \/ Tap(c) \/ TapPrune(c) \/ Leave(c) \/ Drain(c) \/ Unregister(c)
         \/ RevokeDrain(c) \/ RevokeClose(c)
         \/ \E s \in Service : Register(c, s)
  PROVE  RP!Next
<1>1. UNCHANGED <<asked, addressee, replies>>
  BY DEF Connect, WriterStops, Deregister, Deregistered, TapOn, Tap, TapPrune, Leave, Drain,
         Unregister, RevokeDrain, RevokeClose, Register, histVars
<1>2. \A d \in Conn : Aside(d)
  <2>1. CASE UNCHANGED taskVars
    BY <2>1 DEF taskVars, Aside
  <2>2. CASE ~UNCHANGED taskVars
    <3>1. \E label, l : Goto(c, label, l) /\ label \notin {"pend", "reply"}
      BY <2>2 DEF Connect, WriterStops, Deregister, Deregistered, TapOn, Tap, TapPrune, Leave, Drain,
                  Unregister, RevokeDrain, RevokeClose, Register, Done
    <3>2. pc[c] \notin {"pend", "reply"}
      BY <2>2 DEF Connect, WriterStops, Deregister, Deregistered, TapOn, Tap, TapPrune, Leave, Drain,
                  Unregister, RevokeDrain, RevokeClose, Register, Ready
    <3>. QED BY <3>1, <3>2, AsideGoto
  <2>. QED BY <2>1, <2>2
<1>. QED BY <1>1, <1>2, QuietCalm, PromiseFrame

LEMMA PromiseSend ==
  ASSUME TypeOK, ClaimInv, NEW c \in Conn, NEW s \in Service,
         NEW i \in RequestId \cup {None}, Send(c, s, i)
  PROVE  RP!Next
<1> DEFINE l == [Clean EXCEPT !.svc = s, !.id = i, !.target = registry[s]]
           r == <<c, i>>
<1>0. /\ r \notin asked /\ pc[c] = "idle" /\ l.id = i
      /\ asked' = IF i = None THEN asked ELSE asked \cup {r}
      /\ UNCHANGED <<pending, addressee>>
  BY DEF Send, Ready, Clean
<1>1. PICK label \in {"tap", "pend"} :
        /\ Goto(c, label, l)
        /\ label = "pend" => replies' = replies
        /\ (label = "tap" /\ replies' # replies)
             => (i # None /\ replies' = [replies EXCEPT ![r] = Append(@, ErrorReply)])
  <2> HIDE DEF l
  <2>1. CASE registry[s] = None
    <3>1. NotFound(c, l)
      BY <2>1 DEF Send, l
    <3>. QED BY <1>0, <3>1 DEF NotFound, Deliver
  <2>2. CASE registry[s] # None
    <3>1. Goto(c, "pend", l) /\ replies' = replies
      BY <2>2 DEF Send, l
    <3>. QED BY <3>1
  <2>. QED BY <2>1, <2>2
<1>2. /\ pc'[c] = label /\ loc'[c].id = i
      /\ \A d \in Conn : d # c => pc'[d] = pc[d] /\ loc'[d] = loc[d]
  <2> HIDE DEF l
  <2>. QED BY <1>0, <1>1, GotoMoves
<1> HIDE DEF l
<1>3. \A q \in Request : Waiting(q)' <=> Waiting(q)
  BY <1>0, <1>2 DEF Waiting
<1>4. \A q \in Request : Accepted(q)' <=> Accepted(q) \/ (label = "pend" /\ q = r)
  BY <1>0, <1>2 DEF Accepted
<1>5. CASE i = None
  <2>1. r \notin Request
    BY <1>5, RoutingAssumption DEF Request
  <2>2. \A q \in Request : Stage(q)' = Stage(q)
    BY <1>0, <1>3, <1>4, <1>5, <2>1 DEF Stage
  <2>3. RP!Abandon({})
    BY <1>0, <1>1, <1>5, <2>2 DEF RP!Abandon
  <2>. QED BY <2>3 DEF RP!Next
<1>6. CASE i # None
  <2>1. r \in Request /\ Unclaimed(r) /\ Stage(r) = "new"
    BY <1>0, <1>6, FreshUnclaimed DEF Request, Stage
  <2>2. ~Waiting(r)
    BY <2>1 DEF Waiting, Unclaimed, EntryOf, Replying
  <2>3. ~Accepted(r)
    BY <1>0, <2>1, StageIs DEF Stage
  <2> HIDE DEF r
  <2>4. \A q \in Request : q # r => Stage(q)' = Stage(q)
    BY <1>0, <1>3, <1>4, <1>6 DEF Stage
  <2>5. CASE label = "pend"
    <3>1. Stage(r)' = "accepted"
      BY <1>0, <1>4, <1>6, <2>1, <2>5 DEF Stage
    <3>2. RP!Accept(r)
      BY <1>0, <1>1, <2>1, <2>4, <2>5, <3>1, MovesOne DEF RP!Accept
    <3>. QED BY <2>1, <3>2 DEF RP!Next
  <2>6. CASE label = "tap"
    <3>1. Stage(r)' = "settled"
      BY <1>0, <1>3, <1>4, <1>6, <2>1, <2>2, <2>3, <2>6 DEF Stage
    <3>2. RP!Moves(r, "new", "settled")
      BY <2>1, <2>4, <3>1, MovesOne
    <3>3. RP!Tells(r, ErrorReply) \/ replies' = replies
      <4>1. replies[r] = <<>> /\ Append(<<>>, ErrorReply) = <<ErrorReply>>
        BY <2>1 DEF Unclaimed
      <4>2. CASE replies' = [replies EXCEPT ![r] = Append(@, ErrorReply)]
        <5>1. replies' = [replies EXCEPT ![r] = <<ErrorReply>>]
          BY <2>1, <4>1, <4>2 DEF TypeOK
        <5>. QED BY <4>1, <5>1 DEF RP!Tells
      <4>. QED BY <1>1, <2>6, <4>2
    <3>4. RP!Refuse(r)
      BY <1>0, <3>2, <3>3 DEF RP!Refuse, RP!Error, ErrorReply
    <3>. QED BY <2>1, <3>4 DEF RP!Next
  <2>. QED BY <2>5, <2>6
<1>. QED BY <1>5, <1>6

LEMMA PromisePend ==
  ASSUME TypeOK, ClaimInv, NEW c \in Conn, Pend(c)
  PROVE  RP!Next
<1> DEFINE l == loc[c]
<1>r. PICK r : r = <<c, l.id>>
  OBVIOUS
<1>0. /\ pc[c] = "pend" /\ l \in Locals /\ l.target \in Conn /\ UNCHANGED <<asked, replies>>
      /\ nextId \in Nat \ {0} /\ DOMAIN pending \subseteq 1 .. nextId - 1
  BY DEF Pend, TypeOK, Locals, SomeConn
<1>1. pc'[c] = "attempt" /\ \A d \in Conn : d # c => pc'[d] = pc[d] /\ loc'[d] = loc[d]
  BY GotoMoves DEF Pend
<1>2. CASE l.id = None
  <2>1. UNCHANGED <<pending, addressee>>
    BY <1>2 DEF Pend
  <2>2. \A q \in Request : q # r
    BY <1>r, <1>2, RoutingAssumption DEF Request
  <2>3. \A q \in Request : (Accepted(q)' <=> Accepted(q)) /\ (Waiting(q)' <=> Waiting(q))
    BY <1>r, <1>0, <1>1, <2>1, <2>2 DEF Accepted, Waiting
  <2>4. \A q \in Request : Stage(q)' = Stage(q)
    BY <1>0, <2>3 DEF Stage
  <2>5. RP!Abandon({})
    BY <1>0, <2>1, <2>4 DEF RP!Abandon
  <2>. QED BY <2>5 DEF RP!Next
<1>3. CASE l.id # None
  <2> DEFINE e == [caller |-> c, id |-> l.id, responder |-> l.target]
  <2>1. /\ pending' = [k \in DOMAIN pending \cup {nextId} |-> IF k = nextId THEN e ELSE pending[k]]
        /\ addressee' = [addressee EXCEPT ![r] = l.target]
    BY <1>r, <1>3 DEF Pend
  <2>2. /\ DOMAIN pending' = DOMAIN pending \cup {nextId} /\ nextId \notin DOMAIN pending
        /\ <<pending'[nextId].caller, pending'[nextId].id>> = r
        /\ \A b \in DOMAIN pending : pending'[b] = pending[b]
    BY <1>r, <1>0, <2>1
  <2>3. r \in Request /\ Accepted(r)
    BY <1>r, <1>0, <1>3 DEF Accepted, Locals, Request
  <2>4. \A q \in Request : (Accepted(q)' <=> Accepted(q) /\ q # r) /\ (Waiting(q)' <=> Waiting(q) \/ q = r)
    <3>1. ASSUME NEW q \in Request PROVE Accepted(q)' <=> Accepted(q) /\ q # r
      BY <1>r, <1>0, <1>1 DEF Accepted
    <3>2. ASSUME NEW q \in Request PROVE Waiting(q)' <=> Waiting(q) \/ q = r
      BY <1>0, <1>1, <2>2 DEF Waiting
    <3>. QED BY <3>1, <3>2
  <2>5. Stage(r) = "accepted" /\ r \in asked
    BY <2>3, StageIs DEF Stage
  <2> HIDE DEF l, e
  <2>6. Stage(r)' = "waiting" /\ \A q \in Request : q # r => Stage(q)' = Stage(q)
    BY <1>0, <2>3, <2>4, <2>5 DEF Stage
  <2>7. RP!Forward(r, l.target)
    BY <1>0, <2>1, <2>3, <2>5, <2>6, MovesOne DEF RP!Forward
  <2>. QED BY <1>0, <2>3, <2>7 DEF RP!Next
<1>. QED BY <1>2, <1>3

LEMMA PromiseAttempt ==
  ASSUME TypeOK, ClaimInv, NEW c \in Conn, Attempt(c) \/ DropRoute(c)
  PROVE  RP!Next
<1>1. UNCHANGED <<pending, asked, addressee, replies>> /\ pc[c] \in {"attempt", "dropRoute"}
  BY DEF Attempt, DropRoute, histVars
<1>2. \E label, l : Goto(c, label, l) /\ label \notin {"pend", "reply"}
  BY DEF Attempt, DropRoute, Enqueue
<1>3. \A d \in Conn : Aside(d)
  BY <1>1, <1>2, AsideGoto
<1>. QED BY <1>1, <1>3, SameShrinks, PromiseFrame

\* A request leaves the table, or the task that took it from there, with a reply.
LEMMA PromiseSettle ==
  ASSUME TypeOK, ClaimInv, NEW r \in Request, NEW m, m = ErrorReply \/ m \in RP!Answers(r),
         Waiting(r), replies' = [replies EXCEPT ![r] = Append(@, m)],
         UNCHANGED <<asked, addressee>>,
         \A q \in Request : (Accepted(q)' <=> Accepted(q)) /\ (Waiting(q)' <=> Waiting(q) /\ q # r)
  PROVE  RP!Next
<1>1. Stage(r) = "waiting" /\ r \in asked /\ ~Accepted(r) /\ replies[r] = <<>>
  BY StageIs DEF Stage
<1>2. Stage(r)' = "settled" /\ \A q \in Request : q # r => Stage(q)' = Stage(q)
  BY <1>1 DEF Stage
<1>3. RP!Tells(r, m)
  <2>1. Append(<<>>, m) = <<m>>
    OBVIOUS
  <2>2. replies' = [replies EXCEPT ![r] = <<m>>]
    BY <1>1, <2>1 DEF TypeOK
  <2>. QED BY <1>1, <2>2 DEF RP!Tells
<1>4. m \in RP!Answers(r) \cup {RP!Error}
  BY DEF ErrorReply, RP!Error
<1>5. RP!Settle(r)
  BY <1>1, <1>2, <1>3, <1>4, MovesOne DEF RP!Settle
<1>. QED BY <1>5 DEF RP!Next

LEMMA PromiseTakeBack ==
  ASSUME TypeOK, ClaimInv, NEW c \in Conn, TakeBack(c)
  PROVE  RP!Next
<1> DEFINE l == loc[c]
           r == <<c, l.id>>
<1>0. /\ pc[c] = "takeBack" /\ pending' = Without({l.bid}) /\ Goto(c, "tap", l)
      /\ UNCHANGED <<addressee, asked>>
      /\ IF l.bid \in DOMAIN pending THEN Deliver(r, ErrorReply) ELSE replies' = replies
  BY DEF TakeBack
<1>1. (\A d \in Conn : Aside(d)) /\ Shrinks
  BY <1>0, AsideGoto, WithoutShrinks
<1>2. CASE replies' = replies
  BY <1>0, <1>1, <1>2, PromiseFrame
<1>3. CASE replies' # replies
  <2>1. l.bid \in DOMAIN pending /\ replies' = [replies EXCEPT ![r] = Append(@, ErrorReply)]
    BY <1>0, <1>3 DEF Deliver
  <2>2. l.id # None
    <3>1. l.bid # 0
      BY <2>1 DEF TypeOK
    <3>. QED BY <1>0, <3>1 DEF ClaimInv, OwnEntry
  <2>3. EntryOf(pending[l.bid]) = r /\ r \in Request
    <3>1. EntryOf(pending[l.bid]) = r
      BY <1>0, <2>1, <2>2 DEF ClaimInv, OwnEntry, AskedBy
    <3>. QED BY <2>1, <3>1, RequestTypes
  <2>4. /\ DOMAIN pending' = DOMAIN pending \ {l.bid}
        /\ \A b \in DOMAIN pending' : pending'[b] = pending[b] /\ EntryOf(pending[b]) # r
        /\ \A d \in Conn : pc[d] = "reply" => EntryOf(loc[d].entry) # r
    BY <1>0, <2>1, <2>3 DEF Without, ClaimInv, OneClaim, Replying
  <2>5. Waiting(r)
    BY <2>1, <2>3 DEF Waiting, EntryOf
  <2>6. ASSUME NEW q \in Request PROVE Accepted(q)' <=> Accepted(q)
    BY <1>1 DEF Accepted, Aside
  <2>7. ASSUME NEW q \in Request PROVE Waiting(q)' <=> Waiting(q) /\ q # r
    <3> HIDE DEF r, l
    <3>1. ASSUME Waiting(q)' PROVE Waiting(q) /\ q # r
      BY <1>1, <2>4, <3>1 DEF Waiting, EntryOf, Aside
    <3>2. ASSUME Waiting(q), q # r PROVE Waiting(q)'
      BY <1>1, <2>3, <2>4, <3>2 DEF Waiting, EntryOf, Aside
    <3>. QED BY <3>1, <3>2
  <2> HIDE DEF r
  <2>. QED BY <1>0, <2>1, <2>3, <2>5, <2>6, <2>7, PromiseSettle
<1>. QED BY <1>2, <1>3

LEMMA PromiseReplyTo ==
  ASSUME TypeOK, ClaimInv, AnswerInv, NEW c \in Conn, ReplyTo(c)
  PROVE  RP!Next
<1> DEFINE r == EntryOf(loc[c].entry)
           a == [kind |-> "answer", from |-> c, to |-> loc[c].to]
<1>0. /\ pc[c] = "reply" /\ Done(c) /\ UNCHANGED <<addressee, asked, pending>>
      /\ Deliver(r, a) \/ Deliver(r, ErrorReply)
  BY DEF ReplyTo, EntryOf
<1>1. r \in Request /\ Waiting(r)
  BY <1>0, RequestTypes DEF Replying, Waiting, EntryOf
<1>2. a \in RP!Answers(r)
  BY <1>0 DEF RP!Answers, AnswerInv, Addressed, Replying
<1>3. /\ \A b \in DOMAIN pending : EntryOf(pending[b]) # r
      /\ \A d \in Conn : pc[d] = "reply" /\ d # c => EntryOf(loc[d].entry) # r
  BY <1>0 DEF ClaimInv, OneClaim, Replying
<1>4. pc'[c] = "idle" /\ \A d \in Conn : d # c => pc'[d] = pc[d] /\ loc'[d] = loc[d]
  BY <1>0, GotoMoves DEF Done
<1>5. ASSUME NEW q \in Request PROVE Accepted(q)' <=> Accepted(q)
  BY <1>0, <1>4 DEF Accepted
<1>6. ASSUME NEW q \in Request PROVE Waiting(q)' <=> Waiting(q) /\ q # r
  BY <1>0, <1>3, <1>4 DEF Waiting, EntryOf
<1> HIDE DEF r, a
<1>7. CASE replies' = replies
  <2>1. Stage(r) = "waiting" /\ r \in asked /\ ~Accepted(r)
    BY <1>1, StageIs DEF Stage
  <2>2. \A q \in Request : Stage(q)' = IF q \in {r} THEN "settled" ELSE Stage(q)
    BY <1>0, <1>5, <1>6, <2>1 DEF Stage
  <2>3. RP!Abandon({r}) /\ {r} \in SUBSET Request
    BY <1>0, <1>1, <1>7, <2>1, <2>2 DEF RP!Abandon
  <2>. QED BY <2>3 DEF RP!Next
<1>8. CASE replies' # replies
  BY <1>0, <1>1, <1>2, <1>5, <1>6, <1>8, PromiseSettle DEF Deliver
<1>. QED BY <1>7, <1>8

LEMMA PromiseRespond ==
  ASSUME TypeOK, ClaimInv, NEW c \in Conn, Respond(c)
  PROVE  RP!Next
<1>0. pc[c] = "idle" /\ UNCHANGED <<asked, addressee, replies>>
  BY DEF Respond, Ready, histVars
<1>1. PICK b, q : TakeResponse(c, b, q)
  BY DEF Respond
<1> DEFINE e == [caller |-> pending[b].caller, id |-> pending[b].id]
           x == [Clean EXCEPT !.entry = e, !.to = q]
<1>2. b \in DOMAIN pending /\ pending' = Without({b}) /\ Goto(c, "reply", x) /\ x.entry = e
  BY <1>1 DEF TakeResponse, Clean
<1>3. e.caller = pending[b].caller /\ e.id = pending[b].id
  OBVIOUS
<1> HIDE DEF x, e
<1>4. pc'[c] = "reply" /\ loc'[c].entry = e /\ \A d \in Conn : d # c => pc'[d] = pc[d] /\ loc'[d] = loc[d]
  BY <1>2, GotoMoves
<1>5. DOMAIN pending' = DOMAIN pending \ {b} /\ \A k \in DOMAIN pending' : pending'[k] = pending[k]
  BY <1>2 DEF Without
<1>6. ASSUME NEW r \in Request PROVE Accepted(r)' <=> Accepted(r)
  BY <1>0, <1>4 DEF Accepted
<1>7. ASSUME NEW r \in Request PROVE Waiting(r)' <=> Waiting(r)
  <2>1. ASSUME NEW k \in DOMAIN pending', r = <<pending'[k].caller, pending'[k].id>> PROVE Waiting(r)
    BY <1>5, <2>1 DEF Waiting
  <2>2. ASSUME NEW d \in Conn, pc'[d] = "reply", r = <<loc'[d].entry.caller, loc'[d].entry.id>>
        PROVE  Waiting(r)
    <3>1. CASE d = c
      BY <1>2, <1>3, <1>4, <2>2, <3>1 DEF Waiting
    <3>2. CASE d # c
      BY <1>4, <2>2, <3>2 DEF Waiting
    <3>. QED BY <3>1, <3>2
  <2>3. ASSUME NEW k \in DOMAIN pending, r = <<pending[k].caller, pending[k].id>> PROVE Waiting(r)'
    <3>1. CASE k = b
      BY <1>3, <1>4, <2>3, <3>1 DEF Waiting
    <3>2. CASE k # b
      BY <1>5, <2>3, <3>2 DEF Waiting
    <3>. QED BY <3>1, <3>2
  <2>4. ASSUME NEW d \in Conn, pc[d] = "reply", r = <<loc[d].entry.caller, loc[d].entry.id>>
        PROVE  Waiting(r)'
    BY <1>0, <1>4, <2>4 DEF Waiting
  <2>. QED BY <2>1, <2>2, <2>3, <2>4 DEF Waiting
<1>8. \A r \in Request : Stage(r)' = Stage(r)
  BY <1>0, <1>6, <1>7 DEF Stage
<1>9. RP!Abandon({})
  BY <1>0, <1>8 DEF RP!Abandon
<1>. QED BY <1>9 DEF RP!Next

LEMMA PromiseInit == Init => RP!Init
<1> SUFFICES ASSUME Init PROVE RP!Init
  OBVIOUS
<1>1. asked = {} /\ addressee = [r \in Request |-> None] /\ replies = [r \in Request |-> <<>>]
  BY DEF Init
<1>2. \A r \in Request : Stage(r) = "new"
  BY <1>1 DEF Stage
<1>. QED BY <1>1, <1>2 DEF RP!Init

LEMMA PromiseStep == TypeOK /\ ClaimInv /\ AnswerInv /\ [Next]_vars => [RP!Next]_(RP!vars)
<1> SUFFICES ASSUME TypeOK, ClaimInv, AnswerInv, [Next]_vars PROVE RP!Next
  OBVIOUS
<1>1. ASSUME NEW c \in Conn, Handler(c) PROVE RP!Next
  BY <1>1, PromiseQuiet, PromisePend, PromiseAttempt, PromiseTakeBack, PromiseReplyTo DEF Handler
<1>2. ASSUME NEW c \in Conn, Client(c) PROVE RP!Next
  BY <1>2, PromiseQuiet, PromiseSend, PromiseRespond DEF Client
<1>3. ASSUME NEW v \in Conn, RevokeDrain(v) \/ RevokeClose(v) PROVE RP!Next
  BY <1>3, PromiseQuiet
<1>4. ASSUME UNCHANGED vars \/ \E V \in SUBSET live : Reload(V) PROVE RP!Next
  <2>1. \A d \in Conn : Aside(d)
    BY <1>4 DEF Reload, vars, taskVars, Aside
  <2>2. UNCHANGED <<pending, asked, addressee, replies>>
    BY <1>4 DEF Reload, vars, histVars
  <2>. QED BY <2>1, <2>2, SameShrinks, PromiseFrame
<1>. QED BY <1>1, <1>2, <1>3, <1>4 DEF Next, ReloadTask

\* The broker's tables, ids and tasks implement the promise: for any connections,
\* names and request ids, a request is settled once, by the connection it was forwarded
\* to or by the broker, and a reply comes at that moment or never; not after a
\* cleanup or a reload has drained it, and not for a failed delivery whose
\* entry somebody else has taken.
THEOREM KeepsPromise == Spec => PromiseKept
<1>1. Spec => [](TypeOK /\ ClaimInv /\ AnswerInv)
  BY TypeInit, TypeStep, ClaimInit, ClaimStep, AnswerInit, AnswerStep, PTL DEF Spec
<1>. QED BY <1>1, PromiseInit, PromiseStep, PTL DEF Spec, PromiseKept, RP!Spec

-----------------------------------------------------------------------------
(* The correlation table and the cleanup of callers *)

LEMMA CallerFrame ==
  ASSUME TypeOK, PendingHasCaller, Shrinks,
         \A d \in Conn : pc'[d] \in {"unregister", "gone"} => pc[d] \in {"unregister", "gone"}
  PROVE  PendingHasCaller'
<1>1. \A b \in DOMAIN pending' : b \in DOMAIN pending /\ pending'[b] = pending[b]
                                 /\ pending[b].caller \in Conn
  BY DEF Shrinks, TypeOK, Entry
<1>. QED BY <1>1 DEF PendingHasCaller

LEMMA CallerStep == TypeOK /\ PendingHasCaller /\ [Next]_vars => PendingHasCaller'
<1> SUFFICES ASSUME TypeOK, PendingHasCaller, [Next]_vars PROVE PendingHasCaller'
  OBVIOUS
<1>1. ASSUME NEW c \in Conn, Pend(c) PROVE PendingHasCaller'
  <2>1. pc'[c] = "attempt" /\ \A d \in Conn : d # c => pc'[d] = pc[d]
    BY <1>1, GotoMoves DEF Pend
  <2>2. \A b \in DOMAIN pending' : pending'[b].caller = c \/ (b \in DOMAIN pending /\ pending'[b] = pending[b])
    BY <1>1 DEF Pend
  <2>3. \A b \in DOMAIN pending : pending[b].caller \in Conn
    BY DEF TypeOK, Entry
  <2>. QED BY <2>1, <2>2, <2>3 DEF PendingHasCaller
<1>2. ASSUME NEW c \in Conn, Drain(c) PROVE PendingHasCaller'
  <2>1. pending' = Without(PendingOf(c)) /\ Goto(c, "unregister", Clean)
    BY <1>2 DEF Drain
  <2>2. \A d \in Conn : d # c => pc'[d] = pc[d]
    BY <2>1, GotoMoves
  <2>3. \A b \in DOMAIN pending' : b \in DOMAIN pending /\ pending'[b] = pending[b]
                                   /\ pending[b].caller # c /\ pending[b].caller \in Conn
    BY <2>1 DEF Without, PendingOf, TypeOK, Entry
  <2>. QED BY <2>2, <2>3 DEF PendingHasCaller
<1>3. ASSUME NEW c \in Conn, Unregister(c) PROVE PendingHasCaller'
  <2>1. pc[c] = "unregister" /\ \A d \in Conn : d # c => pc'[d] = pc[d]
    BY <1>3, GotoMoves DEF Unregister
  <2>2. Shrinks
    BY <1>3, SameShrinks DEF Unregister
  <2>. QED BY <2>1, <2>2, CallerFrame
<1>4. ASSUME NEW c \in Conn, NEW label, NEW l, Goto(c, label, l), Shrinks,
             label \notin {"unregister", "gone"}
      PROVE  PendingHasCaller'
  BY <1>4, GotoMoves, CallerFrame
<1>5. ASSUME UNCHANGED taskVars, Shrinks PROVE PendingHasCaller'
  BY <1>5, CallerFrame DEF taskVars
<1>6. ASSUME NEW c \in Conn, Handler(c) PROVE PendingHasCaller'
  <2>1. CASE Attempt(c)
    BY <1>4, <2>1, SameShrinks DEF Attempt, Enqueue
  <2>2. CASE DropRoute(c) \/ Tap(c) \/ TapPrune(c) \/ Deregistered(c) \/ ReplyTo(c) \/ Leave(c)
    BY <1>4, <2>2, SameShrinks DEF DropRoute, Tap, TapPrune, Deregistered, ReplyTo, Leave, Done
  <2>3. CASE TakeBack(c)
    BY <1>4, <2>3, WithoutShrinks DEF TakeBack
  <2>. QED BY <1>1, <1>2, <1>3, <1>6, <2>1, <2>2, <2>3 DEF Handler
<1>7. ASSUME NEW c \in Conn, Client(c) PROVE PendingHasCaller'
  <2>1. CASE Connect(c) \/ Leave(c)
    BY <1>4, <2>1, SameShrinks DEF Connect, Leave, Done
  <2>2. CASE WriterStops(c) \/ TapOn(c) \/ \E s \in Service : Register(c, s)
    BY <1>5, <2>2, SameShrinks DEF WriterStops, TapOn, Register
  <2>3. CASE Deregister(c)
    BY <1>4, <1>5, <2>3, SameShrinks DEF Deregister
  <2>4. CASE Respond(c)
    <3>1. PICK b, q : TakeResponse(c, b, q)
      BY <2>4 DEF Respond
    <3>2. Shrinks
      BY <3>1, WithoutShrinks DEF TakeResponse
    <3>. QED BY <1>4, <3>1, <3>2 DEF TakeResponse
  <2>5. CASE \E s \in Service, i \in RequestId \cup {None} : Send(c, s, i)
    BY <1>4, <2>5, SameShrinks DEF Send, NotFound
  <2>. QED BY <1>7, <2>1, <2>2, <2>3, <2>4, <2>5 DEF Client
<1>8. CASE ReloadTask \/ UNCHANGED vars \/ \E V \in SUBSET live : Reload(V)
  <2>1. UNCHANGED taskVars
    BY <1>8 DEF ReloadTask, RevokeDrain, RevokeClose, Reload, vars, taskVars
  <2>2. Shrinks
    <3>1. pending' = pending \/ \E B : pending' = Without(B)
      BY <1>8 DEF ReloadTask, RevokeDrain, RevokeClose, Reload, vars
    <3>. QED BY <3>1, WithoutShrinks, SameShrinks
  <2>. QED BY <1>5, <2>1, <2>2
<1>. QED BY <1>6, <1>7, <1>8 DEF Next

\* Past its own drain, however that raced a reload's, a connection has no
\* request left in the correlation table.
THEOREM CallersDrained == Spec => []PendingHasCaller
<1>1. Init => PendingHasCaller
  BY DEF Init, PendingHasCaller
<1>. QED BY <1>1, TypeInit, TypeStep, CallerStep, PTL DEF Spec

-----------------------------------------------------------------------------
(* Names *)

\* A bound name is the service_name of a task whose cleanup is to come, or the
\* one a deregistration has taken and is about to unbind.
BoundIsKnown ==
  \A s \in Service : LET c == registry[s] IN
    c # None => /\ name[c] = s \/ (pc[c] = "dereg" /\ loc[c].svc = s)
                /\ pc[c] \notin {"off", "gone"}

Between ==
  /\ \A c \in Conn : pc[c] = "dereg" => name[c] = None
  /\ \A c \in Conn : pc[c] = "dropRoute" =>
       loc[c].target \notin open /\ pc[loc[c].target] # "off"

RetiredUnbound == \A s \in Service : registry[s] \notin retired

NameInv == BoundIsKnown /\ Between /\ RetiredUnbound

Unbinding == {"off", "gone", "dereg", "dropRoute"}

\* A step that leaves the names alone; a task may move past the labels that the
\* invariant speaks of, and a new connection open.
LEMMA NameFrame ==
  ASSUME TypeOK, NameInv, UNCHANGED <<registry, name, retired>>,
         \A d \in Conn : d \in open' => d \in open \/ pc[d] = "off",
         \A d \in Conn : \/ pc'[d] = pc[d] /\ loc'[d] = loc[d]
                         \/ pc[d] # "dereg" /\ pc'[d] \notin Unbinding
  PROVE  NameInv'
<1>1. BoundIsKnown'
  <2> SUFFICES ASSUME NEW s \in Service, registry[s] # None
               PROVE  /\ \/ name[registry[s]] = s
                         \/ pc'[registry[s]] = "dereg" /\ loc'[registry[s]].svc = s
                      /\ pc'[registry[s]] \notin {"off", "gone"}
    BY DEF BoundIsKnown
  <2>1. registry[s] \in Conn
    BY DEF TypeOK, SomeConn
  <2>. QED BY <2>1 DEF NameInv, BoundIsKnown, Unbinding
<1>2. Between'
  <2>1. ASSUME NEW c \in Conn, pc'[c] = "dereg" PROVE name'[c] = None
    BY <2>1 DEF NameInv, Between, Unbinding
  <2>2. ASSUME NEW c \in Conn, pc'[c] = "dropRoute"
        PROVE  loc'[c].target \notin open' /\ pc'[loc'[c].target] # "off"
    <3>1. pc[c] = "dropRoute" /\ loc'[c] = loc[c]
      BY <2>2 DEF Unbinding
    <3>2. loc[c].target \in Conn
      BY <3>1 DEF TypeOK, Locals, SomeConn
    <3>3. loc[c].target \notin open /\ pc[loc[c].target] # "off"
      BY <3>1 DEF NameInv, Between
    <3>. QED BY <3>1, <3>2, <3>3 DEF Unbinding
  <2>. QED BY <2>1, <2>2 DEF Between
<1>3. RetiredUnbound'
  BY DEF NameInv, RetiredUnbound
<1>. QED BY <1>1, <1>2, <1>3 DEF NameInv

\* Everything a task does that neither binds nor unbinds.
LEMMA NameGoto ==
  ASSUME TypeOK, NameInv, UNCHANGED <<registry, name, retired>>,
         NEW c \in Conn, NEW label, NEW l, Goto(c, label, l),
         pc[c] # "dereg", label \notin Unbinding,
         open' \subseteq open \/ (pc[c] = "off" /\ open' = open \cup {c})
  PROVE  NameInv'
BY GotoMoves, NameFrame

LEMMA NameSame ==
  ASSUME TypeOK, NameInv, UNCHANGED <<registry, name, retired>>, UNCHANGED taskVars, open' \subseteq open
  PROVE  NameInv'
BY NameFrame DEF taskVars

LEMMA NameQuiet ==
  ASSUME TypeOK, NameInv, NEW c \in Conn,
         \/ Connect(c) \/ WriterStops(c) \/ TapOn(c) \/ Pend(c) \/ TakeBack(c)
         \/ Tap(c) \/ TapPrune(c) \/ Respond(c) \/ ReplyTo(c) \/ Leave(c) \/ Drain(c)
         \/ RevokeDrain(c) \/ RevokeClose(c)
         \/ \E s \in Service, i \in RequestId \cup {None} : Send(c, s, i)
  PROVE  NameInv'
<1>0. {"idle", "attempt", "tap", "prune", "panicked", "reply", "drain", "unregister", "pend"}
        \cap Unbinding = {}
  BY DEF Unbinding
<1>1. UNCHANGED <<registry, name, retired>>
  BY DEF Connect, WriterStops, TapOn, Pend, TakeBack, Tap, TapPrune, Respond, ReplyTo, Leave,
         Drain, RevokeDrain, RevokeClose, Send
<1>2. CASE Connect(c)
  BY <1>0, <1>1, <1>2, NameGoto DEF Connect, Done
<1>3. CASE WriterStops(c) \/ TapOn(c) \/ RevokeDrain(c) \/ RevokeClose(c)
  BY <1>1, <1>3, NameSame DEF WriterStops, TapOn, RevokeDrain, RevokeClose
<1>4. CASE Pend(c) \/ TakeBack(c)
  BY <1>0, <1>1, <1>4, NameGoto DEF Pend, TakeBack
<1>5. CASE Tap(c) \/ TapPrune(c)
  BY <1>0, <1>1, <1>5, NameGoto DEF Tap, TapPrune, Done
<1>6. CASE Respond(c)
  BY <1>0, <1>1, <1>6, NameGoto DEF Respond, TakeResponse, Ready
<1>7. CASE ReplyTo(c) \/ Leave(c) \/ Drain(c)
  BY <1>0, <1>1, <1>7, NameGoto DEF ReplyTo, Done, Leave, Drain
<1>8. CASE \E s \in Service, i \in RequestId \cup {None} : Send(c, s, i)
  BY <1>0, <1>1, <1>8, NameGoto DEF Send, NotFound, Ready
<1>. QED BY <1>2, <1>3, <1>4, <1>5, <1>6, <1>7, <1>8

LEMMA NameAttempt ==
  ASSUME TypeOK, NameInv, NEW c \in Conn, Attempt(c)
  PROVE  NameInv'
<1> DEFINE l == loc[c]
<1>0. /\ pc[c] = "attempt" /\ UNCHANGED <<registry, name, retired, open>>
      /\ "tap" \notin Unbinding /\ "takeBack" \notin Unbinding
  BY DEF Attempt, Unbinding
<1>1. CASE Goto(c, "tap", l) \/ Goto(c, "takeBack", l)
  BY <1>0, <1>1, NameGoto
<1>2. CASE registry[l.svc] = l.target /\ l.target \notin open /\ Goto(c, "dropRoute", l)
  <2>1. /\ pc'[c] = "dropRoute" /\ loc'[c] = l
        /\ \A d \in Conn : d # c => pc'[d] = pc[d] /\ loc'[d] = loc[d]
    BY <1>2, GotoMoves
  <2>2. l.svc \in Service /\ l.target \in Conn /\ l.target # None
    BY <1>0 DEF TypeOK, Locals, SomeConn
  <2>3. pc[l.target] # "off"
    BY <1>2, <2>2 DEF NameInv, BoundIsKnown
  <2>4. pc'[l.target] # "off"
    BY <2>1, <2>2, <2>3
  <2>5. BoundIsKnown'
    <3> SUFFICES ASSUME NEW s \in Service, registry[s] # None
                 PROVE  /\ \/ name[registry[s]] = s
                           \/ pc'[registry[s]] = "dereg" /\ loc'[registry[s]].svc = s
                        /\ pc'[registry[s]] \notin {"off", "gone"}
      BY <1>0 DEF BoundIsKnown
    <3>1. registry[s] \in Conn
      BY DEF TypeOK, SomeConn
    <3>. QED BY <1>0, <2>1, <3>1 DEF NameInv, BoundIsKnown
  <2>6. ASSUME NEW d \in Conn, pc'[d] = "dropRoute"
        PROVE  loc'[d].target \notin open /\ pc'[loc'[d].target] # "off"
    <3>1. CASE d = c
      BY <1>2, <2>1, <2>4, <3>1
    <3>2. CASE d # c
      <4>1. loc[d].target \notin open /\ pc[loc[d].target] # "off" /\ loc[d].target \in Conn
        BY <2>1, <2>6, <3>2 DEF NameInv, Between, TypeOK, Locals, SomeConn
      <4>. QED BY <2>1, <3>2, <4>1
    <3>. QED BY <3>1, <3>2
  <2>7. \A d \in Conn : pc'[d] = "dereg" => name[d] = None
    BY <2>1 DEF NameInv, Between
  <2>. QED BY <1>0, <2>5, <2>6, <2>7 DEF NameInv, Between, RetiredUnbound
<1>. QED BY <1>1, <1>2 DEF Attempt, Enqueue

LEMMA NameRegister ==
  ASSUME TypeOK, NameInv, NEW c \in Conn, NEW s \in Service, Register(c, s)
  PROVE  NameInv'
<1>0. pc[c] = "idle" /\ UNCHANGED <<pc, loc, open>>
  BY DEF Register, Ready, taskVars
<1>1. CASE registry[s] \notin {None, c}
  BY <1>0, <1>1, NameSame DEF Register, taskVars
<1>2. CASE registry[s] \in {None, c}
  <2>1. /\ registry' = [Released(name[c], c) EXCEPT ![s] = c]
        /\ name' = [name EXCEPT ![c] = s] /\ retired' = retired \ {c}
    BY <1>2 DEF Register
  <2>2. /\ registry'[s] = c
        /\ \A n \in Service : n # s =>
             registry'[n] = IF n = name[c] /\ registry[n] = c THEN None ELSE registry[n]
    BY <2>1 DEF Released
  <2>3. name'[c] = s /\ \A d \in Conn : d # c => name'[d] = name[d]
    BY <2>1 DEF TypeOK
  <2>4. BoundIsKnown'
    <3> SUFFICES ASSUME NEW n \in Service, registry'[n] # None
                 PROVE  /\ \/ name'[registry'[n]] = n
                           \/ pc[registry'[n]] = "dereg" /\ loc[registry'[n]].svc = n
                        /\ pc[registry'[n]] \notin {"off", "gone"}
      BY <1>0 DEF BoundIsKnown
    <3>1. CASE n = s
      BY <1>0, <2>2, <2>3, <3>1
    <3>2. CASE n # s
      <4>1. registry'[n] = registry[n] /\ registry[n] \in Conn /\ registry[n] # None
        BY <2>2, <3>2 DEF TypeOK, SomeConn
      <4>2. registry[n] # c
        BY <1>0, <2>2, <3>2, <4>1 DEF NameInv, BoundIsKnown
      <4>. QED BY <2>3, <4>1, <4>2 DEF NameInv, BoundIsKnown
    <3>. QED BY <3>1, <3>2
  <2>5. Between'
    BY <1>0, <2>3 DEF NameInv, Between
  <2>6. RetiredUnbound'
    BY <2>1, <2>2, RoutingAssumption DEF NameInv, RetiredUnbound, TypeOK
  <2>. QED BY <2>4, <2>5, <2>6 DEF NameInv
<1>. QED BY <1>1, <1>2

LEMMA NameDeregister ==
  ASSUME TypeOK, NameInv, NEW c \in Conn, Deregister(c)
  PROVE  NameInv'
<1>0. /\ pc[c] = "idle" /\ UNCHANGED <<open, registry>>
      /\ name' = [name EXCEPT ![c] = None]
  BY DEF Deregister, Ready
<1>1. name'[c] = None /\ \A d \in Conn : d # c => name'[d] = name[d]
  BY <1>0 DEF TypeOK
<1>b. \A s \in Service : registry[s] = c => name[c] = s
  BY <1>0, RoutingAssumption DEF NameInv, BoundIsKnown
<1>2. CASE name[c] = None
  <2>1. retired' = retired \cup {c} /\ UNCHANGED <<pc, loc>>
    BY <1>2 DEF Deregister, taskVars
  <2>2. \A d \in Conn : name'[d] = name[d]
    BY <1>1, <1>2
  <2>3. \A s \in Service : registry[s] # c
    BY <1>2, <1>b, RoutingAssumption
  <2>4. BoundIsKnown'
    <3> SUFFICES ASSUME NEW n \in Service, registry[n] # None
                 PROVE  /\ \/ name'[registry[n]] = n
                           \/ pc[registry[n]] = "dereg" /\ loc[registry[n]].svc = n
                        /\ pc[registry[n]] \notin {"off", "gone"}
      BY <1>0, <2>1 DEF BoundIsKnown
    <3>1. registry[n] \in Conn
      BY DEF TypeOK, SomeConn
    <3>. QED BY <2>2, <3>1 DEF NameInv, BoundIsKnown
  <2>5. Between'
    BY <1>0, <2>1, <2>2 DEF NameInv, Between
  <2>. QED BY <1>0, <2>1, <2>3, <2>4, <2>5 DEF NameInv, RetiredUnbound
<1>3. CASE name[c] # None
  <2> DEFINE l == [Clean EXCEPT !.svc = name[c]]
  <2>1. Goto(c, "dereg", l) /\ retired' = retired /\ l.svc = name[c]
    BY <1>3 DEF Deregister, Clean
  <2> HIDE DEF l
  <2>2. /\ pc'[c] = "dereg" /\ loc'[c].svc = name[c]
        /\ \A d \in Conn : d # c => pc'[d] = pc[d] /\ loc'[d] = loc[d]
    BY <2>1, GotoMoves
  <2>3. BoundIsKnown'
    <3> SUFFICES ASSUME NEW n \in Service, registry[n] # None
                 PROVE  /\ \/ name'[registry[n]] = n
                           \/ pc'[registry[n]] = "dereg" /\ loc'[registry[n]].svc = n
                        /\ pc'[registry[n]] \notin {"off", "gone"}
      BY <1>0 DEF BoundIsKnown
    <3>1. registry[n] \in Conn
      BY DEF TypeOK, SomeConn
    <3>2. CASE registry[n] = c
      BY <1>b, <2>2, <3>2
    <3>3. CASE registry[n] # c
      BY <1>1, <2>2, <3>1, <3>3 DEF NameInv, BoundIsKnown
    <3>. QED BY <3>2, <3>3
  <2>4. \A d \in Conn : pc'[d] = "dereg" => name'[d] = None
    BY <1>1, <2>2 DEF NameInv, Between
  <2>5. ASSUME NEW d \in Conn, pc'[d] = "dropRoute"
        PROVE  loc'[d].target \notin open /\ pc'[loc'[d].target] # "off"
    <3>1. pc[d] = "dropRoute" /\ loc'[d] = loc[d]
      BY <2>2, <2>5
    <3>2. loc[d].target \notin open /\ pc[loc[d].target] # "off" /\ loc[d].target \in Conn
      BY <3>1 DEF NameInv, Between, TypeOK, Locals, SomeConn
    <3>. QED BY <2>2, <3>1, <3>2
  <2>. QED BY <1>0, <2>1, <2>3, <2>4, <2>5 DEF NameInv, Between, RetiredUnbound
<1>. QED BY <1>2, <1>3

\* Unbinding s from c, whatever s and c are, when c's task goes on to a label
\* and no other name is bound to c, or c's task stays where it is.
LEMMA NameReleased ==
  ASSUME TypeOK, NameInv, NEW s, NEW c, NEW p \in Conn, NEW label, NEW l,
         registry' = Released(s, c), name' = name, Goto(p, label, l), open' \subseteq open,
         label \notin {"off", "dereg", "dropRoute"},
         label = "gone" \/ pc[p] = "dereg" => \A n \in Service : registry'[n] # p,
         retired' \subseteq retired \cup {p}, p \in retired' => \A n \in Service : registry'[n] # p
  PROVE  NameInv'
<1>1. /\ pc'[p] = label /\ \A d \in Conn : d # p => pc'[d] = pc[d] /\ loc'[d] = loc[d]
  BY GotoMoves
<1>2. \A n \in Service : registry'[n] = None \/ registry'[n] = registry[n]
  BY DEF Released
<1>3. BoundIsKnown'
  <2> SUFFICES ASSUME NEW n \in Service, registry'[n] # None
               PROVE  /\ \/ name[registry'[n]] = n
                         \/ pc'[registry'[n]] = "dereg" /\ loc'[registry'[n]].svc = n
                      /\ pc'[registry'[n]] \notin {"off", "gone"}
    BY DEF BoundIsKnown
  <2>1. registry'[n] = registry[n] /\ registry[n] \in Conn /\ registry[n] # None
    BY <1>2 DEF TypeOK, SomeConn
  <2>2. CASE registry[n] = p
    BY <1>1, <2>1, <2>2 DEF NameInv, BoundIsKnown
  <2>3. CASE registry[n] # p
    BY <1>1, <2>1, <2>3 DEF NameInv, BoundIsKnown
  <2>. QED BY <2>2, <2>3
<1>4. \A d \in Conn : pc'[d] = "dereg" => name[d] = None
  BY <1>1 DEF NameInv, Between
<1>5. ASSUME NEW d \in Conn, pc'[d] = "dropRoute"
      PROVE  loc'[d].target \notin open' /\ pc'[loc'[d].target] # "off"
  <2>1. pc[d] = "dropRoute" /\ loc'[d] = loc[d]
    BY <1>1, <1>5
  <2>2. loc[d].target \notin open /\ pc[loc[d].target] # "off" /\ loc[d].target \in Conn
    BY <2>1 DEF NameInv, Between, TypeOK, Locals, SomeConn
  <2>. QED BY <1>1, <2>1, <2>2
<1>6. RetiredUnbound'
  <2> SUFFICES ASSUME NEW n \in Service, registry'[n] \in retired' PROVE FALSE
    BY DEF RetiredUnbound
  <2>1. registry'[n] # p
    OBVIOUS
  <2>2. registry'[n] \in retired
    BY <2>1
  <2>3. registry'[n] # None
    BY <2>2, RoutingAssumption DEF TypeOK
  <2>. QED BY <1>2, <2>2, <2>3 DEF NameInv, RetiredUnbound
<1>. QED BY <1>3, <1>4, <1>5, <1>6 DEF NameInv, Between

LEMMA NameUnbound ==
  ASSUME TypeOK, NameInv, NEW c \in Conn, Deregistered(c) \/ DropRoute(c) \/ Unregister(c)
  PROVE  NameInv'
<1>1. CASE Deregistered(c)
  <2>1. /\ pc[c] = "dereg" /\ registry' = Released(loc[c].svc, c) /\ retired' = retired \cup {c}
        /\ Goto(c, "idle", Clean) /\ UNCHANGED <<name, open>>
    BY <1>1 DEF Deregistered, Done
  <2>2. ASSUME NEW n \in Service PROVE registry'[n] # c
    <3>1. name[c] = None /\ c # None
      BY <2>1, RoutingAssumption DEF NameInv, Between
    <3>2. registry[n] = c => loc[c].svc = n
      BY <3>1, RoutingAssumption DEF NameInv, BoundIsKnown
    <3>. QED BY <2>1, <3>1, <3>2 DEF Released
  <2>. QED BY <2>1, <2>2, NameReleased
<1>2. CASE DropRoute(c)
  <2> DEFINE l == [loc[c] EXCEPT !.target = None]
  <2>1. /\ pc[c] = "dropRoute" /\ registry' = Released(loc[c].svc, loc[c].target)
        /\ Goto(c, "takeBack", l) /\ UNCHANGED <<name, open, retired>>
    BY <1>2 DEF DropRoute
  <2>2. c \in retired => \A n \in Service : registry'[n] # c
    BY <2>1, RoutingAssumption DEF NameInv, RetiredUnbound, Released
  <2> HIDE DEF l
  <2>. QED BY <2>1, <2>2, NameReleased
<1>3. CASE Unregister(c)
  <2>1. /\ pc[c] = "unregister" /\ registry' = Released(name[c], c)
        /\ Goto(c, "gone", Clean) /\ open' = open \ {c} /\ UNCHANGED <<name, retired>>
    BY <1>3 DEF Unregister
  <2>2. ASSUME NEW n \in Service PROVE registry'[n] # c
    <3>1. registry[n] = c => name[c] = n
      BY <2>1, RoutingAssumption DEF NameInv, BoundIsKnown
    <3>. QED BY <2>1, <3>1, RoutingAssumption DEF Released
  <2>. QED BY <2>1, <2>2, NameReleased
<1>. QED BY <1>1, <1>2, <1>3

LEMMA NameInit == Init => NameInv
BY DEF Init, NameInv, BoundIsKnown, Between, RetiredUnbound

LEMMA NameStep == TypeOK /\ NameInv /\ [Next]_vars => NameInv'
<1> SUFFICES ASSUME TypeOK, NameInv, [Next]_vars PROVE NameInv'
  OBVIOUS
<1>1. ASSUME NEW c \in Conn, Handler(c) PROVE NameInv'
  BY <1>1, NameQuiet, NameAttempt, NameUnbound DEF Handler
<1>2. ASSUME NEW c \in Conn, Client(c) PROVE NameInv'
  BY <1>2, NameQuiet, NameRegister, NameDeregister DEF Client
<1>3. ASSUME NEW v \in Conn, RevokeDrain(v) \/ RevokeClose(v) PROVE NameInv'
  BY <1>3, NameQuiet
<1>4. ASSUME UNCHANGED vars \/ \E V \in SUBSET live : Reload(V) PROVE NameInv'
  BY <1>4, NameSame DEF Reload, vars, taskVars
<1>. QED BY <1>1, <1>2, <1>3, <1>4 DEF Next, ReloadTask

\* No name stays bound to a connection whose cleanup is over.
THEOREM NoNameOrphaned == Spec => []NoOrphanName
<1>1. Spec => [](TypeOK /\ NameInv)
  BY TypeInit, TypeStep, NameInit, NameStep, PTL DEF Spec
<1>2. NameInv => NoOrphanName
  BY DEF NameInv, BoundIsKnown, NoOrphanName
<1>. QED BY <1>1, <1>2, PTL

\* Which steps unbind a name that was bound, and which put a request on a channel.
LEMMA UnbindSteps ==
  ASSUME TypeOK, NameInv, [Next]_vars, NEW s \in Service, registry'[s] # registry[s],
         registry[s] # None
  PROVE  \E c \in Conn :
           \/ Deregistered(c) \/ DropRoute(c) \/ Unregister(c)
           \/ \E n \in Service : Register(c, n)
<1>1. ASSUME NEW c \in Conn, Handler(c)
      PROVE  Deregistered(c) \/ DropRoute(c) \/ Unregister(c)
  BY <1>1 DEF Handler, Pend, Attempt, TakeBack, Tap, TapPrune, ReplyTo, Drain, Leave
<1>2. ASSUME NEW c \in Conn, Client(c) PROVE \E n \in Service : Register(c, n)
  BY <1>2 DEF Client, Connect, WriterStops, Leave, Deregister, TapOn, Respond, Send
<1>3. ~ReloadTask /\ ~(\E V \in SUBSET live : Reload(V)) /\ ~UNCHANGED vars
  BY DEF ReloadTask, RevokeDrain, RevokeClose, Reload, vars
<1>. QED BY <1>1, <1>2, <1>3 DEF Next

LEMMA NameKeptStep ==
  ASSUME TypeOK, NameInv, [Next]_vars, NEW s \in Service, registry[s] \in open,
         registry'[s] # registry[s]
  PROVE  name'[registry[s]] # s \/ pc[registry[s]] = "unregister"
<1> DEFINE h == registry[s]
<1>0. h \in Conn /\ h # None
  BY RoutingAssumption DEF TypeOK
<1>1. PICK c \in Conn : \/ Deregistered(c) \/ DropRoute(c) \/ Unregister(c)
                        \/ \E n \in Service : Register(c, n)
  BY <1>0, UnbindSteps
<1>2. CASE Deregistered(c)
  <2>1. h = c /\ pc[c] = "dereg" /\ name' = name
    BY <1>2 DEF Deregistered, Released
  <2>2. name[c] = None
    BY <2>1 DEF NameInv, Between
  <2>. QED BY <2>1, <2>2, RoutingAssumption
<1>3. CASE DropRoute(c)
  <2>1. h = loc[c].target /\ pc[c] = "dropRoute"
    BY <1>3 DEF DropRoute, Released
  <2>. QED BY <2>1 DEF NameInv, Between
<1>4. CASE Unregister(c)
  BY <1>4 DEF Unregister, Released
<1>5. ASSUME NEW n \in Service, Register(c, n)
      PROVE  name'[h] # s
  <2>1. /\ registry[n] \in {None, c}
        /\ registry' = [Released(name[c], c) EXCEPT ![n] = c] /\ name' = [name EXCEPT ![c] = n]
    BY <1>5 DEF Register
  <2>2. s # n
    <3>1. registry'[n] = c
      BY <2>1 DEF Released
    <3>. QED BY <1>0, <2>1, <3>1
  <2>3. h = c
    BY <2>1, <2>2 DEF Released
  <2>. QED BY <1>0, <2>1, <2>2, <2>3 DEF TypeOK
<1>. QED BY <1>1, <1>2, <1>3, <1>4, <1>5

\* BROKER-002: a name bound to an open channel goes only because its own
\* connection gave it up.
THEOREM NamesKept == Spec => NameKept
<1>1. Spec => [](TypeOK /\ NameInv)
  BY TypeInit, TypeStep, NameInit, NameStep, PTL DEF Spec
<1>2. TypeOK /\ NameInv /\ [Next]_vars =>
        [\A s \in Service : LET c == registry[s] IN
           (c \in open /\ registry'[s] # c) => name'[c] # s \/ pc[c] = "unregister"]_vars
  BY NameKeptStep
<1>. QED BY <1>1, <1>2, PTL DEF Spec, NameKept

LEMMA DeliverySteps ==
  ASSUME [Next]_vars, inbox' # inbox
  PROVE  \E c \in Conn : Attempt(c)
<1>1. ASSUME NEW c \in Conn, Handler(c) PROVE Attempt(c)
  BY <1>1 DEF Handler, Pend, DropRoute, TakeBack, Tap, TapPrune, Deregistered, ReplyTo, Drain,
              Unregister, Leave, histVars
<1>2. ASSUME NEW c \in Conn, Client(c) PROVE FALSE
  BY <1>2 DEF Client, Connect, WriterStops, Leave, Deregister, TapOn, Respond, Send, Register, histVars
<1>3. ~ReloadTask /\ ~(\E V \in SUBSET live : Reload(V)) /\ ~UNCHANGED vars
  BY DEF ReloadTask, RevokeDrain, RevokeClose, Reload, vars, histVars
<1>. QED BY <1>1, <1>2, <1>3 DEF Next

LEMMA NoDeliveryStep ==
  ASSUME TypeOK, NameInv, [Next]_vars, NEW c \in retired
  PROVE  inbox'[c] = inbox[c]
<1> SUFFICES ASSUME inbox'[c] # inbox[c] PROVE FALSE
  OBVIOUS
<1>1. PICK d \in Conn : Attempt(d)
  BY DeliverySteps
<1>2. /\ pc[d] = "attempt" /\ registry[loc[d].svc] = loc[d].target /\ loc[d].id # None
      /\ inbox' = [inbox EXCEPT ![loc[d].target] = @ \cup {<<loc[d].bid, <<d, loc[d].id>>>>}]
  BY <1>1 DEF Attempt, Enqueue
<1>3. loc[d].svc \in Service /\ loc[d].target = c
  BY <1>2 DEF TypeOK, Locals
<1>. QED BY <1>2, <1>3 DEF NameInv, RetiredUnbound

\* Once a deregistration is acknowledged nothing more is put on the connection's
\* channel, although senders look the route up before they wait for the table.
THEOREM DeregisteredUnreached == Spec => NoDeliveryAfterDeregister
<1>1. Spec => [](TypeOK /\ NameInv)
  BY TypeInit, TypeStep, NameInit, NameStep, PTL DEF Spec
<1>2. TypeOK /\ NameInv /\ [Next]_vars => [\A c \in retired : inbox'[c] = inbox[c]]_vars
  BY NoDeliveryStep
<1>. QED BY <1>1, <1>2, PTL DEF Spec, NoDeliveryAfterDeregister
=============================================================================
