---------------------------- MODULE ChangeBusProofs ----------------------------
(* Proofs about the props change bus, for any handlers, values and bounds. *)
EXTENDS ChangeBus, TLAPS

\* The initial state has the types.
LEMMA TypeInit == Init => TypeOK
<1> SUFFICES ASSUME Init PROVE TypeOK
  OBVIOUS
<1>1. state \in Value /\ changes \in 0 .. MaxChanges
  BY ChangeBusAssumption DEF Init
<1>2. /\ pc \in [Task -> PC] /\ snap \in [Task -> Value \cup {None}]
      /\ \A t \in Task : pc[t] \in {"observe", "world", "publish"} => snap[t] # None
  BY DEF Init, PC
<1>3. /\ last \in Value /\ capped \in BOOLEAN /\ worldCap \in BOOLEAN
      /\ trailing \in [gen : Nat, old : Value, new : Value] \cup {None}
  BY ChangeBusAssumption DEF Init
<1>5. nextGen \in Nat \ {0} /\ armed \subseteq 1 .. nextGen - 1 /\ due \subseteq 1 .. nextGen - 1
  BY DEF Init
<1>4. /\ sent \in [old : Value \cup {None}, new : Value]
      /\ pendingW \in Value \cup {None} /\ drainer \in Value \cup {None}
      /\ retained \in Value
  BY ChangeBusAssumption DEF Init
<1> QED BY <1>1, <1>2, <1>3, <1>4, <1>5 DEF TypeOK

\* Every step keeps the types; what matters beyond the shapes is that a handler
\* past its collect holds a snapshot, and that generations are below nextGen.
LEMMA TypeStep == TypeOK /\ [Next]_vars => TypeOK'
<1> SUFFICES ASSUME TypeOK, [Next]_vars PROVE TypeOK'
  OBVIOUS
<1> USE ChangeBusAssumption
<1>1. ASSUME NEW t \in Task, NEW v \in Value, Change(t, v) PROVE TypeOK'
  BY <1>1 DEF Change, TypeOK, PC, eventVars, worldVars
<1>2. ASSUME NEW t \in Task, Collect(t) PROVE TypeOK'
  BY <1>2 DEF Collect, TypeOK, PC, eventVars, worldVars
<1>3. ASSUME NEW t \in Task, Observe(t) PROVE TypeOK'
  <2>1. snap[t] \in Value /\ last \in Value
    BY <1>3 DEF Observe, TypeOK
  <2>2. /\ last' \in Value /\ capped' \in BOOLEAN
        /\ trailing' \in [gen : Nat, old : Value, new : Value] \cup {None}
        /\ nextGen' \in Nat \ {0}
        /\ armed' \subseteq 1 .. nextGen' - 1 /\ due' \subseteq 1 .. nextGen' - 1
        /\ sent' \in [old : Value \cup {None}, new : Value]
    <3>1. CASE snap[t] = last
      BY <1>3, <3>1 DEF Observe, TypeOK
    <3>2. CASE snap[t] # last /\ capped
      <4>1. Suppress(last, snap[t])
        BY <1>3, <3>2 DEF Observe
      <4>2. CASE trailing = None
        <5>1. trailing' = [gen |-> nextGen, old |-> last, new |-> snap[t]]
          BY <4>1, <4>2 DEF Suppress
        <5>2. trailing' \in [gen : Nat, old : Value, new : Value]
          BY <5>1, <2>1 DEF TypeOK
        <5>3. /\ nextGen' = nextGen + 1 /\ armed' = armed \cup {nextGen}
              /\ due' = due /\ sent' = sent /\ capped' = capped
          BY <4>1, <4>2 DEF Suppress
        <5>4. /\ nextGen \in Nat \ {0} /\ armed \subseteq 1 .. nextGen - 1
              /\ due \subseteq 1 .. nextGen - 1
          BY DEF TypeOK
        <5>5. armed' \subseteq 1 .. nextGen' - 1 /\ due' \subseteq 1 .. nextGen' - 1
          BY <5>3, <5>4
        <5> QED BY <1>3, <2>1, <5>2, <5>3, <5>5 DEF Observe, TypeOK
      <4>3. CASE trailing # None
        <5>1. trailing \in [gen : Nat, old : Value, new : Value]
          BY <4>3 DEF TypeOK
        <5>2. trailing' \in [gen : Nat, old : Value, new : Value]
          BY <5>1, <2>1, <4>1, <4>3 DEF Suppress
        <5> QED BY <1>3, <2>1, <4>1, <4>3, <5>2 DEF Observe, Suppress, TypeOK
      <4> QED BY <4>2, <4>3
    <3>3. CASE snap[t] # last /\ ~capped
      <4> DEFINE seen == IF trailing = None THEN last ELSE trailing.old
      <4>1. seen \in Value
        BY <2>1 DEF TypeOK
      <4>2. Emit(last, snap[t])
        BY <1>3, <3>3 DEF Observe
      <4>3. CASE seen = snap[t]
        BY <1>3, <2>1, <4>2, <4>3 DEF Observe, Emit, TypeOK
      <4>4. CASE seen # snap[t]
        <5>1. sent' = [old |-> seen, new |-> snap[t]] /\ capped' = TRUE
          BY <4>2, <4>4 DEF Emit
        <5>2. sent' \in [old : Value \cup {None}, new : Value]
          BY <2>1, <4>1, <5>1
        <5> QED BY <1>3, <2>1, <4>2, <5>1, <5>2 DEF Observe, Emit, TypeOK
      <4> QED BY <4>3, <4>4
    <3> QED BY <3>1, <3>2, <3>3
  <2>3. /\ pc' \in [Task -> PC] /\ snap' \in [Task -> Value \cup {None}]
        /\ \A u \in Task : pc'[u] \in {"observe", "world", "publish"} => snap'[u] # None
    BY <1>3, <2>1 DEF Observe, TypeOK, PC
  <2> QED BY <1>3, <2>2, <2>3 DEF Observe, TypeOK, worldVars
<1>4. ASSUME NEW t \in Task, PublishWorld(t) PROVE TypeOK'
  <2>1. snap[t] \in Value
    BY <1>4 DEF PublishWorld, TypeOK
  <2>2. CASE worldCap
    BY <1>4, <2>1, <2>2 DEF PublishWorld, TypeOK, PC, eventVars
  <2>3. CASE ~worldCap
    BY <1>4, <2>1, <2>3 DEF PublishWorld, TypeOK, PC, eventVars
  <2> QED BY <2>2, <2>3
<1>5. ASSUME NEW t \in Task, PublishWorldValue(t) PROVE TypeOK'
  BY <1>5 DEF PublishWorldValue, TypeOK, PC, eventVars
<1>6. CASE CapExpires
  <2>1. armed' \subseteq 1 .. nextGen' - 1 /\ due' \subseteq 1 .. nextGen' - 1
    BY <1>6 DEF CapExpires, TypeOK
  <2> QED BY <1>6, <2>1 DEF CapExpires, TypeOK, taskVars, worldVars
<1>7. ASSUME NEW g \in due, FireTrailer(g) PROVE TypeOK'
  <2>1. /\ trailing' \in [gen : Nat, old : Value, new : Value] \cup {None}
        /\ sent' \in [old : Value \cup {None}, new : Value] /\ capped' \in BOOLEAN
    <3>1. CASE trailing = None \/ trailing.gen # g
      BY <1>7, <3>1 DEF FireTrailer, TypeOK
    <3>2. CASE trailing # None /\ trailing.gen = g
      <4>1. trailing.old \in Value /\ trailing.new \in Value
        BY <3>2 DEF TypeOK
      <4>2. CASE trailing.old = trailing.new
        BY <1>7, <3>2, <4>2 DEF FireTrailer, TypeOK
      <4>3. CASE trailing.old # trailing.new
        <5>1. /\ sent' = [old |-> trailing.old, new |-> trailing.new]
              /\ capped' = TRUE /\ trailing' = None
          BY <1>7, <3>2, <4>3 DEF FireTrailer
        <5> QED BY <4>1, <5>1
      <4> QED BY <4>2, <4>3
    <3> QED BY <3>1, <3>2
  <2> QED BY <1>7, <2>1 DEF FireTrailer, TypeOK, taskVars, worldVars
<1>8. CASE WorldCapExpires \/ Drainer
  BY <1>8 DEF WorldCapExpires, Drainer, DrainTake, DrainPublish, TypeOK, taskVars,
              eventVars
<1>9. CASE UNCHANGED vars
  BY <1>9 DEF vars, TypeOK
<1> QED BY <1>1, <1>2, <1>3, <1>4, <1>5, <1>6, <1>7, <1>8, <1>9
        DEF Next, Handler, Timers

\* The change bus keeps its types (ChangeBus and Trailer of props.rs): a handler
\* that observes or publishes has a snapshot, and every timer's generation has
\* been given out.
THEOREM TypeCorrect == Spec => []TypeOK
  BY TypeInit, TypeStep, PTL DEF Spec

-----------------------------------------------------------------------------

\* The timer of the pending trailing emit has expired only if the interval of
\* the last event is over.
TimerAfterCap == trailing # None /\ trailing.gen \in due => ~capped

BusInv == TypeOK /\ BurstCovered /\ TimerAfterCap

\* The steps that touch the event side of the bus; every other step leaves it.
LEMMA EventSteps ==
  ASSUME [Next]_vars
  PROVE  \/ \E t \in Task : Observe(t)
         \/ CapExpires
         \/ \E g \in due : FireTrailer(g)
         \/ UNCHANGED eventVars
  BY DEF Next, Handler, Timers, Drainer, Change, Collect, PublishWorld,
         PublishWorldValue, WorldCapExpires, DrainTake, DrainPublish, vars, eventVars

\* A normal emit starts at what watchers were told last and leaves nothing
\* pending.
LEMMA EmitStep ==
  ASSUME BusInv, NEW t \in Task, Observe(t), snap[t] # last, ~capped
  PROVE  /\ trailing' = None /\ sent'.new = last'
         /\ sent' # sent => sent'.old = sent.new /\ sent'.new # sent'.old
  <1>1. snap[t] \in Value /\ last' = snap[t] /\ sent \in [old : Value \cup {None}, new : Value]
    BY DEF BusInv, TypeOK, Observe
  <1>2. Emit(last, snap[t])
    BY DEF Observe
  <1> DEFINE seen == IF trailing = None THEN last ELSE trailing.old
  <1>3. seen = sent.new
    BY DEF BusInv, BurstCovered
  <1>4. CASE seen = snap[t]
    BY <1>1, <1>2, <1>3, <1>4 DEF Emit
  <1>5. CASE seen # snap[t]
    BY <1>1, <1>2, <1>3, <1>5 DEF Emit
  <1> QED BY <1>4, <1>5

\* A suppressed change leaves a trailing emit from what watchers were told last
\* to the new cached value, with its timer running; a new timer is not yet due.
LEMMA SuppressStep ==
  ASSUME BusInv, NEW t \in Task, Observe(t), snap[t] # last, capped
  PROVE  BurstCovered' /\ TimerAfterCap' /\ sent' = sent
  <1>1. /\ snap[t] \in Value /\ last \in Value /\ last' = snap[t]
        /\ nextGen \in Nat /\ due \subseteq 1 .. nextGen - 1
        /\ None \notin Value
        /\ trailing # None => trailing \in [gen : Nat, old : Value, new : Value]
    BY ChangeBusAssumption DEF BusInv, TypeOK, Observe
  <1>2. Suppress(last, snap[t])
    BY DEF Observe
  <1>3. CASE trailing = None
    <2>1. nextGen \notin due
      BY <1>1
    <2>2. trailing' = [gen |-> nextGen, old |-> last, new |-> snap[t]]
      BY <1>2, <1>3 DEF Suppress
    <2>3. armed' = armed \cup {nextGen} /\ due' = due /\ sent' = sent
      BY <1>2, <1>3 DEF Suppress
    <2>4. sent.new = last
      BY <1>3 DEF BusInv, BurstCovered
    <2>5. trailing' # None
      BY <1>1, <2>2, ChangeBusAssumption
    <2>6. BurstCovered'
      BY <1>1, <2>2, <2>3, <2>4, <2>5 DEF BurstCovered
    <2> QED BY <2>1, <2>2, <2>3, <2>6 DEF TimerAfterCap
  <1>4. CASE trailing # None
    <2>1. trailing' = [gen |-> trailing.gen, old |-> trailing.old, new |-> snap[t]]
      BY <1>1, <1>2, <1>4 DEF Suppress
    <2>2. armed' = armed /\ due' = due /\ sent' = sent
      BY <1>2, <1>4 DEF Suppress
    <2>3. /\ trailing.old = sent.new /\ trailing.new = last
          /\ trailing.gen \in armed \cup due /\ trailing.gen \notin due
      BY <1>4 DEF BusInv, BurstCovered, TimerAfterCap
    <2>4. trailing' # None
      BY <1>1, <1>4, <2>1, ChangeBusAssumption
    <2>5. BurstCovered'
      BY <1>1, <2>1, <2>2, <2>3, <2>4 DEF BurstCovered
    <2> QED BY <2>1, <2>2, <2>3, <2>5 DEF TimerAfterCap
  <1> QED BY <1>3, <1>4

\* A timer that fires its own trailing emit does so after the interval.
LEMMA FireStep ==
  ASSUME BusInv, NEW g \in due, FireTrailer(g)
  PROVE  /\ BurstCovered' /\ TimerAfterCap'
         /\ sent' # sent => /\ ~capped /\ sent'.old = sent.new
                            /\ sent'.new # sent'.old
  <1>1. CASE trailing = None \/ trailing.gen # g
    BY <1>1 DEF FireTrailer, BusInv, BurstCovered, TimerAfterCap
  <1>2. CASE trailing # None /\ trailing.gen = g
    <2>1. ~capped /\ trailing' = None /\ last' = last
      BY <1>2 DEF FireTrailer, BusInv, TimerAfterCap
    <2> QED BY <1>2, <2>1 DEF FireTrailer, BusInv, BurstCovered, TimerAfterCap
  <1> QED BY <1>1, <1>2

\* The invariant is inductive, and events keep to the chain and to the cap.
LEMMA BusStep ==
  ASSUME BusInv, [Next]_vars
  PROVE  /\ BusInv'
         /\ sent' # sent => /\ ~capped /\ sent'.old = sent.new
                            /\ sent'.new # sent'.old
  <1>1. TypeOK'
    BY TypeStep DEF BusInv
  <1>2. ASSUME NEW t \in Task, Observe(t)
        PROVE  /\ BurstCovered' /\ TimerAfterCap'
               /\ sent' # sent => /\ ~capped /\ sent'.old = sent.new
                                  /\ sent'.new # sent'.old
    <2>1. CASE snap[t] = last
      BY <1>2, <2>1 DEF Observe, BusInv, BurstCovered, TimerAfterCap
    <2>2. CASE snap[t] # last /\ capped
      BY <1>2, <2>2, SuppressStep
    <2>3. CASE snap[t] # last /\ ~capped
      BY <1>2, <2>3, EmitStep DEF BurstCovered, TimerAfterCap
    <2> QED BY <2>1, <2>2, <2>3
  <1>3. CASE CapExpires
    <2>1. ~capped' /\ UNCHANGED <<last, trailing, sent>> /\ armed' \cup due' = armed \cup due
      BY <1>3 DEF CapExpires
    <2>2. BurstCovered'
      BY <2>1 DEF BusInv, BurstCovered
    <2> QED BY <1>1, <2>1, <2>2 DEF BusInv, TimerAfterCap
  <1>4. CASE UNCHANGED eventVars
    <2>1. last' = last /\ capped' = capped /\ trailing' = trailing /\ armed' = armed
          /\ due' = due /\ sent' = sent
      BY <1>4 DEF eventVars
    <2>2. BurstCovered'
      BY <2>1 DEF BusInv, BurstCovered
    <2>3. TimerAfterCap'
      BY <2>1 DEF BusInv, TimerAfterCap
    <2> QED BY <1>1, <2>1, <2>2, <2>3 DEF BusInv
  <1> QED BY <1>1, <1>2, <1>3, <1>4, EventSteps, FireStep DEF BusInv

\* It holds when the bus has been seeded.
LEMMA BusInit == Init => BusInv
  BY TypeInit DEF Init, BusInv, BurstCovered, TimerAfterCap

\* observe and fire_trailer never drop the end of a burst: watchers were told the
\* cached value, or the trailing emit that tells them is pending with its timer.
THEOREM BurstsCovered == Spec => []BurstCovered
<1>1. BusInv /\ [Next]_vars => BusInv'
  BY BusStep
<1>2. BusInv => BurstCovered
  BY DEF BusInv
<1> QED BY BusInit, <1>1, <1>2, PTL DEF Spec

\* Events chain whatever emits, suppressions and late timers follow each other.
THEOREM EventsChain == Spec => ChainUnbroken
<1>1. BusInv /\ [Next]_vars => BusInv'
  BY BusStep
<1>2. BusInv /\ [Next]_vars
        => [sent' # sent => sent'.old = sent.new /\ sent'.new # sent'.old]_vars
  BY BusStep
<1> QED BY BusInit, <1>1, <1>2, PTL DEF Spec, ChainUnbroken

\* No event is published inside the cap interval of the one before it, although
\* fire_trailer does not look at the clock.
THEOREM CapHolds == Spec => CapRespected
<1>1. BusInv /\ [Next]_vars => BusInv'
  BY BusStep
<1>2. BusInv /\ [Next]_vars => [sent' # sent => ~capped]_vars
  BY BusStep
<1> QED BY BusInit, <1>1, <1>2, PTL DEF Spec, CapRespected
=============================================================================
