------------------------------- MODULE ChangeBus -------------------------------
(***************************************************************************)
(* The props change bus of cosmix-noded (props.rs): it turns snapshots of  *)
(* the node's state into props.changed events, at most one per path and    *)
(* cap interval, and into the retained message world.noded, at most one a  *)
(* second.  A change the cap suppresses arms a trailing emit; a            *)
(* suppressed world message waits for the drainer.                         *)
(*                                                                         *)
(* One leaf of the snapshot is modelled, so a snapshot is that leaf's      *)
(* value.  The tasks are connection handlers that change the state, take a *)
(* snapshot and hand it to observe, each in a step of its own.  observe    *)
(* and fire_trailer hold their mutexes across the publish and so are one   *)
(* step each; publish_world lets its mutex go first.                       *)
(*                                                                         *)
(* Time is the end of the current cap interval.  A timer is due at the end *)
(* of the interval in which it was armed.                                  *)
(***************************************************************************)
EXTENDS Naturals, FiniteSets

CONSTANTS
  Task,        \* connection handlers
  Value,       \* values of the leaf
  First,       \* its value when the bus is seeded
  MaxChanges,  \* bound: how often the state changes
  None         \* absent

ASSUME ChangeBusAssumption ==
  /\ First \in Value /\ None \notin Value /\ MaxChanges \in Nat
  /\ None \notin [gen : Nat, old : Value, new : Value]

PC == {"idle", "collect", "observe", "world", "publish"}

VARIABLES
  state,     \* the value the node really has
  changes,   \* bound: changes made so far
  pc, snap,  \* position and snapshot of every task
  last,      \* the cached snapshot
  capped,    \* the cap interval of the last event is not over
  trailing,  \* the trailing emit, or None
  nextGen,   \* generation of the next trailing emit
  armed,     \* generations whose timer waits for the current interval to end
  due,       \* generations whose timer has expired
  sent,      \* history: the last props.changed event
  worldCap,  \* the interval of the last world.noded message is not over
  pendingW,  \* the world snapshot stashed for the drainer
  drainer,   \* the snapshot the drainer has taken and not yet published
  retained   \* what the retained message world.noded holds

eventVars == <<last, capped, trailing, nextGen, armed, due, sent>>
worldVars == <<worldCap, pendingW, drainer, retained>>
taskVars  == <<state, changes, pc, snap>>
vars == <<state, changes, pc, snap, last, capped, trailing, nextGen, armed, due,
          sent, worldCap, pendingW, drainer, retained>>

\* seed and publish_world_unchecked have run; neither starts a cap interval.
Init ==
  /\ state = First /\ changes = 0
  /\ pc = [t \in Task |-> "idle"] /\ snap = [t \in Task |-> None]
  /\ last = First /\ capped = FALSE
  /\ trailing = None /\ nextGen = 1 /\ armed = {} /\ due = {}
  /\ sent = [old |-> None, new |-> First]
  /\ worldCap = FALSE /\ pendingW = None /\ drainer = None /\ retained = First

-----------------------------------------------------------------------------
(* emit_props_change *)

\* A handler changes the registry and lets its lock go.
Change(t, v) ==
  /\ pc[t] = "idle" /\ changes < MaxChanges /\ v # state
  /\ state' = v /\ changes' = changes + 1
  /\ pc' = [pc EXCEPT ![t] = "collect"]
  /\ UNCHANGED <<snap, eventVars, worldVars>>

Collect(t) ==
  /\ pc[t] = "collect"
  /\ snap' = [snap EXCEPT ![t] = state]
  /\ pc' = [pc EXCEPT ![t] = "observe"]
  /\ UNCHANGED <<state, changes, eventVars, worldVars>>

\* Inside the interval: refresh the trailing emit, or arm one with its timer.
Suppress(old, new) ==
  /\ IF trailing # None
     THEN /\ trailing' = [trailing EXCEPT !.new = new]
          /\ UNCHANGED <<nextGen, armed>>
     ELSE /\ trailing' = [gen |-> nextGen, old |-> old, new |-> new]
          /\ nextGen' = nextGen + 1
          /\ armed' = armed \cup {nextGen}
  /\ UNCHANGED <<capped, due, sent>>

\* Mutant: the event starts from the suppressed intermediate value.
EmitFromCache(old, new) ==
  /\ trailing' = None
  /\ sent' = [old |-> old, new |-> new] /\ capped' = TRUE
  /\ UNCHANGED <<nextGen, armed, due>>

\* Mutant: the pending trailing emit is left in place.
EmitKeepsTrailer(old, new) ==
  /\ sent' = [old |-> IF trailing = None THEN old ELSE trailing.old, new |-> new]
  /\ capped' = TRUE
  /\ UNCHANGED <<trailing, nextGen, armed, due>>

\* Outside it: a normal emit takes the trailing one's place and its old value.
Emit(old, new) ==
  LET seen == IF trailing = None THEN old ELSE trailing.old IN
  /\ trailing' = None
  /\ IF seen = new THEN UNCHANGED <<sent, capped>>
     ELSE sent' = [old |-> seen, new |-> new] /\ capped' = TRUE
  /\ UNCHANGED <<nextGen, armed, due>>

\* Under the mutexes: swap the cache, and if the leaf moved, suppress or emit.
\* The uptime is in the snapshot too: it makes no event, but if it has moved the
\* snapshots differ and world.noded is published all the same.
Observe(t) ==
  /\ pc[t] = "observe"
  /\ last' = snap[t]
  /\ IF snap[t] = last THEN UNCHANGED <<capped, trailing, nextGen, armed, due, sent>>
     ELSE IF capped THEN Suppress(last, snap[t]) ELSE Emit(last, snap[t])
  /\ \/ /\ pc' = [pc EXCEPT ![t] = "world"] /\ UNCHANGED snap
     \/ /\ snap[t] = last
        /\ pc' = [pc EXCEPT ![t] = "idle"] /\ snap' = [snap EXCEPT ![t] = None]
  /\ UNCHANGED <<state, changes, worldVars>>

-----------------------------------------------------------------------------
(* Trailing emits *)

\* Mutant: the interval ends and wakes no timer.
CapExpiresSilently ==
  /\ capped
  /\ capped' = FALSE
  /\ UNCHANGED <<taskVars, last, trailing, nextGen, armed, due, sent, worldVars>>

\* 100 ms have passed since the last event: the timers armed since are due.
CapExpires ==
  /\ capped
  /\ capped' = FALSE /\ due' = due \cup armed /\ armed' = {}
  /\ UNCHANGED <<taskVars, last, trailing, nextGen, sent, worldVars>>

\* Mutant: any timer fires whatever is pending.
FireAnyTrailer(g) ==
  /\ g \in due /\ due' = due \ {g}
  /\ trailing' = None
  /\ IF trailing = None \/ trailing.old = trailing.new THEN UNCHANGED <<sent, capped>>
     ELSE /\ sent' = [old |-> trailing.old, new |-> trailing.new]
          /\ capped' = TRUE
  /\ UNCHANGED <<taskVars, last, nextGen, armed, worldVars>>

\* fire_trailer: only the trailing emit this timer was armed for.
FireTrailer(g) ==
  /\ g \in due /\ due' = due \ {g}
  /\ IF trailing = None \/ trailing.gen # g
     THEN UNCHANGED <<trailing, sent, capped>>
     ELSE /\ trailing' = None
          /\ IF trailing.old = trailing.new THEN UNCHANGED <<sent, capped>>
             ELSE /\ sent' = [old |-> trailing.old, new |-> trailing.new]
                  /\ capped' = TRUE
  /\ UNCHANGED <<taskVars, last, nextGen, armed, worldVars>>

-----------------------------------------------------------------------------
(* world.noded *)

\* publish_world: stash inside the interval, else stamp it and publish later.
PublishWorld(t) ==
  /\ pc[t] = "world"
  /\ IF worldCap
     THEN /\ pendingW' = snap[t] /\ UNCHANGED worldCap
          /\ pc' = [pc EXCEPT ![t] = "idle"] /\ snap' = [snap EXCEPT ![t] = None]
     ELSE /\ worldCap' = TRUE /\ UNCHANGED <<pendingW, snap>>
          /\ pc' = [pc EXCEPT ![t] = "publish"]
  /\ UNCHANGED <<state, changes, eventVars, drainer, retained>>

PublishWorldValue(t) ==
  /\ pc[t] = "publish"
  /\ retained' = snap[t]
  /\ pc' = [pc EXCEPT ![t] = "idle"] /\ snap' = [snap EXCEPT ![t] = None]
  /\ UNCHANGED <<state, changes, eventVars, worldCap, pendingW, drainer>>

\* A second has passed since the last world message.
WorldCapExpires ==
  /\ worldCap /\ worldCap' = FALSE
  /\ UNCHANGED <<taskVars, eventVars, pendingW, drainer, retained>>

\* drain_pending, in two steps: take the stash, then stamp and publish it.
DrainTake ==
  /\ drainer = None /\ pendingW # None
  /\ drainer' = pendingW /\ pendingW' = None
  /\ UNCHANGED <<taskVars, eventVars, worldCap, retained>>

DrainPublish ==
  /\ drainer # None
  /\ worldCap' = TRUE /\ retained' = drainer /\ drainer' = None
  /\ UNCHANGED <<taskVars, eventVars, pendingW>>

-----------------------------------------------------------------------------

Handler(t) == Collect(t) \/ Observe(t) \/ PublishWorld(t) \/ PublishWorldValue(t)
Timers     == CapExpires \/ \E g \in due : FireTrailer(g)
Drainer    == DrainTake \/ DrainPublish

Next ==
  \/ \E t \in Task : Handler(t) \/ \E v \in Value : Change(t, v)
  \/ Timers \/ WorldCapExpires \/ Drainer

Spec == Init /\ [][Next]_vars

\* Tasks are polled, time passes, timers fire and the drainer ticks; the state
\* need not change.
FairSpec ==
  /\ Spec
  /\ \A t \in Task : WF_vars(Handler(t))
  /\ WF_vars(Timers) /\ WF_vars(WorldCapExpires) /\ WF_vars(Drainer)

-----------------------------------------------------------------------------

\* Type invariant.
TypeOK ==
  /\ state \in Value /\ changes \in 0 .. MaxChanges
  /\ pc \in [Task -> PC] /\ snap \in [Task -> Value \cup {None}]
  /\ \A t \in Task : pc[t] \in {"observe", "world", "publish"} => snap[t] # None
  /\ last \in Value /\ capped \in BOOLEAN /\ worldCap \in BOOLEAN
  /\ trailing \in [gen : Nat, old : Value, new : Value] \cup {None}
  /\ nextGen \in Nat \ {0} /\ armed \subseteq 1 .. nextGen - 1 /\ due \subseteq 1 .. nextGen - 1
  /\ sent \in [old : Value \cup {None}, new : Value]
  /\ pendingW \in Value \cup {None} /\ drainer \in Value \cup {None}
  /\ retained \in Value

\* What watchers were told last is the cached value, or a trailing emit that
\* leads from the one to the other is pending and its own timer is running:
\* however emits, suppressions, reverts and late timers follow each other, the
\* end of a burst is not dropped.
BurstCovered ==
  IF trailing = None THEN sent.new = last
  ELSE /\ trailing.old = sent.new /\ trailing.new = last
       /\ trailing.gen \in armed \cup due

\* Events form a chain: each starts where the one before it ended, and no event
\* says that nothing changed.
ChainUnbroken ==
  [][sent' # sent => sent'.old = sent.new /\ sent'.new # sent'.old]_vars

\* The 10 Hz cap holds although fire_trailer does not look at the clock.
CapRespected == [][sent' # sent => ~capped]_vars

\* Watchers catch up with the cache.
WatchersCatchUp == sent.new # last ~> sent.new = last

-----------------------------------------------------------------------------
(* What the repository says of this code and the code does not do *)

Settled == \A t \in Task : pc[t] = "idle"

\* noded.rs, drainer: deferred publishes are flushed "so rapid back-to-back
\* mutations don't leave the retained snapshot permanently stale".  Read: when
\* every handler is done and nothing is stashed, the retained snapshot is the
\* cached one.
RetainedFresh ==
  (Settled /\ pendingW = None /\ drainer = None) => retained = last
=============================================================================
