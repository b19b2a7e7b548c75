------------------------------ MODULE BrokerLocks ------------------------------
(***************************************************************************)
(* The locks of cosmix-noded and the order its operations take them in.    *)
(*                                                                         *)
(* TopicBroker and NodeRouting take the work done under a lock as one      *)
(* step.  Here only the locks are left: an operation is the sequence of    *)
(* locks it takes and frees, a guard that is dropped at the end of a block *)
(* being a free.  Parts an operation may skip (a prune with nothing to     *)
(* prune, a session check without a principal) are kept: each begins and   *)
(* ends with the same guards held, so skipping it leaves a suffix that is  *)
(* here too.                                                               *)
(*                                                                         *)
(* tokio's locks are fair: a waiter queues behind every earlier one, a     *)
(* reader also behind a waiting writer.                                    *)
(***************************************************************************)
EXTENDS Naturals, Sequences, FiniteSets

CONSTANTS
  Task,       \* concurrent tasks: connections, janitor, timers, maintenance
  Operation   \* the operations tasks run, a subset of DOMAIN Program

ChangeBusLock == {"last", "lastEmit", "trailing", "lastWorld", "pendingWorld"}
Lock == ChangeBusLock \cup {"registry", "inner", "topics", "sessions"}

Step == [do : {"read", "write", "free"}, lock : Lock]

\* A guard and what is done under it: taken, and dropped at the end of the block.
Hold(mode, l, body) ==
  <<[do |-> mode, lock |-> l]>> \o body \o <<[do |-> "free", lock |-> l]>>

Reading(l, body) == Hold("read", l, body)
Writing(l, body) == Hold("write", l, body)
Nothing == <<>>

-----------------------------------------------------------------------------
(* SubscriptionBroker *)

\* Mutant: topics before inner, the order that met remove_peer head-on.
ReadBothReversed == Reading("topics", Reading("inner", Nothing))

ReadBoth == Reading("inner", Reading("topics", Nothing))

ReadInnerWriteTopics == Reading("inner", Writing("topics", Nothing))

PruneAndNotify == Writing("inner", Nothing) \o ReadBoth

\* Mutant: the session table is held across the broker call it admits.
AllocateAdmitted == Writing("sessions", Writing("topics", Nothing))

\* A native publisher is validated while the sequence number is allocated, and
\* again while the subscribers are read, once per recipient.
Allocate == Writing("topics", Writing("sessions", Nothing))
FanOut   == Reading("inner", Writing("sessions", Nothing))

Publish     == Allocate \o FanOut \o PruneAndNotify
Subscribe   == Reading("inner", Nothing) \o Writing("inner", Nothing) \o Reading("topics", Nothing)
               \o Writing("inner", Nothing) \o Reading("inner", Nothing)
Unsubscribe == Writing("inner", Nothing) \o Writing("topics", Nothing)
Clear       == Writing("topics", Nothing) \o Reading("inner", Nothing) \o PruneAndNotify
RemovePeer  == Writing("inner", Nothing) \o Writing("topics", Nothing) \o ReadInnerWriteTopics
Janitor     == Reading("inner", Nothing) \o PruneAndNotify \o Reading("inner", Nothing)
               \o Writing("topics", Nothing)

-----------------------------------------------------------------------------
(* The connection handler and the session table.  The pending-response table *)
(* has a lock too; nothing is awaited under it. *)

RouteLocal   == Reading("registry", Nothing) \o Reading("registry", Writing("sessions", Nothing))
                \o Writing("registry", Nothing)
SessionVerb  == Writing("registry", Writing("sessions", Nothing))
Cleanup      == SessionVerb \o Writing("sessions", Nothing) \o RemovePeer
                \o Writing("registry", Nothing)

-----------------------------------------------------------------------------
(* ChangeBus: its mutexes are held across the publishes they order *)

PublishWorld == Writing("lastWorld", Writing("pendingWorld", Nothing)) \o Publish
DrainPending == Writing("pendingWorld", Nothing) \o Writing("lastWorld", Nothing) \o Publish

Collect      == Reading("registry", Nothing) \o ReadBoth
Observe      == Writing("last", Writing("lastEmit", Writing("trailing", Publish)))
EmitPropsChange == Collect \o Observe \o PublishWorld
FireTrailer  == Writing("lastEmit", Writing("trailing", Nothing) \o Publish)

Program ==
  [publish |-> Publish, subscribe |-> Subscribe, unsubscribe |-> Unsubscribe,
   clear |-> Clear, remove_peer |-> RemovePeer, janitor |-> Janitor,
   list |-> ReadBoth, route |-> RouteLocal, session |-> SessionVerb,
   cleanup |-> Cleanup, emit |-> EmitPropsChange, trailer |-> FireTrailer,
   drain |-> DrainPending]

ASSUME LocksAssumption == Operation \subseteq DOMAIN Program

VARIABLES
  rest,   \* rest[t]: the steps t has yet to take, <<>> between operations
  held,   \* the guards that exist: [task, lock, do]
  queue   \* queue[l]: the waiters of l, in order

vars == <<rest, held, queue>>

Init ==
  /\ rest = [t \in Task |-> <<>>]
  /\ held = {}
  /\ queue = [l \in Lock |-> <<>>]

Conflict(a, b) == a = "write" \/ b = "write"

Compatible(s) == \A h \in held : h.lock = s.lock => ~Conflict(h.do, s.do)

Queued(t) == \E l \in Lock : \E k \in DOMAIN queue[l] : queue[l][k].task = t

Guard(t, s)  == [task |-> t, lock |-> s.lock, do |-> s.do]

Begin(t, op) ==
  /\ rest[t] = <<>>
  /\ rest' = [rest EXCEPT ![t] = Program[op]]
  /\ UNCHANGED <<held, queue>>

\* Mutant: a reader may overtake a waiting writer.
FreeToTakeBarging(s) == Compatible(s) /\ (s.do = "read" \/ queue[s.lock] = <<>>)

\* Nobody waits and no guard conflicts.
FreeToTake(s) == Compatible(s) /\ queue[s.lock] = <<>>

\* t asks for its next lock and gets it, or waits at the end of the queue.
Take(t) ==
  /\ rest[t] # <<>> /\ ~Queued(t)
  /\ LET s == Head(rest[t]) IN
     /\ s.do # "free"
     /\ IF FreeToTake(s)
        THEN /\ held' = held \cup {Guard(t, s)}
             /\ rest' = [rest EXCEPT ![t] = Tail(@)]
             /\ UNCHANGED queue
        ELSE /\ queue' = [queue EXCEPT ![s.lock] = Append(@, [task |-> t, do |-> s.do])]
             /\ UNCHANGED <<held, rest>>

\* t is first in the queue and no guard conflicts any more.
Wake(t) ==
  /\ Queued(t)
  /\ LET s == Head(rest[t]) IN
     /\ Head(queue[s.lock]).task = t /\ Compatible(s)
     /\ held' = held \cup {Guard(t, s)}
     /\ queue' = [queue EXCEPT ![s.lock] = Tail(@)]
     /\ rest' = [rest EXCEPT ![t] = Tail(@)]

Drop(t) ==
  /\ rest[t] # <<>> /\ Head(rest[t]).do = "free"
  /\ held' = {h \in held : h.task # t \/ h.lock # Head(rest[t]).lock}
  /\ rest' = [rest EXCEPT ![t] = Tail(@)]
  /\ UNCHANGED queue

Run(t) == Take(t) \/ Wake(t) \/ Drop(t)

Next == \E t \in Task : Run(t) \/ \E op \in Operation : Begin(t, op)

Spec == Init /\ [][Next]_vars

\* The runtime polls every task that can go on; no operation has to begin.
FairSpec == Spec /\ \A t \in Task : WF_vars(Run(t))

-----------------------------------------------------------------------------

\* Type invariant: guards and waiters are those of running operations; a waiter
\* waits for the lock its next step takes, and is in one queue at one place.
TypeOK ==
  /\ rest \in [Task -> Seq(Step)]
  /\ held \subseteq [task : Task, lock : Lock, do : {"read", "write"}]
  /\ queue \in [Lock -> Seq([task : Task, do : {"read", "write"}])]
  /\ \A l \in Lock : \A k \in DOMAIN queue[l] :
       LET w == queue[l][k]
       IN  /\ rest[w.task] # <<>> /\ Head(rest[w.task]) = [do |-> w.do, lock |-> l]
           /\ \A j \in DOMAIN queue[l] : queue[l][j].task = w.task => j = k

\* The locks t holds a guard of.
Mine(t) == {h.lock : h \in {g \in held : g.task = t}}

\* The order the comment on SubscriptionBroker lays down, in every state of every
\* task: "inner before topics", "ChangeBus mutexes -> broker locks", and "nothing
\* may hold Sessions or the registry across a broker call".  A task never asks
\* for a lock it holds (a second read would queue behind a writer that waits for
\* the first), and holds nothing between operations.
LockOrder ==
  \A t \in Task :
    /\ rest[t] = <<>> => Mine(t) = {}
    /\ (rest[t] # <<>> /\ Head(rest[t]).do # "free") =>
         LET l == Head(rest[t]).lock IN
         /\ l \notin Mine(t) /\ "sessions" \notin Mine(t)
         /\ l = "inner" => "topics" \notin Mine(t)
         /\ l \in {"inner", "topics"} => "registry" \notin Mine(t)
         /\ l \in ChangeBusLock => Mine(t) \subseteq ChangeBusLock

\* u stands in t's way: it holds a guard that conflicts with what t waits for,
\* or it waits for the same lock ahead of t.
BlockedBy(t, u) ==
  \E l \in Lock : \E k \in DOMAIN queue[l] :
    /\ queue[l][k].task = t
    /\ \/ \E h \in held : h.task = u /\ h.lock = l /\ Conflict(h.do, queue[l][k].do)
       \/ \E j \in 1 .. k - 1 : queue[l][j].task = u

\* SubscriptionBroker, lock order: no set of tasks waits on itself.  A reader of
\* topics that wants inner, a remove_peer that holds inner and wants topics, and
\* a writer queued for inner between them would be such a set.
NoCircularWait ==
  \A S \in (SUBSET Task) \ {{}} : \E t \in S : \A u \in S : ~BlockedBy(t, u)

\* An operation that has begun ends: no deadlock, and, the queues being fair, no
\* stream of readers keeps a writer out.
EveryOperationEnds == \A t \in Task : rest[t] # <<>> ~> rest[t] = <<>>
=============================================================================
