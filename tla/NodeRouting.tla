------------------------------ MODULE NodeRouting ------------------------------
(***************************************************************************)
(* Request routing in cosmix-noded (noded.rs): the service registry, the   *)
(* table that correlates a routed request with its reply, the tap list and *)
(* the teardown of a connection, by its own task or by an inventory reload.*)
(*                                                                         *)
(* Every connection is served by one task.  Each table has a lock of its   *)
(* own and no operation holds one across an await, so one action here is   *)
(* one lock region.  A connection c stands for its outbound channel: it is *)
(* in open while the socket writer holds the receiving half.  The channel  *)
(* is bounded; whether a try_send on an open channel finds it full is a    *)
(* free choice.                                                            *)
(*                                                                         *)
(* A client numbers its own requests from RequestId, so two callers use    *)
(* the same numbers; the broker's own ids are 1, 2, ...                    *)
(***************************************************************************)
EXTENDS Naturals, Sequences, FiniteSets
LOCAL INSTANCE FiniteSetsExt

CONSTANTS
  Conn,       \* connections; each element is one socket, never reused
  Service,    \* names a connection may register
  RequestId,  \* ids callers put on their requests, each used once per caller
  Cast,       \* bound: the casts of clients to explore, a set of Roles
  MaxTaps,    \* bound: length of the tap list
  None        \* absent

\* What the clients do: who connects, which ids each puts on requests it awaits
\* replies to, which names it registers; who sends requests without an id, whose
\* socket writer may fail, who asks for noded.tap (same-node connections), and
\* which are inter-node connections the enforce gate admits and tracks.
Roles == [conns : SUBSET Conn, ids : [Conn -> SUBSET RequestId],
          names : [Conn -> SUBSET Service], casters : SUBSET Conn,
          frail : SUBSET Conn, tappers : SUBSET Conn, gated : SUBSET Conn]

ASSUME RoutingAssumption ==
  /\ Cast \subseteq Roles
  /\ MaxTaps \in Nat
  /\ None \notin Conn \cup Service \cup RequestId \cup [caller : Conn, id : RequestId]

SomeConn == Conn \cup {None}
Request  == Conn \X RequestId
BrokerId == Nat \ {0}

\* A reply on the caller's channel under its own id: an error the broker made
\* up, or what `from` wrote; `to` is the request `from` was answering, None for
\* a response that answers no message the sender was given.
Reply == [kind : {"error", "answer"}, from : SomeConn, to : Request \cup {None}]

Locals == [svc : Service \cup {None}, id : RequestId \cup {None},
           target : SomeConn, bid : BrokerId \cup {0},
           dead : SUBSET (1 .. MaxTaps),
           entry : [caller : Conn, id : RequestId] \cup {None},
           to : Request \cup {None}]
Clean  == [svc |-> None, id |-> None, target |-> None, bid |-> 0, dead |-> {},
           entry |-> None, to |-> None]

PC == {"off", "idle", "dereg", "pend", "attempt", "dropRoute", "takeBack",
       "tap", "prune", "reply", "drain", "unregister", "gone", "panicked"}

VARIABLES
  role,       \* the cast of this behaviour; no step changes it
  pc, loc,    \* position and locals of every connection's task
  open,       \* connections whose outbound channel still has a receiver
  name,       \* name[c]: the task's service_name
  registry,   \* registry[s]: the connection s is bound to
  pending,    \* the correlation table, broker id -> entry
  nextId,     \* the next broker id
  taps,       \* the tap subscribers, in order of arrival
  live,       \* live_sessions: gated sessions a reload may close
  closing,    \* sessions whose close signal has been given
  victims,    \* the reload task: sessions still to be torn down
  drained,    \* the reload task: the victim whose requests it has drained
  asked,      \* history: requests sent so far
  addressee,  \* history: addressee[r], the connection r was addressed to
  inbox,      \* history: inbox[c], requests put on c's channel
  replies,    \* history: replies[r], what came back, in order
  retired     \* history: connections told that their name is deregistered

taskVars   == <<pc, loc>>
reloadVars == <<live, closing, victims, drained>>
histVars   == <<asked, addressee, inbox, replies>>
vars == <<role, pc, loc, open, name, registry, pending, nextId, taps, live,
          closing, victims, drained, asked, addressee, inbox, replies, retired>>

Init ==
  /\ role \in Cast
  /\ pc = [c \in Conn |-> "off"] /\ loc = [c \in Conn |-> Clean]
  /\ open = {} /\ name = [c \in Conn |-> None]
  /\ registry = [s \in Service |-> None]
  /\ pending = [b \in {} |-> None] /\ nextId = 1 /\ taps = <<>>
  /\ live = {} /\ closing = {} /\ victims = {} /\ drained = None
  /\ asked = {} /\ addressee = [r \in Request |-> None]
  /\ inbox = [c \in Conn |-> {}] /\ replies = [r \in Request |-> <<>>]
  /\ retired = {}

-----------------------------------------------------------------------------
(* Helpers *)

\* The read loop is waiting for a frame; the select is biased, so a close
\* signal that has been given wins over the next frame.
Ready(c) == pc[c] = "idle" /\ c \notin closing

Goto(c, label, l) == pc' = [pc EXCEPT ![c] = label] /\ loc' = [loc EXCEPT ![c] = l]
Done(c) == Goto(c, "idle", Clean)

\* The registry with s unbound if, and only if, it still points at c.
Released(s, c) ==
  [n \in Service |-> IF n = s /\ registry[n] = c THEN None ELSE registry[n]]

Without(B) == [b \in DOMAIN pending \ B |-> pending[b]]
PendingOf(c) == {b \in DOMAIN pending : pending[b].caller = c}

\* try_send of reply m to request r: lost when the channel is full or closed.
Deliver(r, m) ==
  \/ r[1] \in open /\ replies' = [replies EXCEPT ![r] = Append(@, m)]
  \/ UNCHANGED replies

ErrorReply == [kind |-> "error", from |-> None, to |-> None]

-----------------------------------------------------------------------------
(* Connections and names *)

Connect(c) ==
  /\ pc[c] = "off" /\ c \in role.conns
  /\ Done(c) /\ open' = open \cup {c}
  /\ UNCHANGED <<name, registry, pending, nextId, taps, reloadVars, histVars, retired>>

\* The socket writer meets a send error and ends; the read loop may go on.
WriterStops(c) ==
  /\ c \in open \cap role.frail
  /\ open' = open \ {c}
  /\ UNCHANGED <<taskVars, name, registry, pending, nextId, taps, reloadVars,
                 histVars, retired>>

\* Mutant: a new alias leaves the old one bound.
RegisterKeepsOld(c, s) ==
  /\ Ready(c) /\ s \in role.names[c]
  /\ live' = IF c \in role.gated THEN live \cup {c} ELSE live
  /\ IF registry[s] \in {None, c}
     THEN /\ registry' = [registry EXCEPT ![s] = c]
          /\ name' = [name EXCEPT ![c] = s]
          /\ retired' = retired \ {c}
     ELSE UNCHANGED <<registry, name, retired>>
  /\ UNCHANGED <<taskVars, open, pending, nextId, taps, closing, victims, drained, histVars>>

\* noded.register: the enforce gate tracks an admitted inter-node session first;
\* then a name held by another connection is refused, else the connection's
\* previous name goes if it still is its own, and the new one is bound.
Register(c, s) ==
  /\ Ready(c) /\ s \in role.names[c]
  /\ live' = IF c \in role.gated THEN live \cup {c} ELSE live
  /\ IF registry[s] \in {None, c}
     THEN /\ registry' = [Released(name[c], c) EXCEPT ![s] = c]
          /\ name' = [name EXCEPT ![c] = s]
          /\ retired' = retired \ {c}
     ELSE UNCHANGED <<registry, name, retired>>
  /\ UNCHANGED <<taskVars, open, pending, nextId, taps, closing, victims, drained, histVars>>

\* noded.deregister: service_name is taken at once, the registry entry goes in a
\* later region, and the acknowledgement follows.
Deregister(c) ==
  /\ Ready(c) /\ role.names[c] # {}
  /\ IF name[c] = None
     THEN retired' = retired \cup {c} /\ UNCHANGED taskVars
     ELSE Goto(c, "dereg", [Clean EXCEPT !.svc = name[c]]) /\ UNCHANGED retired
  /\ name' = [name EXCEPT ![c] = None]
  /\ UNCHANGED <<open, registry, pending, nextId, taps, reloadVars, histVars>>

Deregistered(c) ==
  /\ pc[c] = "dereg"
  /\ registry' = Released(loc[c].svc, c)
  /\ retired' = retired \cup {c}
  /\ Done(c)
  /\ UNCHANGED <<open, name, pending, nextId, taps, reloadVars, histVars>>

\* noded.tap: pushed without looking for an earlier entry of the connection.
TapOn(c) ==
  /\ Ready(c) /\ c \in role.tappers /\ Len(taps) < MaxTaps
  /\ taps' = Append(taps, c)
  /\ UNCHANGED <<taskVars, open, name, registry, pending, nextId, reloadVars,
                 histVars, retired>>

-----------------------------------------------------------------------------
(* route_local: look up, register the reply, revalidate and enqueue *)

\* Nobody holds the name: the caller is told under its own id, if it gave one.
NotFound(c, l) ==
  /\ Goto(c, "tap", l)
  /\ IF l.id = None THEN UNCHANGED replies ELSE Deliver(<<c, l.id>>, ErrorReply)

\* c sends a request to service s, with id i or (None) fire-and-forget.
Send(c, s, i) ==
  /\ Ready(c) /\ (IF i = None THEN c \in role.casters ELSE i \in role.ids[c])
  /\ <<c, i>> \notin asked
  /\ asked' = IF i = None THEN asked ELSE asked \cup {<<c, i>>}
  /\ LET l == [Clean EXCEPT !.svc = s, !.id = i, !.target = registry[s]]
     IN  IF registry[s] = None THEN NotFound(c, l)
         ELSE Goto(c, "pend", l) /\ UNCHANGED replies
  /\ UNCHANGED <<open, name, registry, pending, nextId, taps, reloadVars,
                 addressee, inbox, retired>>

\* Mutant: the table is keyed by the caller's own id.
PendByCallerId(c) ==
  /\ pc[c] = "pend"
  /\ LET l == loc[c]
         b == l.id
         e == [caller |-> c, id |-> l.id, responder |-> l.target]
     IN  IF l.id = None
         THEN /\ Goto(c, "attempt", l) /\ UNCHANGED <<pending, nextId, addressee>>
         ELSE /\ pending' = [k \in DOMAIN pending \cup {b} |->
                               IF k = b THEN e ELSE pending[k]]
              /\ nextId' = IF b < nextId THEN nextId ELSE b + 1
              /\ addressee' = [addressee EXCEPT ![<<c, l.id>>] = l.target]
              /\ Goto(c, "attempt", [l EXCEPT !.bid = b])
  /\ UNCHANGED <<open, name, registry, taps, reloadVars, asked, inbox, replies, retired>>

\* register_classified: no guard is held over the wait for this lock.
Pend(c) ==
  /\ pc[c] = "pend"
  /\ LET l == loc[c]
         e == [caller |-> c, id |-> l.id, responder |-> l.target]
     IN  IF l.id = None
         THEN /\ Goto(c, "attempt", l) /\ UNCHANGED <<pending, nextId, addressee>>
         ELSE /\ pending' = [k \in DOMAIN pending \cup {nextId} |->
                               IF k = nextId THEN e ELSE pending[k]]
              /\ nextId' = nextId + 1
              /\ addressee' = [addressee EXCEPT ![<<c, l.id>>] = l.target]
              /\ Goto(c, "attempt", [l EXCEPT !.bid = nextId])
  /\ UNCHANGED <<open, name, registry, taps, reloadVars, asked, inbox, replies, retired>>

\* The message is on the target's channel, under the broker's id.
Enqueue(c, l) ==
  /\ Goto(c, "tap", l)
  /\ inbox' = IF l.id = None THEN inbox
              ELSE [inbox EXCEPT ![l.target] = @ \cup {<<l.bid, <<c, l.id>>>>}]

\* Mutant: the route found before the wait is used without looking again.
AttemptStale(c) ==
  /\ pc[c] = "attempt"
  /\ LET l == loc[c]
     IN  \/ l.target \in open /\ Enqueue(c, l)
         \/ l.target \in open /\ Goto(c, "takeBack", l) /\ UNCHANGED inbox
         \/ l.target \notin open /\ Goto(c, "dropRoute", l) /\ UNCHANGED inbox
  /\ UNCHANGED <<open, name, registry, pending, nextId, taps, reloadVars, asked,
                 addressee, replies, retired>>

\* Under the registry lock: the route must still lead to the captured channel;
\* then try_send succeeds, finds it full, or finds it closed.  The session fence
\* may refuse a native caller's delivery, which ends like a full channel.
Attempt(c) ==
  /\ pc[c] = "attempt"
  /\ LET l == loc[c] IN
     \/ registry[l.svc] = l.target /\ l.target \in open /\ Enqueue(c, l)
     \/ Goto(c, "takeBack", l) /\ UNCHANGED inbox
     \/ /\ registry[l.svc] = l.target /\ l.target \notin open
        /\ Goto(c, "dropRoute", l) /\ UNCHANGED inbox
  /\ UNCHANGED <<open, name, registry, pending, nextId, taps, reloadVars, asked,
                 addressee, replies, retired>>

\* Mutant: the closed route is removed by name alone.
DropRouteByName(c) ==
  /\ pc[c] = "dropRoute"
  /\ registry' = [registry EXCEPT ![loc[c].svc] = None]
  /\ Goto(c, "takeBack", [loc[c] EXCEPT !.target = None])
  /\ UNCHANGED <<open, name, pending, nextId, taps, reloadVars, histVars, retired>>

\* The channel was closed: unbind the name if it still points at it.
DropRoute(c) ==
  /\ pc[c] = "dropRoute"
  /\ registry' = Released(loc[c].svc, loc[c].target)
  /\ Goto(c, "takeBack", [loc[c] EXCEPT !.target = None])
  /\ UNCHANGED <<open, name, pending, nextId, taps, reloadVars, histVars, retired>>

\* Mutant: the error is sent though somebody else has taken the entry.
TakeBackTells(c) ==
  /\ pc[c] = "takeBack"
  /\ LET l == loc[c] IN
     /\ IF l.id # None
        THEN Deliver(<<c, l.id>>, ErrorReply) ELSE UNCHANGED replies
     /\ pending' = Without({l.bid})
     /\ Goto(c, "tap", l)
  /\ UNCHANGED <<open, name, registry, nextId, taps, reloadVars, asked, addressee,
                 inbox, retired>>

\* Not delivered: the entry is taken back, and only if it still was there does
\* the error carry the caller's id.
TakeBack(c) ==
  /\ pc[c] = "takeBack"
  /\ LET l == loc[c] IN
     /\ IF l.bid \in DOMAIN pending
        THEN Deliver(<<c, l.id>>, ErrorReply) ELSE UNCHANGED replies
     /\ pending' = Without({l.bid})
     /\ Goto(c, "tap", l)
  /\ UNCHANGED <<open, name, registry, nextId, taps, reloadVars, asked, addressee,
                 inbox, retired>>

-----------------------------------------------------------------------------
(* broadcast_tap *)

\* Every tap except the routed-to target is sent a copy; the places of the
\* closed ones are noted.
Tap(c) ==
  /\ pc[c] = "tap"
  /\ LET dead == {k \in DOMAIN taps : taps[k] # loc[c].target /\ taps[k] \notin open}
     IN  IF dead = {} THEN Done(c)
         ELSE Goto(c, "prune", [Clean EXCEPT !.dead = dead])
  /\ UNCHANGED <<open, name, registry, pending, nextId, taps, reloadVars, histVars, retired>>

\* The places of S in order.
InOrder(S) ==
  CHOOSE f \in [1 .. Cardinality(S) -> S] : \A i, j \in DOMAIN f : i < j => f[i] < f[j]

TapsWithout(D) ==
  LET kept == DOMAIN taps \ D
  IN  [k \in 1 .. Cardinality(kept) |-> taps[InOrder(kept)[k]]]

\* The noted places are removed, the last one first, whatever the list holds by
\* now; a place beyond its end panics, which ends the task without its cleanup.
TapPrune(c) ==
  /\ pc[c] = "prune"
  /\ IF Max(loc[c].dead) <= Len(taps)
     THEN taps' = TapsWithout(loc[c].dead) /\ Done(c)
     ELSE UNCHANGED taps /\ Goto(c, "panicked", Clean)
  /\ UNCHANGED <<open, name, registry, pending, nextId, reloadVars, histVars, retired>>

-----------------------------------------------------------------------------
(* Responses *)

\* Mutant: the entry is read and stays in the table.
TakeResponseReads(c, b, r) ==
  /\ b \in DOMAIN pending /\ pending[b].responder = c
  /\ UNCHANGED pending
  /\ Goto(c, "reply", [Clean EXCEPT
       !.entry = [caller |-> pending[b].caller, id |-> pending[b].id], !.to = r])

\* take_response: only the connection the request was addressed to consumes it.
TakeResponse(c, b, r) ==
  /\ b \in DOMAIN pending /\ pending[b].responder = c
  /\ pending' = Without({b})
  /\ Goto(c, "reply", [Clean EXCEPT
       !.entry = [caller |-> pending[b].caller, id |-> pending[b].id], !.to = r])

\* c answers a message it was given, any number of times, or sends a response
\* under an id it was never given; without an entry the response is dropped.
Respond(c) ==
  /\ Ready(c)
  /\ \/ \E m \in inbox[c] : TakeResponse(c, m[1], m[2])
     \/ \E b \in 1 .. nextId - 1 :
          (\A m \in inbox[c] : m[1] # b) /\ TakeResponse(c, b, None)
  /\ UNCHANGED <<open, name, registry, nextId, taps, reloadVars, histVars, retired>>

\* With the caller's id restored, the response goes to the caller's channel; the
\* session fence may turn it into an error.
ReplyTo(c) ==
  /\ pc[c] = "reply"
  /\ LET e == loc[c].entry
         m == [kind |-> "answer", from |-> c, to |-> loc[c].to]
     IN  Deliver(<<e.caller, e.id>>, m) \/ Deliver(<<e.caller, e.id>>, ErrorReply)
  /\ Done(c)
  /\ UNCHANGED <<open, name, registry, pending, nextId, taps, reloadVars, asked,
                 addressee, inbox, retired>>

-----------------------------------------------------------------------------
(* The end of a connection *)

\* The read loop ends: the client went, or the close signal was given.
Leave(c) ==
  /\ pc[c] = "idle"
  /\ live' = live \ {c}
  /\ Goto(c, "drain", Clean)
  /\ UNCHANGED <<open, name, registry, pending, nextId, taps, closing, victims,
                 drained, histVars, retired>>

\* Mutant: a session the reload closed is taken to be drained already.
DrainUnlessClosed(c) ==
  /\ pc[c] = "drain"
  /\ pending' = IF c \in closing THEN pending ELSE Without(PendingOf(c))
  /\ Goto(c, "unregister", Clean)
  /\ UNCHANGED <<open, name, registry, nextId, taps, reloadVars, histVars, retired>>

\* drain_for_channel: every request this caller has in flight is abandoned.
Drain(c) ==
  /\ pc[c] = "drain"
  /\ pending' = Without(PendingOf(c))
  /\ Goto(c, "unregister", Clean)
  /\ UNCHANGED <<open, name, registry, nextId, taps, reloadVars, histVars, retired>>

\* The name goes if it is still this connection's, and the writer is aborted.
Unregister(c) ==
  /\ pc[c] = "unregister"
  /\ registry' = Released(name[c], c)
  /\ open' = open \ {c}
  /\ Goto(c, "gone", Clean)
  /\ UNCHANGED <<name, pending, nextId, taps, reloadVars, histVars, retired>>

-----------------------------------------------------------------------------
(* reload_revocation_teardown *)

\* A reload finds the members of some gated sessions no longer admissible.
Reload(V) ==
  /\ victims = {} /\ V # {}
  /\ victims' = V
  /\ UNCHANGED <<taskVars, open, name, registry, pending, nextId, taps, live,
                 closing, drained, histVars, retired>>

RevokeDrain(v) ==
  /\ v \in victims /\ drained = None
  /\ pending' = Without(PendingOf(v))
  /\ drained' = v
  /\ UNCHANGED <<taskVars, open, name, registry, nextId, taps, live, closing,
                 victims, histVars, retired>>

\* Mutant: the signal reaches only a loop that is waiting for it.
RevokeCloseWaiting(v) ==
  /\ drained = v
  /\ closing' = IF pc[v] = "idle" THEN closing \cup {v} ELSE closing
  /\ live' = live \ {v} /\ victims' = victims \ {v} /\ drained' = None
  /\ UNCHANGED <<taskVars, open, name, registry, pending, nextId, taps, histVars, retired>>

\* notify_one stores a permit, so a loop that is busy finds it when it returns.
RevokeClose(v) ==
  /\ drained = v
  /\ closing' = closing \cup {v}
  /\ live' = live \ {v} /\ victims' = victims \ {v} /\ drained' = None
  /\ UNCHANGED <<taskVars, open, name, registry, pending, nextId, taps, histVars, retired>>

-----------------------------------------------------------------------------

\* What c's task does by itself once a frame has been accepted, or a close
\* signal given.
Handler(c) ==
  /\ UNCHANGED role
  /\ \/ Pend(c) \/ Attempt(c) \/ DropRoute(c) \/ TakeBack(c) \/ Tap(c) \/ TapPrune(c)
     \/ Deregistered(c) \/ ReplyTo(c) \/ Drain(c) \/ Unregister(c)
     \/ c \in closing /\ Leave(c)

\* What c's client, or its network, decides.
Client(c) ==
  \/ Connect(c) \/ WriterStops(c) \/ Leave(c)
  \/ Deregister(c) \/ TapOn(c) \/ Respond(c)
  \/ \E s \in Service : Register(c, s) \/ \E i \in RequestId \cup {None} : Send(c, s, i)

ReloadTask == UNCHANGED role /\ \E v \in Conn : RevokeDrain(v) \/ RevokeClose(v)

Next ==
  \/ \E c \in Conn : Handler(c)
  \/ ReloadTask
  \/ UNCHANGED role /\ \E c \in Conn : Client(c)
  \/ UNCHANGED role /\ \E V \in SUBSET live : Reload(V)

Spec == Init /\ [][Next]_vars

\* The runtime keeps polling a task that can go on; clients owe nothing.
FairSpec == Spec /\ \A c \in Conn : WF_vars(Handler(c)) /\ WF_vars(ReloadTask)

-----------------------------------------------------------------------------

Entry == [caller : Conn, id : RequestId, responder : Conn]

\* Type invariant: every variable has its type, and the locals a step is about
\* to read are set.
TypeOK ==
  /\ role \in Cast
  /\ pc \in [Conn -> PC] /\ loc \in [Conn -> Locals]
  /\ open \subseteq Conn /\ name \in [Conn -> Service \cup {None}]
  /\ registry \in [Service -> SomeConn]
  /\ nextId \in Nat \ {0} /\ DOMAIN pending \subseteq 1 .. nextId - 1
  /\ \A b \in DOMAIN pending : pending[b] \in Entry
  /\ taps \in Seq(Conn) /\ Len(taps) <= MaxTaps
  /\ live \subseteq role.gated /\ closing \subseteq role.gated /\ victims \subseteq role.gated
  /\ drained \in victims \cup {None}
  /\ asked \subseteq Request /\ addressee \in [Request -> SomeConn]
  /\ inbox \in [Conn -> SUBSET (BrokerId \X Request)]
  /\ replies \in [Request -> Seq(Reply)]
  /\ retired \subseteq Conn
  /\ \A c \in Conn : pc[c] \in {"pend", "attempt", "dropRoute"}
                       => loc[c].svc # None /\ loc[c].target # None
  /\ \A c \in Conn : pc[c] = "pend" => loc[c].bid = 0
  /\ \A c \in Conn : pc[c] \in {"attempt", "dropRoute", "takeBack"}
                       => (loc[c].id = None <=> loc[c].bid = 0)
  /\ \A c \in Conn : pc[c] = "reply" => loc[c].entry # None
  /\ \A c \in Conn : pc[c] = "prune" => loc[c].dead # {}

\* A caller gets at most one reply per request: the responder's answers, the
\* error of a failed delivery, and the drains of the caller's own cleanup and of
\* a reload all compete for one table entry, and only the winner speaks.
ReplyOnce == \A r \in Request : Len(replies[r]) <= 1

\* BROKER-001: a reply returns to the connection that asked, with its own id.
\* Whatever ids callers choose, an answer under request r was written by the
\* connection r was addressed to, and not as the answer to another request.
AnswerCorrelated ==
  \A r \in Request : \A k \in DOMAIN replies[r] :
    LET m == replies[r][k]
    IN  m.kind = "answer" => m.from = addressee[r] /\ m.to \in {r, None}

\* The correlation table does not leak callers: past its own drain, however it
\* raced a reload that drained before it, a connection has no entry left.
PendingHasCaller ==
  \A b \in DOMAIN pending : pc[pending[b].caller] \notin {"unregister", "gone"}

\* No name stays bound to a connection whose cleanup is over: refused and
\* repeated registrations, aliases and deregistrations all leave the task's
\* service_name pointing at the one entry its cleanup has to remove.
NoOrphanName == \A s \in Service : registry[s] # None => pc[registry[s]] # "gone"

\* BROKER-002: a name bound to an open channel goes only because its own
\* connection gave it up; not through the prune of a route that was closed when
\* looked at, nor the cleanup, alias or deregistration of an earlier holder.
NameKept ==
  [][\A s \in Service : LET c == registry[s] IN
       (c \in open /\ registry'[s] # c) => name'[c] # s \/ pc[c] = "unregister"]_vars

\* noded.deregister is acknowledged once "the broker never routes a request to
\* a dead name": no request is put on the channel after the acknowledgement,
\* although senders look the route up and enqueue in different lock regions.
NoDeliveryAfterDeregister ==
  [][\A c \in retired : inbox'[c] = inbox[c]]_vars

\* A reload's close signal is not lost: a revoked session's task ends, wherever
\* in its loop the signal finds it.
RevokedLeaves == \A c \in Conn : c \in victims ~> pc[c] \in {"gone", "panicked"}

-----------------------------------------------------------------------------
(* Refinement *)

\* Where request r stands: with the task that took it from its caller; in the
\* correlation table or with the task that took it from there; or over.
Accepted(r) == \E c \in Conn : pc[c] = "pend" /\ r = <<c, loc[c].id>>
Waiting(r) ==
  \/ \E b \in DOMAIN pending : r = <<pending[b].caller, pending[b].id>>
  \/ \E c \in Conn : pc[c] = "reply" /\ r = <<loc[c].entry.caller, loc[c].entry.id>>
Stage(r) ==
  IF r \notin asked THEN "new"
  ELSE IF Accepted(r) THEN "accepted" ELSE IF Waiting(r) THEN "waiting" ELSE "settled"

RP == INSTANCE ReplyPromise WITH stage <- [r \in Request |-> Stage(r)], responder <- addressee

\* Refinement of ReplyPromise: whoever competes for the table entry (answers, asked
\* for or not, the failed delivery, the caller's cleanup, a reload that drains it
\* between two steps of its own routing), a request is settled once, by the one
\* connection it was forwarded to or by the broker, and a reply comes at that
\* moment or never (noded.rs PendingResponses, register_classified to take_response
\* and drain_for_channel).
PromiseKept == RP!Spec

-----------------------------------------------------------------------------
(* What the repository says of this code and the code does not do *)

\* broadcast_tap: a slow tap loses the frame but must "keep the subscription";
\* only closed ones are pruned.  Read: a tap on an open channel stays.
LiveTapKept ==
  [][\A c \in open :
       Len(SelectSeq(taps', LAMBDA x : x = c)) >= Len(SelectSeq(taps, LAMBDA x : x = c))]_vars
=============================================================================
