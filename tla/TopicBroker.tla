------------------------------ MODULE TopicBroker ------------------------------
(***************************************************************************)
(* The subscription broker of cosmix-noded (subscription.rs) together with *)
(* the part of the connection handler (noded.rs) that drives it.           *)
(*                                                                         *)
(* The broker's tables live behind two read/write locks, `inner`           *)
(* (subscriptions, by_peer) and `topics` (TopicState per topic), and no    *)
(* operation holds one lock from end to end.  One action of this module is *)
(* one lock region of an operation: everything between two regions is a    *)
(* place where another connection's task, the janitor or a socket writer   *)
(* may run.  A task's position is pc[p], its local variables loc[p].       *)
(*                                                                         *)
(* A connection c stands for its outbound channel too, so same_channel is  *)
(* equality and is_closed is ~open[c].  A connection that never registers  *)
(* uses its synthesised anonymous id, which is c itself.  A publication is *)
(* named by its index in pubs, the history of accepted publications; the   *)
(* snapshot cache, the fan-out and the replay refer to it by that index.   *)
(***************************************************************************)
EXTENDS Naturals, Sequences, FiniteSets

CONSTANTS
  Conn,       \* connections; each element is one socket, never reused
  Service,    \* names a connection may register
  Topic,      \* topic names the broker accepts (no reserved $ prefix)
  Namespace,  \* values of a body's top-level namespace field
  UiSource,   \* sources of ui.subscribe
  Owner,      \* Owner[t]: the service that owns publication of t, or None
  GrantOnly,  \* private topics: subscribed to through subscribe_grant only
  Native,     \* connections that publish with a native-session principal
  Budget,     \* bound: the plans b to explore; b[c][v]: how often c issues
              \* (or suffers) v
  Ticks,      \* bound: whether the janitor's interval elapses
  Janitor,    \* the janitor task
  None        \* absent

Verb == {"register", "deregister", "publish", "volatile", "subscribe",
         "grant", "unsubscribe", "clear", "ui", "disconnect", "fail"}

ASSUME BrokerAssumption ==
  /\ None \notin Conn \cup Service \cup Topic \cup Namespace
  /\ Janitor \notin Conn
  /\ Conn \cap Service = {}
  /\ Topic \cap UiSource = {}
  /\ Owner \in [Topic -> Service \cup {None}]
  /\ GrantOnly \subseteq {t \in Topic : Owner[t] # None}
  /\ Native \subseteq Conn
  /\ Budget \subseteq [Conn -> [Verb -> Nat]]
  /\ Ticks \in BOOLEAN

Peer    == Conn \cup Service
Proc    == Conn \cup {Janitor}
SomeConn == Conn \cup {None}
Filter  == Namespace \cup {None}

\* Identity of a subscription: (peer, topic, filter), or (peer, ui source).
SubId   == [peer : Peer, on : Topic \cup UiSource, filter : Filter]

\* topic.active / topic.idle, addressed to a captured channel.
Notice  == [kind : {"active", "idle"}, topic : Topic, to : Conn]

Publication == [topic : Topic, ns : Filter, seq : Nat, by : Peer, tx : Conn]

\* What became of publication pub at one subscription: it was offered (try_send
\* on an open channel), withheld by a session check of its publisher (which is
\* answered partial), or the notice of its deletion was offered.
Outcome == [how : {"offered", "withheld", "deleted"}, pub : Nat]

\* snap is the index in pubs of the cached publication, 0 when there is none;
\* stale abstracts stale_since: unset, set, and set longer ago than the TTL.
TopicState == [seq : Nat, snap : Nat, stale : {"no", "stale", "expired"},
               lastPub : Peer, lastTx : SomeConn]

Locals == [topic : Topic \cup {None}, pub : Nat,
           id : SubId \cup {None}, tx : SomeConn, first : BOOLEAN,
           prune : SUBSET SubId, affected : SUBSET Topic,
           notices : SUBSET Notice, peer : Peer \cup {None}]

Clean  == [topic |-> None, pub |-> 0, id |-> None, tx |-> None,
           first |-> FALSE, prune |-> {}, affected |-> {}, notices |-> {},
           peer |-> None]

PC == {"idle", "fanout", "clearFan", "prune", "idleNotes", "lookup", "insert",
       "replay", "send", "selfPrune", "recheck", "unsubIdle", "rmSubs",
       "rmTopics", "rmIdle", "dispatch", "unregister", "count", "retain",
       "done"}

VARIABLES
  link,      \* link[c]: "new", "up" (read loop running) or "down"
  open,      \* open[c]: the receiving half of c's outbound channel exists
  service,   \* service[c]: the connection's service_name
  registry,  \* registry[s]: the connection the registry binds s to
  subs,      \* subs[id]: the subscription's tx, None when absent
  byPeer,    \* byPeer[p]: the ids indexed under p
  topics,    \* topics[t]: its TopicState, None when absent
  pc, loc,   \* position and locals of every task
  pubs,      \* history: accepted publications, in allocation order
  outcome,   \* history: outcome[id], what this subscription was sent or denied
  told,      \* history: told[c][t], the last notice dispatched to c about t
  left       \* bound: left[c][v], how often c may still issue v

connVars   == <<link, open, service, registry>>
innerVars  == <<subs, byPeer>>
histVars   == <<pubs, outcome, told>>
vars == <<link, open, service, registry, subs, byPeer, topics, pc, loc,
          pubs, outcome, told, left>>

Init ==
  /\ link = [c \in Conn |-> "new"]
  /\ open = [c \in Conn |-> FALSE]
  /\ service = [c \in Conn |-> None]
  /\ registry = [s \in Service |-> None]
  /\ subs = [id \in SubId |-> None]
  /\ byPeer = [p \in Peer |-> {}]
  /\ topics = [t \in Topic |-> None]
  /\ pc = [p \in Proc |-> "idle"]
  /\ loc = [p \in Proc |-> Clean]
  /\ pubs = <<>>
  /\ outcome = [id \in SubId |-> {}]
  /\ told = [c \in Conn |-> [t \in Topic |-> "none"]]
  /\ left \in Budget

-----------------------------------------------------------------------------
(* Helpers *)

Live(tx) == tx # None /\ open[tx]
Dead(id) == subs[id] # None /\ ~open[subs[id]]

\* Peer identity for broker operations: the registered name, else the anon id.
PeerId(c) == IF service[c] = None THEN c ELSE service[c]

\* The read loop is between two commands.
Ready(c) == link[c] = "up" /\ pc[c] = "idle"

Spend(c, v) == left[c][v] > 0 /\ left' = [left EXCEPT ![c][v] = @ - 1]

\* Client c sends its next command.
Issue(c, v) == Ready(c) /\ Spend(c, v)

TopicSubs(t) == {id \in SubId : id.on = t /\ subs[id] # None}

Matches(id, ns) == id.filter = None \/ id.filter = ns

\* Mutant: the subscriptions go, the by_peer index keeps them.
RemoveIdsLeavesIndex(ids) ==
  /\ subs' = [id \in SubId |-> IF id \in ids THEN None ELSE subs[id]]
  /\ byPeer' = byPeer
  /\ outcome' = [id \in SubId |-> IF id \in ids THEN {} ELSE outcome[id]]

\* Remove ids from both tables of `inner`.
RemoveIds(ids) ==
  /\ subs' = [id \in SubId |-> IF id \in ids THEN None ELSE subs[id]]
  /\ byPeer' = [p \in Peer |-> byPeer[p] \ ids]
  /\ outcome' = [id \in SubId |-> IF id \in ids THEN {} ELSE outcome[id]]

\* Mutant: an unguarded prune removes whatever is under a collected id.
PresentIds(ids) == {id \in ids : subs[id] # None}

\* prune_dead_subscriptions: only entries whose current tx is still closed go.
StillDead(ids) == {id \in ids : Dead(id)}
PruneDead(ids) == RemoveIds(StillDead(ids))
PrunedTopics(ids) == {t \in Topic : \E id \in StillDead(ids) : id.on = t}

\* The topic.idle notices for those of ts that have no subscriber left.
IdleNotices(ts) ==
  {n \in Notice : /\ n.kind = "idle"
                  /\ n.topic \in ts
                  /\ TopicSubs(n.topic) = {}
                  /\ topics[n.topic] # None
                  /\ topics[n.topic].lastTx = n.to
                  /\ open[n.to]}

Goto(p, label, locals) ==
  /\ pc' = [pc EXCEPT ![p] = label]
  /\ loc' = [loc EXCEPT ![p] = locals]

\* End of a broker call: dispatch its notices, then back to the read loop.
\* In teardown the registry entry is removed after the dispatch.
Return(p, l) ==
  IF l.notices # {} THEN Goto(p, "dispatch", l)
  ELSE IF l.peer # None THEN Goto(p, "unregister", l)
  ELSE Goto(p, "idle", Clean)

-----------------------------------------------------------------------------
(* Connections and names (noded.rs) *)

Connect(c) ==
  /\ link[c] = "new"
  /\ link' = [link EXCEPT ![c] = "up"]
  /\ open' = [open EXCEPT ![c] = TRUE]
  /\ UNCHANGED <<service, registry, innerVars, topics, pc, loc, histVars, left>>

\* The socket writer stops on a sink error: the channel closes while the read
\* loop is still running.
WriterStops(c) ==
  /\ link[c] # "new" /\ open[c]
  /\ Spend(c, "fail")
  /\ open' = [open EXCEPT ![c] = FALSE]
  /\ UNCHANGED <<link, service, registry, innerVars, topics, pc, loc, histVars>>

\* noded.register: refused while another connection holds the name; the old
\* name goes only if it is still bound to this connection.
Register(c, s) ==
  /\ Issue(c, "register")
  /\ registry[s] \in {None, c}
  /\ registry' = [n \in Service |->
                    IF n = s THEN c
                    ELSE IF n = service[c] /\ registry[n] = c THEN None
                    ELSE registry[n]]
  /\ service' = [service EXCEPT ![c] = s]
  /\ UNCHANGED <<link, open, innerVars, topics, pc, loc, histVars>>

\* route_local found the name's channel closed and unregisters it.
PruneRoute(s) ==
  /\ registry[s] # None /\ ~open[registry[s]]
  /\ registry' = [registry EXCEPT ![s] = None]
  /\ UNCHANGED <<link, open, service, innerVars, topics, pc, loc, histVars, left>>

\* noded.deregister: the name is taken from the connection, then torn down.
Deregister(c) ==
  /\ Issue(c, "deregister")
  /\ service[c] # None
  /\ service' = [service EXCEPT ![c] = None]
  /\ Goto(c, "rmSubs", [Clean EXCEPT !.peer = service[c]])
  /\ UNCHANGED <<link, open, registry, innerVars, topics, histVars>>

\* The read loop ends; cleanup runs under the identity of that moment.
Disconnect(c) ==
  /\ Issue(c, "disconnect")
  /\ link' = [link EXCEPT ![c] = "down"]
  /\ Goto(c, "rmSubs", [Clean EXCEPT !.peer = PeerId(c)])
  /\ UNCHANGED <<open, service, registry, innerVars, topics, histVars>>

\* Last part of deregister and of cleanup: the registry entry goes if it is
\* still this connection's; a closing connection then aborts its writer.
Unregister(c) ==
  /\ pc[c] = "unregister"
  /\ registry' = [s \in Service |-> IF s = loc[c].peer /\ registry[s] = c
                                    THEN None ELSE registry[s]]
  /\ IF link[c] = "down"
     THEN open' = [open EXCEPT ![c] = FALSE] /\ Goto(c, "done", Clean)
     ELSE open' = open /\ Goto(c, "idle", Clean)
  /\ UNCHANGED <<link, service, innerVars, topics, histVars, left>>

\* dispatch_notifications: try_send on the channels captured in the notices.
Dispatch(p) ==
  /\ pc[p] = "dispatch"
  /\ told' = [c \in Conn |-> [t \in Topic |->
       LET mine == {n \in loc[p].notices : n.to = c /\ n.topic = t /\ open[c]}
       IN  IF mine = {} THEN told[c][t] ELSE (CHOOSE n \in mine : TRUE).kind]]
  /\ Return(p, [loc[p] EXCEPT !.notices = {}])
  /\ UNCHANGED <<connVars, innerVars, topics, pubs, outcome, left>>

-----------------------------------------------------------------------------
(* topic.publish *)

\* Mutant: publishing without retain leaves the stale mark alone.
PublishKeepsStale(c, t, ns, retain) ==
  /\ Issue(c, IF retain THEN "publish" ELSE "volatile")
  /\ Owner[t] \in {None, PeerId(c)}
  /\ LET old  == topics[t]
         seq  == (IF old = None THEN 0 ELSE old.seq) + 1
         k    == Len(pubs) + 1
         snap == IF retain THEN k ELSE IF old = None THEN 0 ELSE old.snap
     IN  /\ topics' = [topics EXCEPT ![t] =
              [seq |-> seq, snap |-> snap,
               stale |-> IF retain \/ old = None THEN "no" ELSE old.stale,
               lastPub |-> PeerId(c), lastTx |-> c]]
         /\ pubs' = Append(pubs, [topic |-> t, ns |-> ns, seq |-> seq,
                                  by |-> PeerId(c), tx |-> c])
         /\ Goto(c, "fanout", [Clean EXCEPT !.pub = k])
  /\ UNCHANGED <<connVars, innerVars, outcome, told>>

\* Under topics.write: allocate the sequence number, bind the publisher, cache.
Publish(c, t, ns, retain) ==
  /\ Issue(c, IF retain THEN "publish" ELSE "volatile")
  /\ Owner[t] \in {None, PeerId(c)}
  /\ LET old == topics[t]
         seq == (IF old = None THEN 0 ELSE old.seq) + 1
         k   == Len(pubs) + 1
         snap  == IF retain THEN k ELSE IF old = None THEN 0 ELSE old.snap
         stale == IF retain \/ snap = 0 THEN "no"
                  ELSE IF pubs[snap].by = PeerId(c) THEN "no" ELSE old.stale
     IN  /\ topics' = [topics EXCEPT ![t] =
              [seq |-> seq, snap |-> snap, stale |-> stale,
               lastPub |-> PeerId(c), lastTx |-> c]]
         /\ pubs' = Append(pubs, [topic |-> t, ns |-> ns, seq |-> seq,
                                  by |-> PeerId(c), tx |-> c])
         /\ Goto(c, "fanout", [Clean EXCEPT !.pub = k])
  /\ UNCHANGED <<connVars, innerVars, outcome, told>>

\* Under inner.read: offer to every matching subscriber; note the dead ones,
\* matching or not.  A full channel drops the message and keeps the peer.  Each
\* delivery of a native session's publication is checked: the check may refuse
\* that recipient, or stop the fan-out before the subscribers it has not
\* reached, when the snapshot is in the cache already.
FanOut(c) ==
  /\ pc[c] = "fanout"
  /\ LET k   == loc[c].pub
         to  == TopicSubs(pubs[k].topic)
         due == {id \in to : ~Dead(id) /\ Matches(id, pubs[k].ns)}
     IN  \E reached \in SUBSET to, refused \in SUBSET due :
           LET dead  == {id \in reached : Dead(id)}
               got   == (due \cap reached) \ refused
           IN  /\ pubs[k].tx \notin Native => reached = to /\ refused = {}
               /\ outcome' = [id \in SubId |->
                    IF id \notin due THEN outcome[id] ELSE outcome[id] \cup
                      {[how |-> IF id \in got THEN "offered" ELSE "withheld",
                        pub |-> k]}]
               /\ IF dead = {} THEN Return(c, Clean)
                  ELSE Goto(c, "prune", [Clean EXCEPT !.prune = dead])
  /\ UNCHANGED <<connVars, innerVars, topics, pubs, told, left>>

\* Under inner.write: prune_dead_subscriptions.  The janitor goes on to its
\* tally when nothing was removed.
Prune(p) ==
  /\ pc[p] = "prune"
  /\ PruneDead(loc[p].prune)
  /\ LET ts == PrunedTopics(loc[p].prune)
     IN  IF ts # {} THEN Goto(p, "idleNotes", [Clean EXCEPT !.affected = ts])
         ELSE IF p = Janitor THEN Goto(p, "count", Clean)
         ELSE Return(p, Clean)
  /\ UNCHANGED <<connVars, topics, pubs, told, left>>

\* Under read_both: idle_notifications_for_pruned_topics.
IdleNotes(p) ==
  /\ pc[p] = "idleNotes"
  /\ LET l == [Clean EXCEPT !.notices = IdleNotices(loc[p].affected)]
     IN  IF p = Janitor THEN Goto(p, "count", l) ELSE Return(p, l)
  /\ UNCHANGED <<connVars, innerVars, topics, histVars, left>>

-----------------------------------------------------------------------------
(* topic.subscribe and noded.props.subscribe_grant *)

Subscribe(c, t) ==
  /\ Issue(c, "subscribe")
  /\ t \notin GrantOnly
  /\ Goto(c, "lookup", [Clean EXCEPT !.tx = c,
            !.id = [peer |-> PeerId(c), on |-> t, filter |-> None]])
  /\ UNCHANGED <<connVars, innerVars, topics, histVars>>

\* The owner subscribes a registered peer; its channel is captured here.
SubscribeGrant(c, t, s, ns) ==
  /\ Issue(c, "grant")
  /\ t \in GrantOnly /\ Owner[t] = PeerId(c)
  /\ Live(registry[s])
  /\ Goto(c, "lookup", [Clean EXCEPT !.tx = registry[s],
            !.id = [peer |-> s, on |-> t, filter |-> ns]])
  /\ UNCHANGED <<connVars, innerVars, topics, histVars>>

\* Under inner.read: a live identical subscription makes the call a no-op.
Lookup(c) ==
  /\ pc[c] = "lookup"
  /\ IF Live(subs[loc[c].id]) THEN Return(c, Clean)
     ELSE Goto(c, "insert", loc[c])
  /\ UNCHANGED <<connVars, innerVars, topics, histVars, left>>

\* Under inner.write: count, insert (replacing whatever is there), index.
Insert(c) ==
  /\ pc[c] = "insert"
  /\ LET id == loc[c].id
     IN  /\ subs' = [subs EXCEPT ![id] = loc[c].tx]
         /\ byPeer' = [byPeer EXCEPT ![id.peer] = @ \cup {id}]
         /\ outcome' = [outcome EXCEPT ![id] = {}]
         /\ Goto(c, "replay", [loc[c] EXCEPT !.first = TopicSubs(id.on) = {}])
  /\ UNCHANGED <<connVars, topics, pubs, told, left>>

\* Mutant: the snapshot is replayed to the topic's first subscriber only.
ReplayFirstOnly(c) ==
  /\ pc[c] = "replay"
  /\ LET st == topics[loc[c].id.on]
     IN  IF st # None /\ st.snap # 0 /\ loc[c].first
                     /\ Matches(loc[c].id, pubs[st.snap].ns)
         THEN Goto(c, "send", [loc[c] EXCEPT !.pub = st.snap])
         ELSE Return(c, Clean)
  /\ UNCHANGED <<connVars, innerVars, topics, histVars, left>>

\* Mutant: the replay is not filtered.
ReplayUnfiltered(c) ==
  /\ pc[c] = "replay"
  /\ LET st == topics[loc[c].id.on]
     IN  IF st # None /\ st.snap # 0
         THEN Goto(c, "send", [loc[c] EXCEPT !.pub = st.snap])
         ELSE Return(c, Clean)
  /\ UNCHANGED <<connVars, innerVars, topics, histVars, left>>

\* Under topics.read: choose the snapshot to replay and, on the first
\* subscriber, address topic.active to the last publisher.
Replay(c) ==
  /\ pc[c] = "replay"
  /\ LET id == loc[c].id
         st == topics[id.on]
         hit == st # None /\ st.snap # 0 /\ Matches(id, pubs[st.snap].ns)
         active == IF st # None /\ loc[c].first /\ Live(st.lastTx)
                   THEN {[kind |-> "active", topic |-> id.on, to |-> st.lastTx]}
                   ELSE {}
     IN  IF hit THEN Goto(c, "send", [loc[c] EXCEPT !.pub = st.snap,
                                                    !.notices = active])
         ELSE Return(c, [Clean EXCEPT !.notices = active])
  /\ UNCHANGED <<connVars, innerVars, topics, histVars, left>>

\* No lock: push the replay.  The subscription may be gone or rebound by now.
Send(c) ==
  /\ pc[c] = "send"
  /\ LET id == loc[c].id
     IN  IF open[loc[c].tx]
         THEN /\ outcome' = [outcome EXCEPT ![id] =
                   IF subs[id] # loc[c].tx THEN @
                   ELSE @ \cup {[how |-> "offered", pub |-> loc[c].pub]}]
              /\ Return(c, [Clean EXCEPT !.notices = loc[c].notices])
         ELSE /\ Goto(c, "selfPrune", loc[c])
              /\ UNCHANGED outcome
  /\ UNCHANGED <<connVars, innerVars, topics, pubs, told, left>>

SelfPrune(c) ==
  /\ pc[c] = "selfPrune"
  /\ PruneDead({loc[c].id})
  /\ Goto(c, "recheck", loc[c])
  /\ UNCHANGED <<connVars, topics, pubs, told, left>>

\* topic.active passes only if the entry is live again.
Recheck(c) ==
  /\ pc[c] = "recheck"
  /\ Return(c, [Clean EXCEPT !.notices =
                  IF Live(subs[loc[c].id]) THEN loc[c].notices ELSE {}])
  /\ UNCHANGED <<connVars, innerVars, topics, histVars, left>>

-----------------------------------------------------------------------------
(* topic.unsubscribe, topic.clear, ui.subscribe, ui.unsubscribe *)

\* Under inner.write: every filter variant of (peer, topic) goes.
Unsubscribe(c, t) ==
  /\ Issue(c, "unsubscribe")
  /\ LET ids == {id \in byPeer[PeerId(c)] : id.on = t /\ subs[id] # None}
     IN  /\ ids # {}
         /\ RemoveIds(ids)
         /\ IF TopicSubs(t) \subseteq ids
            THEN Goto(c, "unsubIdle", [Clean EXCEPT !.topic = t])
            ELSE Goto(c, "idle", Clean)
  /\ UNCHANGED <<connVars, topics, pubs, told>>

\* Under topics.write, on the count seen before: notice, drop a bare state.
UnsubIdle(c) ==
  /\ pc[c] = "unsubIdle"
  /\ LET t  == loc[c].topic
         st == topics[t]
         idle == IF st # None /\ Live(st.lastTx)
                 THEN {[kind |-> "idle", topic |-> t, to |-> st.lastTx]}
                 ELSE {}
     IN  /\ topics' = IF st # None /\ st.snap = 0
                      THEN [topics EXCEPT ![t] = None] ELSE topics
         /\ Return(c, [Clean EXCEPT !.notices = idle])
  /\ UNCHANGED <<connVars, innerVars, histVars, left>>

\* Under topics.write: drop the snapshot, remember what it was.
Clear(c, t, notify) ==
  /\ Issue(c, "clear")
  /\ t \in GrantOnly => Owner[t] = PeerId(c)
  /\ topics[t] # None /\ topics[t].snap # 0
  /\ topics' = [topics EXCEPT ![t].snap = 0, ![t].stale = "no"]
  /\ IF notify THEN Goto(c, "clearFan", [Clean EXCEPT !.pub = topics[t].snap])
     ELSE Goto(c, "idle", Clean)
  /\ UNCHANGED <<connVars, innerVars, histVars>>

\* Under inner.read: the delete notice goes to those who could see what was
\* cleared; dead subscribers are noted, matching or not.
ClearFan(c) ==
  /\ pc[c] = "clearFan"
  /\ LET k    == loc[c].pub
         to   == TopicSubs(pubs[k].topic)
         dead == {id \in to : Dead(id)}
     IN  /\ outcome' = [id \in SubId |->
              IF id \in to \ dead /\ Matches(id, pubs[k].ns)
              THEN outcome[id] \cup {[how |-> "deleted", pub |-> k]}
              ELSE outcome[id]]
         /\ IF dead = {} THEN Return(c, Clean)
            ELSE Goto(c, "prune", [Clean EXCEPT !.prune = dead])
  /\ UNCHANGED <<connVars, innerVars, topics, pubs, told, left>>

UiId(c, u) == [peer |-> PeerId(c), on |-> u, filter |-> None]

UiSubscribe(c, u) ==
  /\ Issue(c, "ui")
  /\ subs' = [subs EXCEPT ![UiId(c, u)] = c]
  /\ byPeer' = [byPeer EXCEPT ![PeerId(c)] = @ \cup {UiId(c, u)}]
  /\ UNCHANGED <<connVars, topics, pc, loc, histVars>>

UiUnsubscribe(c, u) ==
  /\ Issue(c, "ui")
  /\ subs[UiId(c, u)] # None
  /\ RemoveIds({UiId(c, u)})
  /\ UNCHANGED <<connVars, topics, pc, loc, pubs, told>>

-----------------------------------------------------------------------------
(* remove_peer: teardown of what this connection holds under one peer id *)

\* Step 1, inner.write: this channel's subscriptions go, others survive.
RmSubs(c) ==
  /\ pc[c] = "rmSubs"
  /\ LET ours == {id \in byPeer[loc[c].peer] : subs[id] = c}
     IN  /\ RemoveIds(ours)
         /\ Goto(c, "rmTopics", [loc[c] EXCEPT
              !.affected = {t \in Topic : \E id \in ours : id.on = t}])
  /\ UNCHANGED <<connVars, topics, pubs, told, left>>

\* Step 2, topics.write: stale-mark where this channel was last publisher.
MarkStale(st) ==
  [st EXCEPT !.stale = IF st.snap # 0 /\ st.stale = "no" THEN "stale" ELSE @,
             !.lastTx = None]

RmTopics(c) ==
  /\ pc[c] = "rmTopics"
  /\ topics' = [t \in Topic |->
       IF topics[t] # None /\ topics[t].lastPub = loc[c].peer
                           /\ topics[t].lastTx = c
       THEN MarkStale(topics[t]) ELSE topics[t]]
  /\ Goto(c, "rmIdle", loc[c])
  /\ UNCHANGED <<connVars, innerVars, histVars, left>>

\* Step 3, inner.read and topics.write: notices, and bare states go.
RmIdle(c) ==
  /\ pc[c] = "rmIdle"
  /\ topics' = [t \in Topic |->
       IF /\ t \in loc[c].affected /\ TopicSubs(t) = {}
          /\ topics[t] # None /\ topics[t].snap = 0
       THEN None ELSE topics[t]]
  /\ Return(c, [loc[c] EXCEPT !.affected = {},
                              !.notices = IdleNotices(loc[c].affected)])
  /\ UNCHANGED <<connVars, innerVars, histVars, left>>

-----------------------------------------------------------------------------
(* janitor_tick *)

\* stale_since has passed the TTL.  The janitor takes `now` when a tick begins;
\* here a mark may also expire while the tick is under way.
Expire(t) ==
  /\ topics[t] # None /\ topics[t].stale = "stale"
  /\ topics' = [topics EXCEPT ![t].stale = "expired"]
  /\ UNCHANGED <<connVars, innerVars, pc, loc, histVars, left>>

\* Mutant: the tick goes straight to the tally.
JanitorNoSweep ==
  /\ Ticks
  /\ pc[Janitor] = "idle"
  /\ Goto(Janitor, "count", Clean)
  /\ UNCHANGED <<connVars, innerVars, topics, histVars, left>>

\* Under inner.read: collect the dead ids.
JanitorSweep ==
  /\ Ticks
  /\ pc[Janitor] = "idle"
  /\ LET dead == {id \in SubId : Dead(id)}
     IN  IF dead = {} THEN Goto(Janitor, "count", Clean)
         ELSE Goto(Janitor, "prune", [Clean EXCEPT !.prune = dead])
  /\ UNCHANGED <<connVars, innerVars, topics, histVars, left>>

\* Under inner.read: which topics have subscribers.
JanitorCount ==
  /\ pc[Janitor] = "count"
  /\ Goto(Janitor, "retain", [loc[Janitor] EXCEPT
            !.affected = {t \in Topic : TopicSubs(t) # {}}])
  /\ UNCHANGED <<connVars, innerVars, topics, histVars, left>>

\* Mutant: snapshots are purged, bare states stay.
JanitorPurgeOnly ==
  /\ pc[Janitor] = "retain"
  /\ topics' = [t \in Topic |->
       IF topics[t] # None /\ topics[t].stale = "expired"
       THEN [topics[t] EXCEPT !.snap = 0, !.stale = "no"] ELSE topics[t]]
  /\ Return(Janitor, [loc[Janitor] EXCEPT !.affected = {}])
  /\ UNCHANGED <<connVars, innerVars, histVars, left>>

\* Under topics.write, on those counts: purge, then drop bare states.
JanitorRetain ==
  /\ pc[Janitor] = "retain"
  /\ topics' = [t \in Topic |->
       IF topics[t] = None THEN None
       ELSE LET snap == IF topics[t].stale = "expired" THEN 0
                        ELSE topics[t].snap
            IN  IF snap = 0 /\ t \notin loc[Janitor].affected THEN None
                ELSE [topics[t] EXCEPT !.snap = snap,
                        !.stale = IF snap = 0 THEN "no" ELSE @]]
  /\ Return(Janitor, [loc[Janitor] EXCEPT !.affected = {}])
  /\ UNCHANGED <<connVars, innerVars, histVars, left>>

-----------------------------------------------------------------------------

\* A client's next command.
Command(c) ==
  \/ \E s \in Service : Register(c, s)
  \/ Deregister(c)
  \/ Disconnect(c)
  \/ \E t \in Topic, ns \in Filter, r \in BOOLEAN : Publish(c, t, ns, r)
  \/ \E t \in Topic : Subscribe(c, t)
  \/ \E t \in Topic, s \in Service, ns \in Namespace : SubscribeGrant(c, t, s, ns)
  \/ \E t \in Topic : Unsubscribe(c, t)
  \/ \E t \in Topic, n \in BOOLEAN : Clear(c, t, n)
  \/ \E u \in UiSource : UiSubscribe(c, u) \/ UiUnsubscribe(c, u)

\* The next lock region of a command in progress.
Continue(c) ==
  \/ FanOut(c) \/ ClearFan(c)
  \/ Lookup(c) \/ Insert(c) \/ Replay(c) \/ Send(c)
  \/ SelfPrune(c) \/ Recheck(c)
  \/ UnsubIdle(c)
  \/ RmSubs(c) \/ RmTopics(c) \/ RmIdle(c) \/ Unregister(c)
  \/ Prune(c) \/ IdleNotes(c) \/ Dispatch(c)

JanitorStep ==
  \/ JanitorSweep \/ JanitorCount \/ JanitorRetain
  \/ Prune(Janitor) \/ IdleNotes(Janitor) \/ Dispatch(Janitor)

Next ==
  \/ \E c \in Conn : Connect(c) \/ WriterStops(c) \/ Command(c) \/ Continue(c)
  \/ \E s \in Service : PruneRoute(s)
  \/ \E t \in Topic : Expire(t)
  \/ JanitorStep

Spec == Init /\ [][Next]_vars

\* Tasks are polled by the runtime until they return, the janitor's interval
\* keeps ticking and time passes.  Clients owe nothing.
Fairness ==
  /\ \A c \in Conn : WF_vars(Continue(c))
  /\ WF_vars(JanitorStep)
  /\ \A t \in Topic : WF_vars(Expire(t))

FairSpec == Spec /\ Fairness

-----------------------------------------------------------------------------
(* Types *)

Types ==
  /\ link \in [Conn -> {"new", "up", "down"}]
  /\ open \in [Conn -> BOOLEAN]
  /\ service \in [Conn -> Service \cup {None}]
  /\ registry \in [Service -> SomeConn]
  /\ subs \in [SubId -> SomeConn]
  /\ byPeer \in [Peer -> SUBSET SubId]
  /\ topics \in [Topic -> TopicState \cup {None}]
  /\ pc \in [Proc -> PC]
  /\ loc \in [Proc -> Locals]
  /\ pubs \in Seq(Publication)
  /\ outcome \in [SubId -> SUBSET Outcome]
  /\ told \in [Conn -> [Topic -> {"none", "active", "idle"}]]
  /\ left \in [Conn -> [Verb -> Nat]]

\* What a task's locals are, given its position and the publications so far.
LocalOK(ps, label, l) ==
  /\ label \in {"lookup", "insert", "replay", "send", "selfPrune", "recheck"}
       => l.id \in SubId /\ l.id.on \in Topic /\ l.tx \in Conn
  /\ label \in {"fanout", "send", "clearFan"} => l.pub \in 1 .. Len(ps)
  /\ label = "send" => ps[l.pub].topic = l.id.on /\ Matches(l.id, ps[l.pub].ns)
  /\ label = "unsubIdle" => l.topic \in Topic
  /\ label \in {"rmSubs", "rmTopics", "rmIdle", "unregister"} => l.peer \in Peer

LocalsOK == \A c \in Conn : LocalOK(pubs, pc[c], loc[c])

\* The cached snapshot is an accepted publication, and so is whatever was sent or
\* withheld; only a native session's publication is withheld.
SnapshotsOK ==
  \A t \in Topic : LET st == topics[t] IN
    st # None => /\ st.snap \in 0 .. Len(pubs)
                 /\ st.snap # 0 => pubs[st.snap].topic = t
                 /\ st.snap = 0 => st.stale = "no"
OutcomesOK ==
  \A id \in SubId : \A o \in outcome[id] :
    /\ o.pub \in 1 .. Len(pubs)
    /\ o.how = "withheld" => pubs[o.pub].tx \in Native

\* Type invariant: every variable has its type, and the locals a step is about
\* to read are set.
TypeOK == Types /\ LocalsOK /\ SnapshotsOK /\ OutcomesOK

-----------------------------------------------------------------------------
(* Safety *)

\* The two tables of `inner` describe the same subscriptions: an id is indexed
\* under its own peer exactly when the subscription exists, whichever of
\* subscribe, unsubscribe, prune, teardown and ui.* touched it last.  An entry
\* missing from by_peer could never be unsubscribed or torn down.
IndexConsistent ==
  \A p \in Peer : byPeer[p] = {id \in SubId : id.peer = p /\ subs[id] # None}

\* A subscriber gets only publications of its topic that pass its filter, by
\* live fan-out or by replay, and is told of the deletion of no other: "a dangling
\* delete notice for content it cannot observe" is not sent.
FilterIsolation ==
  \A id \in SubId : \A o \in outcome[id] :
    pubs[o.pub].topic = id.on /\ Matches(id, pubs[o.pub].ns)

\* Some task will still offer publication k to id: a fan-out that has not run,
\* or a subscribe that has yet to read the snapshot or to send it.
Owed(id, k) ==
  \/ \E c \in Conn : pc[c] = "fanout" /\ loc[c].pub = k
  \/ \E c \in Conn : /\ loc[c].id = id /\ loc[c].tx = subs[id]
                     /\ \/ pc[c] = "replay"
                        \/ pc[c] = "send" /\ loc[c].pub = k

\* Publication k was put before subscription id, or a check of its publisher's
\* native session kept it from id and the publisher was answered so.
Settled(id, k) ==
  \/ [how |-> "offered", pub |-> k] \in outcome[id]
  \/ pubs[k].tx \in Native /\ [how |-> "withheld", pub |-> k] \in outcome[id]

\* A topic is a latest-value channel: the cached snapshot has been offered to
\* every live subscription it matches, or a task that will offer it is under
\* way; the one exception is a native session's publication whose own fan-out
\* passed the subscription over, refused or interrupted.  The subscription is
\* entered before the snapshot is read, and the snapshot is cached before the
\* subscriptions are read, so a publish racing a subscribe is never missed by
\* both.
NoLostUpdate ==
  \A id \in SubId :
    LET st == topics[id.on]
    IN  (/\ id.on \in Topic /\ Live(subs[id])
         /\ st # None /\ st.snap # 0 /\ Matches(id, pubs[st.snap].ns))
        => Settled(id, st.snap) \/ Owed(id, st.snap)

\* A snapshot is not left to expire while the peer that published it is the
\* bound last publisher: coming back with any publish, retained or not,
\* takes the stale mark away.
RepublishFreshens ==
  \A t \in Topic : LET st == topics[t] IN
    (st # None /\ st.stale # "no")
      => st.snap # 0 /\ (st.lastTx = None \/ pubs[st.snap].by # st.lastPub)

\* The step is a command of a connection that goes by the id's peer, the insert
\* of a subscribe for the very id, or the teardown of the channel it is bound to.
OwnStep(id) ==
  \/ \E c \in Conn : left'[c] # left[c] /\ Ready(c) /\ PeerId(c) = id.peer
  \/ \E c \in Conn : pc[c] = "insert" /\ pc'[c] # pc[c] /\ loc[c].id = id
  \/ LET c == subs[id]
     IN  pc[c] = "rmSubs" /\ pc'[c] # pc[c] /\ loc[c].peer = id.peer

\* A subscription on an open channel is never reaped: publish, clear, subscribe
\* and the janitor collect dead ids in one lock region and remove them in a
\* later one, and an old connection tears down a name a new one holds, yet only
\* the subscriber's own commands and its own teardown take the entry away.
LiveSubscriptionKept ==
  [][\A id \in SubId :
       (Live(subs[id]) /\ subs'[id] # subs[id]) => OwnStep(id)]_vars

-----------------------------------------------------------------------------
(* Liveness *)

\* The janitor is the catch-all: a subscription on a closed channel leaves the
\* table (or is rebound to an open one) even if its topic sees no publish and
\* its owner's teardown ran under another name.
DeadSubscriptionsReaped ==
  \A id \in SubId : Dead(id) ~> ~Dead(id)

\* Nothing keeps a topic alive for ever once its publisher is gone and nobody
\* listens: a stale snapshot is purged unless a publish intervenes, and a state
\* with neither snapshot nor subscriber is dropped.
Orphaned(t) == topics[t] # None /\ TopicSubs(t) = {}
               /\ (topics[t].snap = 0 \/ topics[t].stale # "no")
OrphansReclaimed == \A t \in Topic : Orphaned(t) ~> ~Orphaned(t)

-----------------------------------------------------------------------------
(* What the repository says of this code and the code does not do *)

\* janitor_tick must emit topic.idle "so the publisher sees a clean 0->1->0 cycle".
\* Read: a publisher that was told topic.active and is still the bound last
\* publisher is told topic.idle when the last subscriber goes.
StuckActive(c, t) == /\ told[c][t] = "active" /\ open[c] /\ TopicSubs(t) = {}
                     /\ topics[t] # None /\ topics[t].lastTx = c
ActiveThenIdle == \A c \in Conn, t \in Topic : StuckActive(c, t) ~> ~StuckActive(c, t)

\* BROKER-010: "No-snapshot/no-subscriber entries are removed"; janitor_tick
\* "drops any TopicState that has no snapshot and no subscribers".  Read: a
\* topic somebody is subscribed to keeps its state, hence its sequence.
SubscribedTopicKept ==
  [][\A t \in Topic :
       (topics[t] # None /\ TopicSubs(t) # {}) => topics'[t] # None]_vars
=============================================================================
