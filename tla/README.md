# Verification of cosmix: the node broker and the editor

cosmix is a set of daemons (citizens) on one machine, and of machines joined in a
mesh, that talk over a bus. At the centre of every node is **cosmix-noded**: each
citizen holds one socket to it, registers a name, sends requests to names,
publishes to topics, subscribes to topics and watches the node's properties. All
other daemons depend on what noded promises about names, replies, subscriptions
and retained values, and noded is where concurrency is hardest: one tokio task per
connection, a socket writer per connection, a janitor, timers and a reload task,
over shared tables behind separate locks that are released between the steps of
almost every operation. This development models noded first.

Second comes the **editor**: `cosmix-editd` holds documents that several clients edit
at once, keeps recovery files for unsaved text and publishes every change;
`cosmix-edit-core` does the operational transformation and the undo; a client holds a
mirror (`cosmix-edit-client`) in which typing is shown at once and reconciled later.
It is the part of the repository with the hardest data (text offsets through
concurrent changes) and with real faults to survive: crashes, lost events, requests of
unknown fate.

Source paths of noded below are relative to `src/src/crates/cosmix-noded/src/`, those of
the editor to `src/src/crates/`.

## Inventory

| component | state | operations | talks to |
|---|---|---|---|
| Topics and subscriptions (`subscription.rs`, `props_reservation.rs`) | `inner`: subscriptions, `by_peer`; `topics`: per topic sequence, retained snapshot, stale mark, last publisher | publish, clear, subscribe, subscribe_grant, unsubscribe, ui subscribe/unsubscribe, remove_peer, janitor_tick | driven by connection tasks and the janitor; delivers to outbound channels; asks sessions about native publishers |
| Registry, routing, replies, taps (`noded.rs`) | registry, pending-response table, tap list, live gated sessions | register, deregister, route_local, respond, tap, cleanup, reload teardown | connection tasks, reload task |
| Props change bus (`props.rs`) | cached snapshot, time of last event, trailing emits, pending world snapshot | collect, observe, fire_trailer, publish_world, drain_pending | called after each registry change; publishes through the topics |
| Locks of the above | nine tokio locks | what every operation takes, in order | all of them |
| Native sessions and leases (`session.rs`, `native_ingress.rs`) | sessions, leases, grants | attach, resume, revoke, maintain, delivery checks | registry, topics, routing |
| Admission and signed authority (`admission.rs`, `authority.rs`, `routing.rs`) | challenge table, inventory epoch, ordering fence | challenge, prove, reload | reload teardown |
| Bus client (`cosmix-lib-client`) | connection, registrations, subscriptions, requests in flight | reconnect, re-register, resubscribe, request timeout | peer of noded |
| Mesh peers (`cosmix-lib-mesh`) | connection per peer, generation, requests in flight | connect, retire, forward | noded to noded |
| Editor: recovery (`cosmix-editd/src/recovery.rs`, `actor.rs`, `files.rs`) | per document: generation, outstanding switch, queue to the writer; on disk: meta, snapshot and log per generation | edit, save, reload, close, flush; Switch, Append, Discard; restore | actor task and writer thread, over a queue and a signal |
| Editor: documents (`cosmix-edit-core/src/`) | text, log of revisions, undo and redo stacks per lane | apply, undo, redo, reload_minimal | called by the actor |
| Editor: publisher and reply cache (`cosmix-editd/src/events.rs`, `actor.rs`) | queue of events, resyncs owed, recent replies by request | publish, mark lost, resync; serve once | topics of noded |
| Editor: mirror (`cosmix-edit-client/src/mirror.rs`) | view, slot in flight, queue, stash, detached copy, reads under way | local edit, fold, revert, deadlines, reconciliation, gap recovery, snapshot | requests to and events from editd |
| Property store, interaction broker, blob, container, mail, files, DNS, WireGuard daemons | own stores | see `PROJECT.json` | citizens |
| Mix language, audio, codecs, compositor, shell, front ends | — | computation, device I/O, user interface | not candidates |

What is hard to test, and so what the properties are about:

* decisions taken in one lock region and carried out in a later one (prune, insert,
  topic drop, route removal, tap removal);
* two connections under one name: a restarted citizen against its predecessor's
  late teardown, aliases, handed-over names;
* a publish racing a subscribe (both could miss the value), and a publish racing
  another publisher's departure;
* several tasks that may each answer the same request;
* timers of superseded trailing emits; snapshots applied in another order than they
  were taken;
* fair read/write locks, whose waiting writers block later readers;
* things nothing but the janitor ever cleans up;
* a crash or a power loss between any two steps of writing the recovery files, and a
  write that fails in the middle;
* two computations of the same thing by different routes: the mirror's fold and the
  server's rebase, undo and what the other lanes did since;
* a request that timed out and may still be served, an event lost together with the
  notice that it was.

`PROJECT.json` lists each of these at its line, with the properties that cover it.

## Modules

| module | models |
|---|---|
| `TopicBroker` | the subscription broker and the part of the connection handler that drives it |
| `TopicBrokerProofs` | theorems about it |
| `NodeRouting` | registry, routing, reply correlation, taps, cleanup, reload teardown |
| `ReplyPromise` | abstract: what a caller is promised about each request; `NodeRouting` implements it |
| `NodeRoutingProofs` | theorems about it, the refinement among them |
| `ChangeBus` | props.changed events, trailing emits, world.noded and its drainer |
| `ChangeBusProofs` | theorems about it |
| `BrokerLocks` | the locks of all three and the order operations take them in |
| `BrokerLocksProofs` | theorems about it |
| `EditRecovery` | recovery files of one document: the actor's side, the writer, flush, crash and restore |
| `EditRecoveryProofs` | theorems about it: types, whole snapshots, restored history, no stale Append, and that what was made durable stays so |
| `EditOT` | operational transformation (`ot.rs`) as operators |
| `EditFold` | a mirror and the server crossing transactions, over real texts |
| `EditFoldProofs` | theorems about it: the view, agreement of fold and rebase, disjointness, nothing typed lost |
| `EditUndo` | undo and redo per lane, coalescing, retention, reload from disk |
| `EditUndoProofs` | the theorem about what the stacks refer to |
| `EditMirror` | a mirror, the serving actor with its reply cache, and the publisher, with losses and timeouts |
| `EditMirrorProofs` | theorems about its reply cache and its view |
| `EditFate` | abstract: what a user is promised about each edit; `EditMirror` implements it |
| `MC*` | instances for TLC |

`TopicBroker`, `NodeRouting` and `ChangeBus` take one lock region as one atomic
step; `BrokerLocks` discharges what that leaves out, that the regions nest without
deadlock and that every operation gets through them. A task's place between two regions is
`pc[p]`, what it carries from one to the next `loc[p]`. A connection stands for its
outbound channel: `same_channel` is equality, `is_closed` is that the writer is gone.
A connection is never reused, a reconnect is another element of `Conn`.

### TopicBroker

State: `subs` and `byPeer` are the two tables of `BrokerInner`, `topics` the topic
table, `registry`, `service`, `link` and `open` what the connection handler keeps.
A publication is its index in the history `pubs`; the snapshot cache and the replay
refer to it by that index, so the body, its headers and their encoding are not there, only the topic, the
namespace, the sequence number and the publisher. `stale_since` has the three values
the code tells apart: unset, set, older than the TTL. `outcome` and `told` record
deliveries for the properties; a delivery is a `try_send` on an open channel, so
that a full channel's drop counts as offered. A delete notice goes to the live
subscriptions its namespace and their filter let through. Dispatch of notices, the
teardown of a connection and the janitor are sequences of their own, ending in the same
steps as in the code. Connections in `Native` publish with the principal of a native
session. After such a publication has been cached, `FanOut` may break off at any
recipient, as when the session is found ended, or skip any of them, as when the delivery
check refuses; which is a free choice, and the recipients not reached are recorded as
withheld. A publish that is refused before it takes `topics` changes nothing.

### NodeRouting

Registration with its refusal, refresh and alias cases, deregistration and its
acknowledgement, `route_local` (look up, enter the pending table, re-validate and
enqueue, and the two ways of taking an entry back), responses under any id, taps
with removal by position, the cleanup of a connection, and the reload that drains
and closes revoked sessions. Whether an open channel is full, and whether a
native session refuses a delivery, is a free choice. A `Vec::remove` past the end is
the label `panicked`: the task is gone and its cleanup does not run. Not in it: forwarding over the mesh
and the admission handshake; the set of sessions a reload revokes is an input.

`ReplyPromise` has per request a stage (new, accepted, waiting, settled), the connection it was
forwarded to and what came back. The mapping `Stage` looks for the request with the tasks that
route it, in the pending table, and with the tasks that have taken an entry out. More than
`ReplyOnce`, it says when a reply may come: the error of a failed delivery must not be sent once
a reload has drained the entry, even if it would be the first reply.

### ChangeBus

One leaf of the snapshot; `observe` and `fire_trailer` hold their mutexes across
the publish and are one step each, `publish_world` and `drain_pending` do not and
are two. Time is abstracted to "the cap interval of the last event is over or not":
a timer armed within an interval is due at its end and may then run arbitrarily
late, after newer events and newer timers. The uptime leaf, which makes no event but
makes snapshots differ, is a free choice in `Observe`.

### BrokerLocks

An operation is the sequence of locks it takes and frees. tokio's locks are
external: first come, first served, a reader queues behind a waiting writer. Parts an operation may
skip are kept; each begins and ends with the same guards.

### EditRecovery

`rec`, `sig` and `queue` are `RecState`, `RecSignal` and the queue between actor and
writer, `wr` the writer's generation and its place inside a Switch or Discard, `failed`
its mark. Every file-system call of `try_switch`, `append` and `discard` is a step, and
each may fail. A text is the sequence of edits it contains. The text an `append` message
carries is history, for the properties; the writer uses its revision and its edit only. The directory exists twice:
`vol` is what a process sees, `dur` what is surely on disk. A crash of the daemon keeps
`vol`, and what restore then reads counts as on disk; after a power loss each name may
show either state and a log any prefix past its synced length. `kept` and `safe` are
what the writer reported protected and what a flush promised, and are given up where
the user gives it up (reload, close, a save over a changed file).
One document; `save-as` and the file watcher are not in it.

### EditOT and EditFold

`EditOT` defines what `ot.rs` computes on ranges and transactions. In `EditFold` a client types
transactions of any number of items and another client's transactions arrive in between:
`Local`, `Send`, `FoldRemote`, `Echo`, `ReplyRefused` are the mirror's functions,
`Serve` and `Remote` the server's resolve and commit. A character is who typed it, in which
transaction, in which of its items and at which place of the insertion, so a
text says who wrote what; `Widths` is how many characters an item may insert. The items of a
transaction are listed in ascending order, as all callers build them; `Canonical` is the one
order that `canonical_cmp` allows.

### EditUndo

`AddMember`, `Exclude`, `Reduce` and `ComposeInverse` are the steps in which the code
builds the inverse of a group of revisions in the present text; `CommitTxn` records
it, moves the stacks, coalesces and trims the log. Whether a request asks
to be coalesced with the edit before it is a free choice; reload keeps the common
prefix and suffix as one edit of the lane `disk`.

### EditMirror and EditFate

Texts are sets here: which other clients' revisions and which own operations a view
contains. Whether a remote change overlaps a pending operation is a free choice
(`Hit`); that folding and rebasing agree on it is `EditFold`'s subject. The slot in
flight has the code's states, the queue is behind it, `m.reads` are the history and
snapshot reads under way. The daemon's side is the log with its retention, the reply
cache, the publisher's queue, the resync it owes and the event sequence in whose gaps a
loss shows. An entry may exceed two limits,
that of an event's frame (`big`) and the smaller one of what a history shows in full
(`elided`). A request whose deadline passes may still be served
(`ServeLate`). The requests of other clients carry an op id, so that their replies take
a place in the cache, and may be sent again (`RemoteAgain`); so do saves, selections,
cursors and anchors, which commit nothing (`Aside`). The driver of the desktop application
(`src/src/desktop/apps/ced/src/controller.rs`) delivers events and replies, runs the
timers and reports reconnects. A read past its deadline is asked again. A read may be
refused (`ReadRefused`): a recovery by history then goes on by snapshot, a reconciliation
counts as one with a trimmed log, an expired snapshot is read from its beginning.
A history is read in one page. Refusals that end the mirror's attachment (the buffer is
gone, its epoch is another, a page is refused for another reason) are left out. An rc 0 reply to an edit
or an undo always carries the rev it made, also when the router truncates it, so
`ReplyOk` has no branch for one that does not; nor has it those for save and
reload. Server operations (undo, redo) are one kind, undo.
`EditFate` has one variable per operation, new, pending, shown or handed back, and the
set the daemon committed; the mapping is `Fate`. Not in it: the document being replaced
by another (a new epoch), the first load, save, reload and keep-mine, cursors.

## Runs

Passing runs (up to three connections, one topic, two names, two namespaces where
the case needs them; two to three tasks):

| run | shows |
|---|---|
| `topic_tables` | in two plans (a publisher, a subscriber whose writer dies and its successor under the same name; two publishers, one handing its name to the other, and a subscriber), one of the publishers a native session whose fan-out may fail: `IndexConsistent`, `NoLostUpdate`, `RepublishFreshens`, `LiveSubscriptionKept` |
| `topic_grants` | with granted namespace slices of a private topic: `FilterIsolation`, of live deliveries, replays and delete notices |
| `topic_janitor` | `DeadSubscriptionsReaped`, `OrphansReclaimed`, under fairness |
| `routing_local` | in three casts (equal request ids and a responder that answers twice, late or unasked; names handed over during routing; one tap list pruned by two tasks, up to the panic): `ReplyOnce`, `AnswerCorrelated`, `NoOrphanName`, `NameKept`, `NoDeliveryAfterDeregister` |
| `routing_reload` | `PendingHasCaller`, the refinement `PromiseKept`, and `RevokedLeaves` under fairness |
| `props_events` | `BurstCovered`, `ChainUnbroken`, `CapRespected`, and `WatchersCatchUp` under fairness |
| `locks` | `LockOrder`, `NoCircularWait`, no deadlock, and `EveryOperationEnds` under fairness |
| `edit_recovery` | in five plans (a failing writer; saves and reloads with failing sync or discard; a second crash during restore): `NeverMalformed`, `RestoresAPast`, `DurableSurvives`, `FlushHonest`, `QuietProtected`, `NoStaleAppend`, and `FlushAnswered` under fairness |
| `edit_fold` | in five plans: `ViewIsServerPlusPending`, `FoldAgreesWithRebase`, `PendingDisjoint`, `NothingTypedIsLost` |
| `edit_undo` | in five plans, one lane or two: `UndoIsExact`, `LinearUndo`, and that the stacks refer to retained revisions (`TypeOK`) |
| `edit_mirror` | in thirteen plans (uncertain edits and undos, a trimmed log, lost frames and resyncs, an evicted reply, a reply asked for again, places of the cache taken by requests that commit nothing, refusals, retries and reconnects, refused reads): `ViewExact`, `TwiceOnlyIfEvicted`, the refinement `FateKept`, and `ComesToRest`, under fairness |

Bounds. `Budget` is a set of plans, one of which is chosen at the start: how often each
connection issues, or suffers, each verb. `Ticks` says whether the janitor runs.
`Cast` is the same for `NodeRouting`: who calls with which ids, who registers which
names, whose writer may fail, who taps, whom a reload may revoke. `MaxTaps` bounds the
tap list, `MaxChanges` the changes of the property. They are enough because each
hazard needs two actors on one object and at most a third that replaces one of them: a
publisher, a subscriber and its successor; two callers and a responder; a change, its
reversal, and the same again after a late timer. The deadlock the lock order avoids
needs three tasks. `locks` runs five of the programs, which between them nest
every pair of broker, registry and session locks that is ever nested, and two mutexes
of the change bus over them; `BrokerLocks_order.cfg` checks `LockOrder` for all thirteen
with two tasks, which are interchangeable there, so symmetry is used.

The plans of the editor modules (`Plans`) say how many edits, saves, faults, crashes, remote changes, losses and
deadlines a scenario has, because all of them together are out of reach and each hazard
needs two or three. `QueueCap` and `CompactAt` are one, so that an overflow and a
compaction happen with three edits. Texts of two or three characters with transactions of two items have
every relative position of two changes: before, touching, inside, over, equal. `LogMax` is
five revisions in `EditUndo` and `retain` one in `EditMirror`, so that
groups and requests fall out of the log. `edit_undo` treats the two
lanes as interchangeable (no temporal property is checked there).
A writer's failure and a save are not combined in `edit_recovery`: what they do together is the third
counterexample below.

Deadlock is checked for `BrokerLocks`, whose tasks can always begin another operation. The other runs
switch it off: clients owe nothing and budgets run out, so a state in which everybody is done
is a proper end.

Fairness. Weak fairness of the steps with which a task goes on once it has begun (the tokio runtime
polls a task that is ready), of the janitor and the drainer (their `interval`
ticks for ever) and of time itself. Never of a client: nothing is assumed to be
published, answered, closed or changed. In `BrokerLocks` weak fairness is enough
because the locks queue. In `EditRecovery` the writer thread and the actor go on; nobody has
to edit, save or flush, and failures are bounded by the plan. In `EditMirror` the
daemon serves and publishes, frames on an open connection arrive, replies arrive or their deadline
passes, timers fire. Losses, refusals and other clients are never obliged to
happen or to stop other than by their number.

The type invariants of `TopicBroker`, `NodeRouting`, `ChangeBus`, `BrokerLocks`, `EditRecovery`, `EditFold` and
`EditMirror` are not listed among the runs' properties: they are proved.

## What the code does not do

Each of these configurations states a sentence of the repository and ends in a
counterexample; `PROJECT.json` quotes each sentence with its place. The first is a run,
the others are kept as configurations of their MC modules.

| configuration | counterexample |
|---|---|
| `EditMirror_v_stale` (run `edit_mirror_stale`) | the deadline of a doomed edit passes while the reconciliation of an earlier edit, resolved by its echo, is open: none is started, the late answer is ignored, and the mirror sends nothing any more |
| `EditMirror_v_copy` | a second edit of unknown fate is dropped with the view because a detached copy of the first is still held |
| `EditRecovery_v_flush` | a Switch fails, the document is saved and edited again; the save's discard clears the failure and a flush answers `synced` while the text is in no file |
| `EditUndo_v_order` | from "12", a deletes "2", b deletes "1", a undoes, b undoes: the text is "21" |
| `TopicBroker_v_dropped` | unsubscribe counted no subscriber, another connection subscribes, the topic state is dropped and the sequence starts again |
| `TopicBroker_v_active` | the janitor drops the topic state between the last unsubscribe and its notice; topic.idle is never sent |
| `NodeRouting_v_tap` | two broadcasts remove the same position; the second hits a live tap |
| `ChangeBus_v_retained` | a direct publish leaves an older stash, which the drainer publishes over it |

Further behaviours of the models that a reader of the code may not expect, for which no
run is kept:

* A retained snapshot by Y, then a non-retaining publish by X: when X leaves, Y's
  snapshot is marked stale though Y is connected; when Y leaves instead, it is never
  marked (`remove_peer` looks at the last publisher only).
* A subscribe under a name that another, still open, connection used before finds that
  connection's subscription and binds nothing.
* A subscribe that looked before its successor subscribed replaces the successor's live
  entry: the insert does not look again.
* A connection that subscribed before it registered leaves subscriptions behind its
  cleanup, for a publish or the janitor to remove.
* Two handlers may collect property snapshots in one order and observe them in the
  other: the older one becomes the cached value and the last event.
* Restore sweeps older generations, and discards the files of a document that is clean,
  by what it reads; if the daemon crashed, nothing of that need be on disk yet, and a
  power loss soon after can take both generations.
* Two pure insertions listed in descending order, whose offsets a remote deletion
  collapses into one, come out in one order on the server and the other in the mirror.
  Every caller lists its items ascending.
* The answer to an old reconciliation read may be taken for a newer one's; that a resend
  then does no harm rests on the reply cache alone.

## Proofs

All theorems hold for any sets of connections, names, topics, tasks and values and any
bounds, under the named assumptions of the modules: identifiers of different kinds are
different (`None` is no connection and no request), owners are services, budgets and
plans are numbers, the texts of `EditFold`'s plans are made of characters, the reply cache
of `EditMirror` has room for one reply and its plans give kinds to operations only, the log of
`EditUndo` retains one entry at least, the
operations of `BrokerLocks` are among its programs. They are theorems of `Spec`, without
fairness, and so of the fair specifications too. None of the invariants is inductive as
it stands; what each one needs is below.

* `TopicBrokerProofs!TypeCorrect`. The types alone are not inductive: a step reads
  locals an earlier step of the same task set. `LocalsOK` says which are set at which
  label (and that a replay about to be sent matches the filter), `SnapshotsOK` and
  `OutcomesOK` that snapshots and deliveries are accepted publications of the topic, and
  that only a native session's publication is withheld.
* `TopicBrokerProofs!IndexAgrees`, from one lemma that classifies the steps that touch
  `inner`.
* `TopicBrokerProofs!LiveKept`. That a teardown, which works through `by_peer`, only
  takes entries of its own peer needs `IndexConsistent`.
* `TopicBrokerProofs!Freshens`, from a classification of the steps that touch `topics`.
* `TopicBrokerProofs!FiltersHold`, from `LocalsOK`: the filter was checked when the
  snapshot, or the recipient of a delete notice, was chosen.
* `TopicBrokerProofs!NothingLost`: the cached snapshot was offered to every live matching
  subscription, or a task owes it the offer, or it was withheld by the fan-out of its own
  native publisher. Without the last case the statement is false of the code: a session
  that ends during its own publish leaves a retained value that part of the subscribers
  never see. The strengthening is that only channels of
  connections that have begun occur in subscriptions and tasks, so that no subscription
  comes alive by a connection opening; then every step that adds a subscription or a
  snapshot leaves a task that owes the offer, and a task gives up its debt only by
  paying it.
* `ChangeBusProofs!TypeCorrect`, `BurstsCovered`, `EventsChain`, `CapHolds`. The
  invariant is `BurstCovered` with `TimerAfterCap`: the timer of the *pending* trailing
  emit is due only when the interval is over. Late timers of superseded emits may be due
  within an interval; their generation no longer matches.
* `NodeRoutingProofs!TypeCorrect`, with `LocalsOK` as above and an enumeration of the
  positions of the tap list a broadcast still visits.
* `NodeRoutingProofs!RepliesOnce`, from `ClaimInv`: the right to answer a request is in
  one place, with the task that routes it, in the pending table, with one task that has
  taken the entry out, or used up. A response, the two ways `route_local` takes its
  entry back, and a teardown all contend for the entry, and taking it is one step under
  the table's lock.
* `NodeRoutingProofs!AnswersCorrelate`, from `AnswerInv`: an entry names the responder
  the request went to, a broker id in an inbox is never given to another request, and so
  only the addressee's answer to this request can take the entry, though callers use
  equal ids.
* `NodeRoutingProofs!KeepsPromise`, the refinement of `ReplyPromise`, from `ClaimInv` and `AnswerInv`. A
  request is in one place (`StageIs`), so each step moves at most one request on, or takes entries
  from the table, which abandons their requests; taking an entry out to answer it is a stutter.
* `NodeRoutingProofs!CallersDrained`: the entries of a connection that has been cleaned
  up are gone, and no routing task of its enters another.
* `NodeRoutingProofs!NoNameOrphaned`, `NamesKept`, `DeregisteredUnreached`, from
  `NameInv`: a bound name is the one its connection's handler holds, or the one a
  deregistration has taken and is about to unbind; a route is dropped only when its
  target has closed; what has been deregistered is bound by nobody.
* `BrokerLocksProofs!TypeCorrect`, `OrderKept` and `NeverCircular`. The thirteen
  programs are shown to nest their guards in one order of the nine locks and to free
  what they took (`ProgramsOrdered`, by composing blocks). The invariant is that what a
  task holds its program still frees, and takes nothing below before, that guards do not
  conflict, and that a waiter's next step is the one it waits for. On a circle of waits
  the task that waits for the lowest lock waits for one that holds it and waits higher,
  so the circle does not close; that a reader may be blocked by a writer that only waits
  is in the order of the queue. `OrderKept`
  is the order as the comment at `SubscriptionBroker` words it, at every request for a
  lock: it follows from what a task's program still frees.
* `EditRecoveryProofs!TypeCorrect`, `NeverQuarantined`, `RestoresHistory` and
  `NoStaleAppends`. The invariant `RecoveryInv` has these parts: the snapshot of every
  generation a meta names is there in both views of the directory; generations rise
  along the queue, above those of the files, and the buffer's is the last; every log
  continues its snapshot revision by revision and text by text, and each of these is a
  text the buffer had; an Append in the queue continues what precedes it there, or the
  log if nothing does, unless a failure stands between; the writer in the middle of a
  Switch or a Discard serves the head of the queue. With them a replay stops nowhere
  short of the log's end or the tear, and what it gives is in the history.
* `EditRecoveryProofs!DurableKept`, with `RecoveryInv` at hand. The invariant
  `DurableInv` has at its centre `Holds`: what is kept is in every text the recovery
  files may give back and no Discard is queued, or it is in every document the disk may
  show. Going over from the one to the other, when a durable save queues a Discard,
  needs `Growing`: from the log through the FIFO to the buffer texts only grow between
  two Discards, so the save has written all the files hold. That a later save or a
  restore does not lose it from the document needs `Based`: a buffer, a Switch or a
  snapshot with the version of a document as its base contains that document.
  `LogsBacked` and `Settled` say that a log, like a snapshot, is in both views of the
  directory, and that the meta on disk names the writer's generation as soon as its log
  has a record; `Cleared`, that a buffer without recovery files has a Discard behind all
  there is.
* `EditFoldProofs!FoldTypeOK`, `View`, `Agreement`, `Disjoint` and `NothingLost`, for
  texts, transactions and insertions of any length. The heart is a diamond: a transaction
  applies its items from right to left (`Descent`), so a remote step crosses it item by
  item, and "the step, then the moved items" and "the items, then the moved step" give one
  text (`Cross`). From one step and one transaction it is carried to a stack of pending
  transactions (`AcrossLemma`) and to all steps of an entry (`FoldLemma`). The mirror folds an
  entry through everything pending, the server rebases one request over everything since;
  the invariant `World` ties the two: the first pending transaction is the request in flight
  as the server's rebase over the entries the mirror has folded gives it, and it has been
  reverted exactly if that rebase is refused. It follows that the two decide alike though
  neither ever tells the other the result of a transform.
* `EditUndoProofs!UndoReach`, for any retention. The invariant adds to the statement only that the stacks
  hold groups and the log and the history of texts are sequences; what there is to prove is that
  a commit, which extends, adds or moves a group of one lane and may trim the log, leaves on no lane's
  stack a group the trimmed log no longer covers, and that a coalesced group stays one lane's.
* `EditMirrorProofs!AtMostOnceWhileCached`. The invariant `CacheInv` says that every
  reply in the cache is that of a commit or of a request that committed nothing, that no
  request has two, and that the cache is
  full once it lacks the reply of an operation that was committed (`CacheFull`): it
  never shrinks, and it drops a reply only when it is full. So the replies it holds when
  a forgotten operation is committed again are those of as many other requests. That
  they were all *committed* in between, as one would like to say, is not true: a late
  duplicate of an older request makes its reply recent again, and the next commit drops
  the younger one. The plan `Refreshes` has this case.
* `EditMirrorProofs!ViewIsExact` and `MirrorTypeOK`, with no restriction on what is lost, late,
  repeated, evicted or trimmed. Besides the cache, `MirrorInv` says
  that the revs the mirror and the publisher know of are revs of the log (`Within`), that
  operations are sent in the order they were asked for and what is unsent the daemon does not know (`InOrder`,
  `UnsentOK`), which of the requests, retries and reconciliations of the slot may be open
  together (`RequestOK`, `PagedOK`), that an edit in flight and in the view is not committed up to
  the mirror's rev (`SlotOK`), and that the view is the text at the rev with what is pending
  (`ViewOK`). What carries it is `HitsOK`: an edit that an entry overlaps was not committed
  before that entry, and after it only if it was sent on top of it. So an edit the fold has doomed is never found
  committed (`DoomedUncommitted`), and what was replied to is never overlapped by a later fold
  (`HitIs`): the code's branches for these two cases are never taken. A page of history and
  a run of held events are folded entry by entry, by induction over the position.

The library's induction theorems take a predicate as a parameter, which the provers cannot
instantiate. Where a fold or a sequence of any length is concerned, the proofs therefore form the set of
the numbers, or of the sequences, for which a statement holds, and show with the
well-foundedness of `<` that it is all of them.

Only model-checked:

* everything under fairness (`DeadSubscriptionsReaped`, `OrphansReclaimed`,
  `RevokedLeaves`, `WatchersCatchUp`, `EveryOperationEnds`, `FlushAnswered`,
  `ComesToRest`) and the refinement `FateKept`, which has a liveness part: the prover
  has no rules for liveness or ENABLED. The safety part of `FateKept` does not hold for every plan: with two edits
  of unknown fate one is lost, which is the counterexample of `EditMirror_v_copy`;
* `EditRecovery!FlushHonest` and `QuietProtected`. They hold in the scenarios of the run
  and not in all: after a failed Switch a discard clears the failure, which is the
  counterexample of `EditRecovery_v_flush`. So there is no theorem to prove;
* `EditUndo!UndoIsExact` and `LinearUndo`. A proof for every log needs a theory of composed
  inverses: that members merge in reading order, that leaving out a pair of
  undo and redo moves everything after it to where it would have been, and that this may
  be repeated. `EditFoldProofs` has the diamond for transactions as clients build them, in
  ascending order and freshly typed; an inverse puts back old characters, several of them at one offset.

## Not modelled

Native sessions, admission and authority are seen from the models only as free
choices. Forwarding over the mesh is left out. Of the editor: the file watcher and
save-as, more than one document, a mirror's bootstrap, its detachment, a history of
several pages, saving and reloading from it, cursors and search. Wire formats, logging, metrics and property
descriptions are data without control. The other daemons are listed in
`PROJECT.json` with the reason or the plan.

## Plan

1. `TopicBroker` with proofs, `NodeRouting` refining `ReplyPromise`, `ChangeBus` with proofs, `BrokerLocks`: done.
   `EditRecovery`, `EditOT` with `EditFold` and `EditUndo`, `EditMirror` refining
   `EditFate`: done.
2. `Sessions`: leases, attach and resume, revocation, the delivery fence; composed
   with `NodeRouting` in place of its free refusals.
3. `SupervisedClient`: reconnect, re-register, resubscribe, timeouts and late replies;
   composed with the promises of `NodeRouting`.
4. `MeshPeer`: generations, retirement by reload, fail-fast of requests in flight;
   admission and the keep-last-good reload of the authority.
5. An abstract latest-value channel (a subscriber eventually holds the last retained
   value or a later one) that `TopicBroker` implements.
6. `PropsStore` (commit, hook and publish order, crash in between), the interaction
   dialog's life, resumable blob uploads, the container daemon's reconciliation, the mail retry queue.
7. Theorems. Done: the types and safety invariants of `TopicBroker`, `ChangeBus`,
   `NodeRouting` and `BrokerLocks`; that `NodeRouting` implements `ReplyPromise`; of `EditRecovery`, what restore brings back and
   that what was made durable survives; of `EditFold`, convergence and the agreement of
   fold and rebase; of `EditUndo`, the reach of its stacks; of `EditMirror`, the cache of replies and the view.
   Left: that undo is exact and, with one lane, linear; the safety part of
   `EditFate` for plans with one edit of unknown fate; the refinement of step 5.
