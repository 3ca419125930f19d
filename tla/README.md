# Verification of the hermit-moq relay

TLA+ models of the state machines of this repository: a Media-over-QUIC relay
(`src/relay`, a Rust workspace) that runs as a unikernel (`src/hermit-rs`).
Each module translates the source it names; `PROJECT.json` maps every
definition to its lines.

## The system

| part | source | what it does | state in this project |
|---|---|---|---|
| kio | `relay/rs/kio` | the shared-state channel under everything else: a value behind a mutex, counted Producer and Consumer handles, Weak handles, three lists of weak wakers | modelled, checked, proved |
| origin | `moq-net/src/model/origin.rs` | the announce tree: broadcasts published under paths, the best of several routes active, consumers told of changes through a coalescing queue, on-demand requests | tree, consumers and requests modelled, checked, proved |
| broadcast | `moq-net/src/model/broadcast.rs` | tracks by name, on-demand track requests, their cleanup | modelled with the tasks that serve it, checked, proved |
| track | `moq-net/src/model/track.rs` | the cache of a track's groups, eviction, the end of a track, three ways to read | modelled, checked, proved |
| group, frame | `moq-net/src/model/{group,frame}.rs` | frames within a group, chunks within a frame | modelled with their writer and readers, checked, proved |
| priority | `moq-net/src/lite/priority.rs` | ranks streams into 255 levels with an overflow queue | not modelled |
| session | `moq-net/src/lite`, `moq-net/src/ietf` | announce and subscribe streams between two peers, in two wire formats | the tasks of lite that touch a broadcast or a group are in those modules; the streams are not modelled |
| cluster | `moq-relay/src/cluster.rs` | which peers to dial: discovery, an API's list and static configuration share one dial map; reconnect with backoff | modelled, checked, proved |
| kernel | `hermit-rs/kernel/src/{executor,fd/socket}` | `block_on`, the network task and its wakers, UDP sockets | not modelled |
| the rest | authentication, coding, statistics, transports, media tools, vendored crates | data transformation, I/O and external code | not modelled (reasons in `PROJECT.json`) |

How they interact: a session reads announcements from an `OriginConsumer` and
publishes what its peer announces through an `OriginProducer`; a broadcast found
there hands out tracks, a track groups, a group frames.  Every arrow is a kio
channel, so each wait in the relay is one of the four waits of the module `Kio`.
The cluster starts the sessions, the kernel runs the tasks.

## Modules

### Kio, KioChannel, KioProofs (kio)

`Kio` has one variable per field of `State` (`value`, `closed`, the three waiter
lists) and of `Counts`, and per process the handles it owns (`prod`, `cons`),
the call it is in the middle of (`pc`), the wait it is in (`want`), how its last
wait ended (`result`) and the drained wakers it has still to call (`batch`).

One action is one critical section of the mutex or one atomic operation on a
counter, so everything the code does outside the mutex interleaves: a drop that
has counted itself out but not closed yet, an upgrade that has counted itself in
but not looked at the flag, a consumer that has left but not drained the list,
wakers called after the lock is released, the unlocked first read of
`Weak::poll_unused`.

| code | actions |
|---|---|
| `Mut`, `Producer::write`, `close` | `Write`, `Close` |
| `Producer::clone`, `drop` | `CloneProducer`, `DropProducer`, `DropClose` |
| `Weak::produce`, `Consumer::produce` | `Produce`, `ProduceCheck` |
| `Producer::consume`, `Weak::consume`, `Consumer::clone`, `drop` | `Consume`, `CloneConsumer`, `DropConsumer`, `TakeConsumerWaiters` |
| `poll`, `wait`, `closed`, `used`, `unused` | `StartWait`, `Poll...`, `Cancel` |
| `WaiterList::wake` | `Wake`, `WakeDone` |

Abstractions: a list entry whose weak reference is dead is skipped by `wake` and
recycled by `register`, so here it leaves the list when it dies; atomics are
sequentially consistent (the code uses Relaxed loads of the counters, but every
decision to sleep rereads under the mutex that the other side takes after
changing the counter); a process has at most one handle of each kind, more
processes stand for more handles.

`KioChannel` is what the channel promises, with no mutex, waker or list: a wait
ends with an answer that is right at that moment, and a wait whose answer stays
right does end.  `Kio` implements it with the identity mapping.

### Origin, Coalesce, OriginProofs, OriginViewProofs (origin)

`Coalesce` holds the functions of `OriginConsumerState`: one pending update per
path, what an announce or unannounce makes of it, and what `take` hands out.

`Origin` is the tree of `OriginNode`s, the root and one level of named nodes,
each behind a lock of its own.  Node identities are explicit because a scoped
handle keeps a reference to its node, also after the root has dropped it.  A
handle that starts at the root holds the root's lock on the way down
(`RootFree`), a scoped handle does not.  `Publish` is all of
`publish_broadcast`, the cleanup task it spawns included (`tasks`, `Cleanup`);
`Select` and `Join` are the two critical sections of a scoped consumer;
`JoinRoot`, `Visit` and `Joined` are a root consumer's walk over the children,
each under its own lock.  `seen` is the history of what a consumer has taken.
The constant `Layouts` says which handles exist, so that each run states under
which use of the interface its properties hold.

### Requests, RequestsProofs (origin, on demand)

`OriginDynamicState` is `requests`, `order` and `dynamic`; `live` are the
`OriginDynamic` handles, `leaving` those whose `drop` has run but whose
`kio::Producer` field has not been dropped yet, `owner` says that an
`OriginProducer` is left.  A `BroadcastRequest` in a handler's hands is a member
of `taken` and outlives the handler.  `Request` is `request_broadcast` after the
lookup of announced paths, with its four ends: origin gone, coalesced, refused,
queued.  `NewHandler` is `new` and `clone`, `DropHandler` and `ReleaseHandler`
the two parts of the drop, `RequestedBroadcast` the pick-up, `Serve` accept,
reject or a silent drop, `Answer` the requester's `poll_ok`.  A result channel's
identity is reused once nobody refers to it.  `accept` writes the value and then
drops the producer; `poll_ok` looks at the value first, so the two are one step.

### Track, TrackProofs (track)

`groups`, `duplicates`, `offset`, `max`, `final` and `aborted` are the fields of
`State`, `closed` and `count` the channel's flag and producer count.  A group is
its sequence, its time of arrival and how far its first frame is (`Fill`), which
is what `read_frame` asks of it.  `EvictExpired` is part of every action that
adds a group, as in the code.  The drop of a `TrackProducer` is `DropCheck` (is
it the last?), `DropClear`, `DropCount`, `DropClose`, each a step of its own;
`Watch`, `WatchDone` and `WatchClose` are `TrackDemand::closed`, its upgrade
taken in one step (the steps of an upgrade are in `Kio`).  A reader has a kind
(`mode`), the fields `index`, `least` and `next`, and the history `got`; it
stops after its first end or error.

### Broadcast, BroadcastProofs (broadcast, lite subscriber)

`tracks`, `requests` and `dynamic` are the fields of `State`, `closed` the
channel's flag.  The actors are those of a session that serves a broadcast on
demand: the announce loop that owns the `BroadcastProducer` (`Owner`),
`run_broadcast` (`RequestedTrack`, `SpawnSubscribe`, `StopServing`), one
`run_subscribe` per popped track, each with a clone of the `BroadcastDynamic`
(`dyn`; `Unused`, `AbortTrack`, `Upstream`), the subscribers in
`subscribe_track`, and the cleanup task `subscribe_track` spawns (`cleanup`).
Every lock of the channel is one action, so what is read before a lock and used
after it interleaves: `is_last` (`OwnerReadsLast`, `ReadLast`), the cleanup
task's `unused`, the temporary producer of an upgrade.  `Holders` are the tasks
that hold a kio producer; the last one closes the channel (`Release`).  A track
is a number and whether it is open.  When `run_subscribe` returns its handles
go (`DynamicGone`), then the entry in `subscribes` with its `TrackProducer`
(`RemoveEntry`); a `recv_group` that cloned that producer keeps the track open
until it ends ("receiving", `RecvGroup`).  `remove_track` takes any name.

### Frame, Group, GroupLog, GroupProofs (group, frame, lite session)

`Frame` has one frame's declared size, the count of bytes `written`, stored
outside the lock (`StoreWritten`), its channel's `fin`, `abort` and close, and
the readers asleep on it.  `Notify` is the second half of `advance_mut`: the
lock is taken, and readers are woken only if the state was modified.

`Group` is the deque of cached frames with `offset` and the byte counter `cache`.
The writer is the task that receives the group (`recv_group`, `run_group`,
`run_frame`): `wpc` is where it is, and it may fail, be cancelled or be dropped
at every await.  The second `GroupProducer` is the track cache's; the drop of
either is `DropChecks` (is it the last? then clear) and `DropEnds`.  Readers are
streams, which read by chunks as `serve_group` does (`GetFrame`, `ReadChunk`),
or call `read_frame` (`GetFrame`, `ReadAll`).  Bytes are told apart by position.

`GroupLog` is what a group promises, with no cache, lock or handle: frames of
declared sizes that fill up and are sealed, readers that take every frame whole
and in order and stop with a clean end only after the last frame of a sealed
log, with an error only from one that is not sealed, and with "full" only when
frames are left.  `Group` implements it under the mapping `Filled`, `Given`,
`Taken`: `next_frame` counts a frame when it hands out the consumer, `read_frame`
when it has the bytes, the log when the last byte was given.

### Cluster, ClusterProofs (relay cluster)

`dialed`, `sources` and `stale` are the `DialMap`; `running` counts the dial
tasks of a peer that have neither returned nor been aborted, so a leaked or
doubled task is visible; `backoff` and `session` are `run_remote`: a task dials,
has a session, a stable one after `stable_threshold`, and sleeps.  `Announce` and `Unannounce` are the
arms of `run_discovery`, `Sweep` its interval, `ApplyPeerList` all of
`apply_peer_list` with `reconcile_api`, `Progress` a peer that answers and a
session that lasts, `RunRemoteOnce` the end of a session or of an attempt at
one, `Redial` the end of the backoff.  The task of an address that is no URL
(`Invalid`) returns and leaves its entry behind (`RejectUrl`).  Each handler is one action: the relay's runtime is
`current_thread` (`moq-relay/src/main.rs:18`) and no handler awaits between its
first read of the map and its last write.  For the same reason the branch of
`insert` for a peer that is already there, which `Insert` has, is not taken:
every caller has just looked.  `listed` and `quiet` are histories.
An address is a host and a number of slashes, which is what `Path::new`
collapses and what `should_dial` and `canonicalize_peer_key` tell apart; the
constant `FullUrl` says how `--cluster-node` is spelled.

## Runs

| run | bounds | shows |
|---|---|---|
| `kio` | 2 processes, 2 values, fairness | exact counters, no wakeup lost, auto-close, nothing changes after close, closing ends every wait, `Kio` implements `KioChannel` with its liveness |
| `origin` | 2 paths, 4 broadcasts, 2 consumers, 4 layouts, fairness | best route active, announcements alternate, consumers end up knowing what a lookup finds, closed broadcasts disappear |
| `origin_double_publish` | 2 broadcasts, each published up to twice | violation: the assertion in `remove` fails |
| `origin_mixed_handles` | a scoped producer, a root consumer | violation: an announce is lost between snapshot and registration |
| `requests` | 2 paths, 2 requesters, 2 handlers, 3 result channels, fairness | map and order in step, no request lost, answers reach those who asked, everyone is answered |
| `track` | 2 producers, 1 reader of any of the 3 kinds, 1 watcher, sequences 0 to 2, 3 groups, fairness | the duplicate filter matches the cache, the latest group survives, readers get groups once, in order and without gaps, and end when the handles are gone |
| `track_demand` | as `track` | violation: a waiting `TrackDemand::closed` keeps the track open |
| `group` | 3 frames of up to 2 bytes, cache of 3 bytes or 2 frames, a stream and a whole-frame reader, fairness | the byte counter and the run of cached frames are exact, no reader sleeps through what is owed to it, every ended group lets its readers go, `Group` implements `GroupLog` |
| `broadcast` | 1 name, 1 subscriber that comes back, 2 tracks, 3 dynamic handles, fairness | exact handle count, no track without a task, what is queued or served leaves the lookup only by `remove_track`, NotFound only when nobody is left, every request popped or aborted |
| `cluster` | 4 relays, 1 of them static, 1 with an address that is no URL, `STALE_AFTER` 1 tick, `SWEEP_INTERVAL` 2 ticks, backoff up to 2, fairness | one dial task per wanted peer, true sources, grace period kept, a static peer is dialed again after every failure |
| `cluster_backoff` | 2 relays, 1 of them static, backoff up to 4 | violation: a session that lasted does not reset the backoff |
| `cluster_tiebreak` | 3 relays, `--cluster-node` a URL | violation: a relay is dialed that does not sort after this one |

Why the bounds are enough.  In `kio` two processes are
a sleeper and the author of the event, each in the middle of any call of its
own; with a third the liveness check is out of reach, and the safety properties
are proved for every number of processes.  A second value makes "the value I wait for" differ
from "some change".  In `origin`, the broadcasts give an active route with a better and
a worse one queued, keys that differ only in the hash, and a tie; two paths exercise the order
in which `take` empties the queue; two consumers at one node separate "told" from
"not told".  The layouts of the passing run do not mix scoped producers with
consumers of the whole tree, and publish a broadcast twice only alone: the two
violation runs show why.

In `requests` two paths make an order, two requesters coalesce on one path or
compete for two, the second handler is the clone that outlives the first, and
three channels allow a path to be queued again while an earlier request for it
is served.  In `track` a sequence of 2 stands for `u64::MAX`, so the arithmetic
at the top of the range happens; three groups are a tombstone in the middle, a
protected latest one and one that arrives out of order; two instants and an age
of 0 make a group expire.

In `group` three frames and a cache of two make evictions happen by count and
by size, also while a reader is in the frame that goes; two bytes make a partial
write; frames of size 0 are included.  In `broadcast` one subscriber that leaves
and comes back is enough for a second track of the same name while the first
one's cleanup task, `run_subscribe` and dynamic handle are still on their way;
the theorems hold for any number of names, subscribers and tracks.  The bound on
tracks does matter for `EveryRequestAnswered`: `requests` is popped from its
end, and nothing in the code stops an endless stream of newer requests from
holding up an older one.  In `cluster` the relays are this one, a static peer
and another, both announced by gossip and named by lists, and one that sorts
before this one, which only a list makes it dial and whose address is no URL; a
sweep falls before and after the grace period ends.  The tiebreak is decided
from two names, so three relays give one on either side.

Deadlock checking is off for `origin`, `track`, `group` and `broadcast`: once
all broadcasts are closed and cleaned up and all consumers are gone, the track
or the group is closed and read, or the tracks are used up and every task has
ended, the bounded system has nothing left to do.

Fairness.  `kio`: a call that has begun returns (`Finish`; kio never blocks
except on its mutex), and an executor polls a task whose waker has fired.
Nobody is obliged to begin anything, and a sleeping task need not be polled.
`origin`: setting up a consumer does not stop half-way, a spawned cleanup task
runs once its broadcast has closed, a consumer's owner keeps taking updates.
`track`: a drop that has begun ends, a watcher whose track has closed returns, a
reader keeps reading.  `requests`: some handler keeps taking requests while one
exists, a taken request is answered or dropped, a requester whose answer is
there is polled.  The first two are the contract of the interface: outside its
tests this repository has no owner of an `OriginDynamic`.
`group`: a reader that is awake is polled; nothing is assumed of the writer,
which waits for the network.  `broadcast`: `run_broadcast`, a drop that has
begun, a call of `subscribe_track` and, once the session or the broadcast is
over, `run_subscribe` go on; nothing is assumed of the owner, the upstream, the
session or how long subscribers stay.  `cluster`: the timer of a dial task that
sleeps fires; nothing is assumed of peers, gossip or lists, nor that a session
ends.

## Findings

* `origin_double_publish`: a duplicate publish adds no route but spawns a
  cleanup task; after a promotion the second task fails the assertion
  (`origin.rs:562`).
* `origin_mixed_handles`: `OriginNode::consume` snapshots and then registers,
  which is atomic only against producers that pass through the same node.
* `track_demand`: `TrackDemand::closed` (`track.rs:474`) waits for the close with
  an upgraded producer in hand, so the drop of the last `TrackProducer` neither
  closes the track nor releases its cache, although the handle is documented as
  "watch-only" (`track.rs:443`).
* `cluster_backoff`: `run_remote` resets its backoff only when
  `run_remote_once` returns `Ok` (`cluster.rs:844`), and `Session::closed`
  (`session.rs:80`) never does.  However long the sessions with a peer last,
  the delay before a redial only grows, up to its maximum; `BackoffOnlyGrows`
  proves that of every execution.
* `cluster_tiebreak`: with a URL for `--cluster-node` the registration path
  loses one of the two slashes (`path.rs:87`), every relay passes
  `should_dial`, this one included, and what is dialed is `https://https:/b/`.
  For bare host names the property holds (`TiebreakHolds`); `TiebreakLost`
  proves the failure for every relay when it is a URL.

Two comments of the code promise more than it does, without a run of their own.
`advance_mut` says that taking the lock wakes the waiters (`frame.rs:291`), but
kio notifies only when the state was dereferenced mutably
(`kio/src/producer.rs:312`): a reader that has caught up with a frame sleeps
until its last byte, which is why `NoSleeperLeftBehind` leaves out the bytes of
an unfinished frame.  `Weak::produce` increments the count first "to prevent the
last Producer::drop from closing the state" (`kio/src/weak.rs:27`), but a drop
that has already decremented does not look again, so the upgrade may return a
Producer of a channel that then closes; this takes two threads.

Races that the models contain but no property forbids, because the relay's
single-threaded runtime never switches between the two statements: a cleanup
task that has seen its track unused removes the entry after a subscriber came
back (`broadcast.rs:426`), so that the next subscriber gets a second producer
although `subscribe_track` "reuses an existing producer" (`broadcast.rs:390`);
producers that drop together each find another one and none clears the lookup
(`broadcast.rs:203`) or the cache (`group.rs:276`, `track.rs:418`).  In the last
case an unfinished frame stays open in the deque and its reader is not woken,
which is why `EveryReaderEnds` speaks of groups that are finished, aborted or
cleared.

## Proofs

`KioProofs` proves for every finite set of processes and every set of values,
from `ProcsAssumption` and `ValuesAssumption` alone:
`TypeCorrect`, `CountsAreExact`, `SleepersAreListed`, `NoWakeupIsLost`,
`ChannelAutoCloses`, `ClosedForGood` and `ChannelImplemented` (the safety part
of the refinement).

The inductive invariant `Inv` adds to the checked invariants: `Ranges`, the
types; `Shape`, which ties a process's label to its wait, keeps every process in
at most the list of its kind, and says that only sleepers are in lists and
batches and only a waking process has a batch.  Without `Shape` a drained waker
could belong to a process that is not asleep, and "in the list of its kind"
would not survive a re-poll.  `NoLostWakeup` is inductive with the excuse "the
author has still to drain" limited to waits on the consumer count: a count
changes outside the mutex, a value and the flag never do.  One lemma per conjunct
(`RangesStep`, `ShapeStep`, `CountsStep`, `AutoCloseStep`, `NoLostWakeupStep`),
one step per action in each; `PollCases` reduces the seven polls to the four things
a poll can come to.

`RequestsProofs` proves for any paths, requesters and channels and any finite
set of handlers, from `HandlersAssumption` and `NoneAssumption`: `TypeCorrect`,
`MapAndOrderInSync`, `NothingQueuedUnserved`, `QueueLosesNothing`,
`FailsFastUnservedOnly` and `AnswersAreApart`.  The code decides by the count
`dynamic`, the properties speak of handlers, so the inductive invariant `Inv`
adds `HandlersCounted` (the count is exact, hence saturation never happens) and
`QueueCounted` (a count of zero means an empty queue).  `AnswersReachAskers` is
inductive relative to `Inv`: `AskersStep` follows the set of outstanding
requests through each action.

`OriginProofs` proves for any paths, nodes, consumers, broadcasts and route keys,
from the assumptions of `Origin` (the hop counts and hashes are numbers, a layout
is well formed, `None` and `Root` are values apart), and for every layout of
handles: `TypeCorrect` and `BestIsActive`.  The inductive invariant `TreeInv` is
the types; `ScanOK` and `HomeOK` (a walk over the tree belongs to the one
consumer that is joining, and where a consumer is in each phase); `ListenOK` (a
node's listeners are the live consumers that refer to it); `NodesApart` (two
paths never share a node, whether by link or by handle); `RoutesOK` (nothing is
queued behind no active route, and no queued route beats the active one);
`InUse` (a node with a route is linked or held); `TasksOK` (a cleanup task has a
handle to work through).  Without `InUse` a node that `entry` makes could bring
routes along, without `NodesApart` a publish could change another path.
`PublishRoutes` and `RemoveRoutes` say what the two algorithms do to one node,
`RouteStep` puts both into one form, and the lemmas about `Best`, `Position` and
`RemoveAt` say which route is promoted and what is left.

`OriginViewProofs` goes on with what needs a condition on the layout.
`RemoveNeverPanics` assumes that no broadcast is published twice (`Once`) or that
there is only one (`Alone`).  `JobsOK` is its invariant: under `Once` a broadcast
has at most one cleanup task, and it is among the routes of the node where that
task will look.  `AnnouncesToggle` and `ConsumersCatchUp` assume `Unmixed`: no
producer has another kind of handle than the consumers.  `LinksOK` says that
scoped handles and consumers then agree with the link of their path, and
`ViewsOK`, for each phase of a consumer's life, whether it is blank about a path
or knows it, that is, whether what it was told and what is queued settle at what
a lookup finds; while a root consumer is joining that depends on the paths its
walk has left.  `UpdateSettles` is the heart: coalescing takes a consumer that
would end up at the old route to the new one and keeps the alternation.  The
runs `origin_double_publish` and `origin_mixed_handles` show that without these
conditions the properties fail.

`GroupProofs` proves for any readers, sizes and limits, from `FrameAssumption`
and `GroupAssumption`: `GroupInvariant`, `NobodySleepsThrough` and `GroupIsLog`,
the whole refinement (`GroupLog` has no liveness).  The inductive invariant
`Inv` is `Types`; `WriterInv` (every frame but the one being written is finished
while the writer goes on, finished frames have all their bytes); `CacheInv` (the
deque is a run of consecutive frames and reaches the newest until it is
cleared, so a finished group that a reader has drained has no more frames);
`ReaderInv` (a reader's frame is the one its index says and it has read no more
than was written).  Without `CacheInv` the position of a reader in the deque
could name another frame than its place in the log.  `LogWriter` and `LogReader`
take each action to a step of the log or a stutter.  `NobodySleepsThrough` needs
only the types beside itself: each section that changes what a sleeper waits for
empties the list.

`CacheIsExact` adds that `cache` is the sum of the cached sizes and that both
limits hold.  The sum is recursive and the prover has no induction over data, so
the invariant `SizeInv` keeps the partial sums themselves: `IsSum(f, frames,
size)` for some `f` with `cache = f[Len(frames)]`.  A step only has to give the
new partial sums (`FrontSize` and `RestSum` for what `evict` pops and leaves),
and that `SizeOf` is the last of them (`SizeIsSum`) follows from looking at the
first place where two solutions of the recursion would differ.  `SizeRecv` shows
that `evict` stops before the new frame: alone it is within both limits, by
`GroupAssumption` (a frame of `MAX_FRAME_SIZE` fits, one frame is allowed).

`TrackProofs` proves for any readers and number of groups, any range of
sequences and ages and any finite set of writers and watchers, from
`BoundsAssumption`, `HandlesAssumption` and `NoneAssumption`: `TypeCorrect`,
`FilterIsExact`, `LatestIsKept`, `SweepCompletes`, `ReadersInOrder`,
`SequencesRise` and `NoneIsMissed`.  The argument is about `Kept`, the cached groups by arrival:
`PushEffect` shows once what an addition with its sweep and trim does to it, and
`CacheStep` that every step leaves `Kept` alone up to frames, adds a group, or
clears it when nobody can write any more.  The inductive invariant `IInv` is
`Types`; `HandlesInv` (the producer count is exact, and no writer is left when
one clears the cache); `CacheInv` (the filter, no sequence above `max`, the
latest there while somebody writes); `TimeInv` (groups arrive in the order of
their creation); per reader `Order` and `Missed`.  `Order` says of a group at
`u64::MAX` that its like is behind the cursor: there the addition saturates, and
only because the latest group stays and the filter refuses its sequence is it
not given twice.  `TypeCorrect` needs `Ranges` besides: the bounds of the model,
the end of the track and the readers' results.

`BroadcastProofs` proves for any names, subscribers and number of tracks, from
`BroadcastAssumption`: `CountIsExact`, `NobodyIsOrphaned`, `ServedIsFound` and
`NotFoundIsRight`.  `Inv` adds to the
two checked invariants the types; `TracksInv` (an entry of the lookup is a
track of that name); `QueueInv` (a request is queued once and not yet served);
`LastInv` (a handle that read `is_last` is the only one left among owner and
dynamic handles, although upgrades of subscribers and cleanup tasks come and
go).  `LastInv` is what makes clearing the lookup after the unlocked read safe:
nothing is served then (`NothingServed`).  `ServedIsFound` is an action property
relative to `Inv`: `LookupStep` goes through the steps that change the lookup
and finds `remove_track` the only one that takes a track in use from it.

`ClusterProofs` proves for any number of relays, static peers, timeouts and both
spellings, from `ClusterAssumption`: `DialsRight`, `SourcesAreTrue`,
`SweptInTime`, `BackoffOnlyGrows`, `TiebreakHolds` and `TiebreakLost`.  `Inv` adds to
`OneDialEach` that the static and API sources are exact (`WantedInv`), that a
task has a phase and a backoff exactly while it runs (`TaskInv`), and `GossipInv`:
gossip is the source only of registrations it may dial, a pending unannounce is
at most `STALE_AFTER` and a sweep interval old counted to the next sweep, and
its age is the time the registration has been gone.

Only model-checked: the liveness properties and the liveness half of the
refinement of `KioChannel`: fairness is outside the prover.  Every safety
property of the passing runs is proved.

## Not modelled

The models cover the concurrent core of the relay: the state shared between
tasks in kio, the five layers of `moq-net/src/model`, the tasks of the lite
session that drive them, and the cluster's dials.  By lines this is a small
part of the repository (1 to 2 percent of some 140,000), because most of it is
an upstream kernel, vendored libraries, media formats and bindings.

* `priority`: one sequential structure behind one mutex, whose invariant its
  unit tests drive across the boundary; its watches are waits as in `Kio`.
* The announce and subscribe streams between two relays, lite and IETF: their
  state is the model layer's; what is left are byte formats over streams of
  external QUIC libraries.
* `OriginList`, time scales, path and message coding: sequential functions on
  byte strings and numbers.
* Authentication: token parsing and signatures, no shared state.
* Kernel executor and UDP sockets: whether they make progress depends on smoltcp
  and on hardware timers.  Two hazards there (a sender that registers the
  receive waker, a 16-bit port counter that wraps) are listed in `PROJECT.json`
  without a property.
* Transports, front ends, statistics, media tools, vendored crates: I/O, data
  transformation and external code.
* Weak memory: counters are sequentially consistent in the models.
