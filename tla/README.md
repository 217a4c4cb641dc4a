# A TLA+ model of DistCache

DistCache is a sharded in-memory cache written in Go, with a log and snapshots
on disk, replicas, eviction policies, lease locks, optimistic transactions,
publish/subscribe and a consistent-hash cluster.  This directory models the
parts whose correctness depends on the order of things: what goroutines,
channels, mutexes, clocks, connections, disks and crashes can do to each other.
Paths below are relative to `src/`.

## 1. The system and its parts

| Part | Source | State | What is hard | Module |
| --- | --- | --- | --- | --- |
| Event stream | `internal/cache/cache.go`, `event.go` | shards behind mutexes, a bounded channel, the dispatcher's counter, `seq`, `closed` | senders that block with their shard locked, Close against senders and Sync, one event order for all subscribers | `EventStream` |
| Shard | `internal/cache/shard.go`, `item.go` | items, memory count, policy, limits | three views of the same keys; the key just written as its own victim | `Shard` |
| Eviction policies | `internal/eviction` | lists, buckets, heap, slice with index | stale heap entries, a lowest frequency that is only a bound, swap removal | `Eviction` |
| Persistence | `internal/persistence` | the log, the snapshot file, the snapshot being written | crashes between any two steps, torn records, snapshots while writes go on, files that cannot be created or renamed | `Persistence`, `Node` |
| Lock manager | `internal/locks` | leases | late calls with old tokens and old clock readings | `Locks` |
| Transactions | `internal/txn`, commands in `internal/server/commands.go` | versions and watchers of keys, `execMu`, a transaction per connection | versions that lag behind the writes | `Txn` |
| Replication | `internal/replication` | connections with queue, boundary and frames under way; the replica's cache | events queued before the boundary is read, overflow of a queue, reconnecting | `Replication` |
| Server, pub/sub | `internal/server/server.go`, `server_pubsub.go`, `internal/pubsub` | connections and their loops, subscriptions per topic with a bounded channel each, `quit` | Publish on a copy of the subscriptions while one of them closes; Close at any moment | `Server` |
| Hash ring, registry, routing client | `internal/hashring`, `internal/cluster`, `pkg/client/cluster.go` | sorted points and their owners, nodes and their last heartbeat | colliding points; ring and node table in step; clients that add nodes in another order | `Cluster` |
| Node process | `cmd/cache-server` | how far `main` is | the order of the final snapshot and the closing of server, primary, log and cache | `Node` |
| Statistics, RESP, metrics, CLI | `internal/resp`, `internal/metrics`, `cmd/cache-cli` | counters, bytes of one connection | formatting and I/O, no shared control state | not modelled |

How they interact: every mutation of a shard is sent, before the shard is
unlocked, to one channel; the dispatcher numbers the events and calls the
subscribers in turn (the log, the primary's replicas, the transaction
coordinator) and then publishes the number as `Seq()`.  `Sync()` sends a marker
through the same channel and waits for it; snapshots, replicas and WATCH use it
as a barrier.

The hazards this gives, each with its line and the properties that watch it, are
the list `hazards` of `PROJECT.json`.

## 2. Modules

`EventStream`: the cache from the side of its stream.  `items` is the union of
the shards' maps, `pending[s]` what the holder of the mutex of shard `s` has yet
to send (the mutex is free when it is empty), `events` the channel, `fanned` and
`seq` the dispatcher's counter and the published one, `applied` the items of a
follower that calls `ApplyEvent` for every event.  One action per operation:
`Set` (also IncrBy), `Delete`, `Read`, `Expire` (also PERSIST), `Sweep`,
`FlushShard`; `Emit` and `Drop` are the two outcomes of `emit`; `Fan`,
`StoreSeq`, `FanAck`, `Stop` the steps of `dispatch`; `Close`; and the three steps
of `Sync`.  Operations use a clock that was read before the shard was locked, at
most `MaxDelay` ago.  The eviction policy is abstracted to "any other keys of the
shard, in any order".

`Follower` and `StreamRefinement`: what the stream promises a subscriber, without
shards, channels or events: its copy of a key goes through every state the key
goes through, in the same order, some time later.  The refinement maps the states
still to come to what the events under way will make of the copy one by one.

`Shard` and `Eviction`: one shard with what `EventStream` abstracts: the six
policies as operators on their real state (lists, LFU buckets and lowest
frequency, heap of deadlines with stale entries, slice with index), the memory
count, the limits, `enforceLimitsLocked` turn by turn, integers of `Width` bits
that wrap in IncrBy, and the operations behind `ApplyEvent`, which enforce limits
too but send nothing.  An operation holds the mutex throughout, so it is one
action.  `mirror`, `used`, `uses`, `putBack` and `last` are history variables.

`Persistence`: extends `EventStream`; `AppendRecord` is the dispatcher's step
with the log as a subscriber.  A snapshot is the steps Sync, read `Seq()`, read
the clock, export shard by shard, rename, compact.  Of the records behind the
last fsync a crash keeps any prefix and possibly a torn record; `Readings` is
what `ReadAOF` makes of such a file.  `Restart` is a crash and `Recover`: new
cache, numbers from 0.  `past` is the history of contents since the last fsync.

`Node`: extends `Persistence` with one life of the process: the snapshot loop,
failures of the file operations of WriteSnapshot and Compact (`broken` is an AOF
that Compact has left with a closed file), and `main` after the signal, whose
progress is `stage`: close the server, the primary, take the last snapshot, close
the manager and the cache.  A connection to the primary is kept as far as
`Primary.Close` waits for it.

`Replication`: extends `EventStream`; `FanOut` is the dispatcher's step with the
primary as a subscriber.  `conn[c]` is the handler of a connection, with the queue
that `onEvent` fills, the boundary and the frames under way; `rep` is the replica.
A connection may break at any time; the replica then reads some of the frames
under way, notices, waits for its ack loop and dials again.

`Server`: `pc[c]` is what the goroutine of connection `c` does next, `todo[c]` the
topics its command (or `closeSubs`) has yet to deal with, `subs` the connections'
maps, `sub` the subscriptions with their channels and forwarders, `message` what
`Publish` has yet to send to whom.  `Subscription.Close` is two steps, out of the
map and close the channel; `Publish` is the copy and then one send at a time.
A send on a closed channel panics and ends the process.  `Close` is the steps
`Quit`, `Cut` and `Closed`.  Commands that touch none of this are one action.

`Cluster`: the `Ring` as a record of sorted points, owners and nodes; the registry
with the age of each node's last heartbeat; the ring of a client as a function of
the order in which it adds the nodes.  A key is a point.  The table of hashes is
chosen in the initial state, so collisions are part of the model.

`Locks`: calls in two steps, reading the clock and then, with the mutex, the
rest.  Clients may present any token ever handed out.  Tokens are numbers; that
16 random bytes do not repeat is assumed.  `held` is what owners believe.

`LeaseService` and `LocksRefinement`: the promise of the lock manager with one step
per operation on one shared clock; the calls under way are hidden.

`Txn`: the coordinator's maps and `execMu`, a queue for the stream, the
transaction of each connection.  Commands are abstracted to the key they write.
A connection that ends leaves its watchers behind (`Disconnect`), as in the code.

`MC*.tla` give TLC its instances.  `EventStreamProofs`, `LocksProofs`,
`ClusterProofs`, `ServerProofs` and `TxnProofs` hold the theorems, `Folding` the
lemmas about folds, and `Counting` the laws of finite sets that lemmas assume.
`Sequencing` has the few operators on sequences that the modules with proofs share.
A definition with a comment "Faulty" is a plausible bug: put in
the place of the definition that follows it, it must violate the property that
`mutants` in `PROJECT.json` names.

## 3. Runs

`tlc -config <cfg> <module>`, each within three minutes on two cores.

| Run | Shows |
| --- | --- |
| `EventStream_order` | The stream implements `Follower` (`ImplementsFollower`): each key of a subscriber goes through the states of the cache in order; with nothing under way both are equal (`Converged`). |
| `EventStream_close` | Close at any moment: no shard's stream has a hole (`NoGapAtClose`), the dispatcher stops and all writers are released (`CloseReleases`), Sync is a barrier (`SyncBarrier`) and returns (`SyncReturns`); without Close everything drains (`StreamDrains`). |
| `Persistence` | At every moment of a snapshot the files and the events under way have everything (`RecoveryCompleteOnce`); with the log alone a crash loses a suffix at most (`RecoversPrefix`); with a snapshot each key comes back with a value and a deadline it had since the last fsync, or is missing because it was at some moment since (`RecoversSlot`). |
| `Node` | The same completeness whichever snapshot or compaction fails (`NothingMissing`); a shutdown leaves the live contents on disk (`CleanShutdown`); every snapshot (`SnapshotReturns`) and the shutdown (`ShutdownEnds`) come to their end. |
| `Shard` | The policy knows exactly the items (`PolicyTracksItems`), the memory count is exact (`MemoryIsExact`), the events describe the shard (`EventsDescribe`), lru and fifo hold the limits (`LimitsHold`), victims are the ones the policy promises (`EvictsInOrder`). |
| `Locks` | No two owners hold a lock (`MutualExclusion`), a lease that is not over is not taken away (`LeaseKept`), the manager implements `LeaseService` (`ImplementsService`), AcquireBlocking returns (`BlockingReturns`). |
| `Txn` | EXEC is aborted only for a change after WATCH was called (`NoFalseAbort`), misses a change of a key other than `""` only while its event is under way (`MissesOnlyInFlight`), and WATCH and EXEC return (`CommandsReturn`). |
| `Replication` | A synced replica shows no value older than the event it reports as applied (`ReplicaReflects`); after overflows and broken connections it ends up with the primary's contents (`ReplicaCatchesUp`). |
| `Server` | Broker, channels and connections agree (`SubsAccounted`), a published message reaches every confirmed subscriber or is counted as dropped (`Delivered`), nothing is read after Close (`QuietAfterClose`), and Close ends every goroutine (`CloseEndsAll`). |
| `Cluster` | Ring and registry agree after any history, collisions included (`RingSound`), `Replicas` returns the nearest nodes (`ReplicasAreNearest`), a client with the same nodes routes alike (`OwnersAgree`), and Add and Remove move only the keys they must (`MinimalMovement`). |

Two runs end in a counterexample, each against a sentence of the documentation:

| Run | What the code does |
| --- | --- |
| `Persistence_restart` | Numbers begin at 0 after a restart while the old snapshot keeps its boundary: new records below it are skipped at the next restart. |
| `Server_publish` | A subscriber that leaves between the copy of the subscriptions and the send makes PUBLISH send on a closed channel; the process panics and PUBLISH does not return. |

More disagreements were met.  They delimit the passing runs, and the change named
shows each of them:

- FlushAll sends one flush event per shard and ApplyEvent clears all shards for
  each: a write to a shard already flushed is lost in followers
  (`EventStream_order` with `MaxFlushes = 1`: `Converged` fails).  `README.md` says
  the stream "keeps recovery and replica state provably consistent".
- The log is reopened behind a torn record, and what is appended there is not read
  at the next restart (`Persistence` without the condition on torn records in
  `OneLife`: `RecoversPrefix` fails).  `README.md` says torn records are "safely
  ignored".
- With lfu (and random and ttl) the victim can be the key just written; the loop
  then gives up and the limit is exceeded by one more item each time (`Shard` with
  `"lfu"` in `LimitsHold`).
- With operations that use an older clock (`Persistence` with `MaxDelay = 1`),
  PERSIST keeps a key that the export, with a later clock, has left out as expired;
  the replayed event finds no key and recovery loses it.
- An EXPIRE or PERSIST of an older value that was logged is replayed over a newer
  value that only the snapshot has, also with the sync policy `always`: a key can
  come back with the value of one write and the deadline of another (`Persistence`
  with `RecoversSlot` restricted to `x = y`).  `RecoversSlot` is what holds.
- Under ttl a key that was its own victim is put back without its deadline, so
  keys that expire later are evicted before it; `EvictsInOrder` exempts it.
- EXEC does not call Sync, so a write after WATCH whose event is still in the
  channel does not abort it (`internal/README.md` says so, `deploy/README.md`
  says the contrary); `MissesOnlyInFlight` is what remains true of it.
- `onEvent` passes over events whose key is `""`, a key that SET and WATCH accept:
  a write to it never aborts a transaction that watches it (`Txn` with
  `EmptyKey = k1` and `MissesOnlyInFlight` without its exemption).
- When a replica's queue has overflowed, `stream` may still send the events behind
  the gap before it returns; `ReplicaReflects` stops at the overflow.
- `Primary.Close` waits for a connection that has not sent the magic, and does not
  close it; `ShutdownEnds` says which peers can hold the shutdown up.
- A compaction that fails after it has closed the log leaves an AOF to which
  nothing can be appended any more; until the next snapshot new writes are on no
  disk.  `NothingMissing` and `CleanShutdown` say what still holds.
- With two colliding virtual nodes the owner of the point depends on the order in
  which the nodes were added, which in a client is the order of a map; and removing
  either node takes the point away from both.  `OwnersAgree` and `MinimalMovement`
  name this case.

### Bounds

Two shards and two keys in one of them are the least for which order between
shards, order within a shard and evictions differ; a channel of one or two slots
makes senders block; three operations are a write, a change of it and a
competitor.  One snapshot and one crash reach every pair of adjacent steps; `Node`
has a periodic snapshot and the final one, so that the second meets what a failure
of the first has left.  Time needs one tick for a deadline to pass.  `Shard` fills
two places from three keys with five operations, and memory 7 with items of 3 to 5
makes one write evict two.  `Locks` has two owners, since each call treats all
other owners alike; either client may acquire again what it holds.  `Txn` has one
key, which is not the empty one: the coordinator treats keys independently, a flush
treats all alike, and the one property that tells keys apart leaves `""` out.
`Persistence` has one key in one shard, which a snapshot, a log and the stream can
each have a different state of, with and without a deadline; the order of shards in
a snapshot is the business of `Node`, which has two.
`Replication` has one connection at a time, a queue of one event and two writes to
two shards, so that both an overflow and a broken connection are followed by a
second synchronisation.  `Server` has a publisher and a subscriber that may change
roles, channels of one message and two messages, so that one is dropped.
`Cluster` has every table of hashes for three nodes with two virtual nodes on four
points: collisions within a node, between two, among all three, and none between
nodes.  Symmetry is used only in runs without liveness properties.  Every bound is a
constant whose comment says "bound", and stands in the guard of the step that
starts an operation, so that what has begun can always finish.

### Fairness

A goroutine that can go on does (weak fairness): the dispatcher, the handlers of
the primary, the replica, the loops of connections and forwarders, `main` and the
snapshot.  In `EventStream`, blocked senders, callers of Sync and a FlushAll waiting
for a shard get strong fairness: Go's channels serve waiters in order and its
mutexes switch to handing over after a millisecond of starvation.  `Server` assumes
that a write to a connection returns, because the peer reads or is closed, and
`Replication` that a write on a connection the peer has closed fails in the end.
New calls, commands, dials, Close, signals, the snapshot ticker, crashes, fsyncs and
breaks have no fairness.  In `Locks` time passes; in `Txn` EXEC has strong fairness
for `execMu`.

## 4. Proofs

`tlapm` takes three to five minutes for `EventStreamProofs.tla`,
`ClusterProofs.tla` and `TxnProofs.tla`, one to two for `ServerProofs.tla` and
`LocksProofs.tla`, and seconds for `Folding.tla`.

Two modules serve all the others.  `Counting` states what the proofs use of finite
sets and of the natural numbers.  The lemmas assume it, and each module proves it
at its end from an instance of the library (`CountingHolds`), so that the theorems
assume nothing.  `Folding` proves what `FoldLeft` is for the empty sequence and for
one more element, with an operator constant in the place of what is folded; the
loops of the ring (over virtual nodes, points and nodes) are instances of it.
Induction is over a set of numbers in place of a predicate, because the provers do
not instantiate operators.

Every theorem is for all values of the constants that the named assumptions of its
module allow.

Event stream:

- `TypeCorrect`: `TypeOK`, which is inductive.
- `Convergence`: `Converged`, if FlushAll is not used or there is one shard
  (`NoSplitFlush`; see the first disagreement above).  `Converged` alone is not
  inductive.  The invariant `ConvInv` says for every key that the events in the
  channel followed by those its shard has yet to send take the follower's slot to
  the cache's slot, and that a shard only sends events of its own keys.  The
  invariant uses `SlotRun`, the existence of a sequence of slots linked by `Effect`,
  in the place of the fold `Replay`; `ApplyIsPointwise` relates it to `Apply`.  The
  lemmas extend a run at its end (an operation), cut its head (the dispatcher) and
  move an event from the shard to the channel (emit).
- `CloseCutsOnce`: `NoGapAtClose`.  The invariant `GapInv` adds to the types that a
  shard that has dropped an event is not past the test of `closed`, which is set.
- `SyncIsBarrier`: `SyncBarrier`.  The invariant `BarrierInv` follows the ack of a
  call through the channel: the events ahead of it and those dispatched are at least
  as many as had been sent when Sync was called.

Locks:

- `LockTypes`, `LocksExclude` and `LeasesKept`: `TypeOK`, `MutualExclusion` and
  `LeaseKept`.  The invariant `Inv` adds that a key has one lease, that tokens in use
  were handed out and belong to one lease, and that the clock of a call is not ahead.
  Assumed: the clock never goes back, and tokens are new.
- `LocksServe`: `Locks` implements `LeaseService`.  Under `Inv`, an Acquire that
  succeeds is a `Take`, a Renew an `Extend`, a Release a `GiveUp`, a tick a `Pass`, and
  everything else a stutter; that the clock of a call is not ahead makes every
  new deadline one the service allows.

Transactions:

- `TxnTypes`, `AbortsAreTrue` and `MissesAreInFlight`: `TypeOK`, `NoFalseAbort` and
  `MissesOnlyInFlight`, the empty key among the keys.  In the invariant `Seen`
  relates the version noted by WATCH to the number of writes dispatched; `Marked`
  and `Synced` do so for a WATCH in Sync, by the writes ahead of its marker; and
  `Counted`, that watchers are never undercounted, keeps the others from taking a
  version away, clients that left without a release included.

Ring and registry:

- `KeysMoveLittle`: `MinimalMovement`.  The argument is about the map of owners: each
  point belongs to a member with a virtual node there.
- `RingAlwaysSound`, `ClientsAgree` and `ReplicasNearest`: `RingSound`, `OwnersAgree`
  and `ReplicasAreNearest`, which are also about the sorted slice.  What the loops of
  Add, Remove and GetN leave is proved by induction over the slice; two sound rings
  of the same nodes without a collision have the same points and owners, whatever
  the order of the additions.

Server and broker:

- `NothingLeaks`: `SubsAccounted`.  It is not inductive: `Accounts` adds types, that
  no subscription is held twice and each is held for its own topic, and that a
  connection which is ending has yet to close all it holds.
- `NothingLost`: `Delivered`.  The invariant `Owed` says that a message due to a
  subscription has arrived or is among those a running Publish has yet to send;
  `Accounts` is what makes the subscriptions in effect part of Publish's copy.
- `ClosedIsQuiet`: `QuietAfterClose`.  The invariant `Quiet` says that after Close no
  connection is past its look at `quit`, one accepted late included.

Only model-checked: all liveness properties (fairness is out of the prover's
reach); `ImplementsFollower`, and the properties of `Shard`, `Persistence`, `Node`
and `Replication`.

## 5. Not modelled

- `internal/resp`: formatting and parsing of the bytes of one connection.
- `internal/metrics`, the statistics of the cache and what INFO shows: counters that
  nothing reads back.
- `cmd/cache-cli`: terminal input and output.
- `pkg/client` except for routing: a `Client` sends one request and reads one reply
  under a mutex; the table of connections of a `ClusterClient` never replaces a
  broken one; a `Subscriber` reads the pushed messages of one connection.
- AUTH, argument parsing and replies in `internal/server/commands.go`: they involve
  one command of one connection.  The metrics listener that `Server.Close` also shuts
  down.
- Flags and wiring in `cmd/cache-server`; a node that is itself a replica, and
  `Replica.Close`.  A replica's own log and replicas: `ApplyEvent` sends no events, so
  they never learn what it applies.
- Failing writes to an open file (`Node` lets creating, renaming and opening fail).
- Key hashing in the cache (`ShardOf` is any function), and the text of values apart
  from being an integer or not and its length.
- The bytes of records and frames: a record is read whole, or torn as `Readings`
  says.
