---------------------------- MODULE EventStream ----------------------------
(***************************************************************************)
(* The cache engine of internal/cache seen from its mutation event stream. *)
(*                                                                         *)
(* A cache is split into shards, each behind its own mutex.  An operation  *)
(* mutates its shard and sends the events that describe the mutation to    *)
(* one bounded channel before it unlocks the shard.  A dispatcher          *)
(* goroutine takes the events off the channel one at a time, numbers them, *)
(* hands them to the subscribers and publishes the number as Seq().        *)
(*                                                                         *)
(* pending[s] is what the goroutine that holds the mutex of shard s still  *)
(* has to send: the mutex is free exactly when pending[s] is empty, so an  *)
(* operation on s waits for that, and a sender blocked on a full channel   *)
(* keeps the shard locked.                                                 *)
(*                                                                         *)
(* The subscriber modelled here is a follower: another cache that calls    *)
(* ApplyEvent for every event it is handed (recovery and replicas do       *)
(* that), without limits of its own.                                       *)
(*                                                                         *)
(* The eviction policy is abstracted: a write to a cache with limits may   *)
(* evict any other keys of its shard, in any order (see Shard.tla for the  *)
(* policies).  Operations read the clock before they lock the shard, so    *)
(* the time they use may be as old as MaxDelay.                            *)
(***************************************************************************)
EXTENDS Sequencing

CONSTANTS
    Key, Value,
    NumShards,      \* number of shards
    ShardOf,        \* the shard a key hashes to
    TTL,            \* the ttl arguments callers use; 0 stands for "no ttl"
    Capped,         \* whether MaxEntries or MaxMemory is configured
    EventBuffer,    \* capacity of the events channel
    MaxDelay,       \* how long an operation that has read the clock may take
                    \* to lock its shard
    Syncer,         \* goroutines that call Sync
    CanClose,       \* whether the process ever calls Close
    NoEntry,        \* the "value" of a key that is not in the map
    MaxOps,         \* bound: operations that change a shard
    MaxFlushes,     \* bound: calls of FlushAll
    MaxSyncs,       \* bound: calls of Sync
    MaxTime         \* bound: the clock

Shard == 1..NumShards

Entry == [value : Value, expireAt : Nat]

Store == [Key -> Entry \cup {NoEntry}]

Mutation ==
    [op : {"set"}, key : Key, value : Value, expireAt : Nat]
        \cup [op : {"del"}, key : Key]
        \cup [op : {"expire"}, key : Key, expireAt : Nat]
        \cup [op : {"flush"}]

Ack == [op : {"ack"}, who : Syncer]

ASSUME KeyAssumption == IsFiniteSet(Key)
ASSUME ShardAssumption == NumShards \in Nat \ {0} /\ ShardOf \in [Key -> Shard]
ASSUME TTLAssumption == TTL \subseteq Nat
ASSUME FlagAssumption == Capped \in BOOLEAN /\ CanClose \in BOOLEAN
ASSUME BoundAssumption ==
    /\ EventBuffer \in Nat \ {0} /\ MaxDelay \in Nat
    /\ MaxOps \in Nat /\ MaxFlushes \in Nat /\ MaxSyncs \in Nat
    /\ MaxTime \in Nat
ASSUME NoEntryAssumption == NoEntry \notin Entry

VARIABLES
    now,        \* the clock
    items,      \* the union of the shards' item maps
    pending,    \* per shard: events the holder of its mutex has yet to send
    events,     \* the events channel
    fanned,     \* the dispatcher's own counter: events handed to subscribers
    seq,        \* Cache.seq, what Seq() returns
    applied,    \* the items of the follower
    closed,     \* Cache.closed is set and Cache.done is closed
    passed,     \* after Close: shards whose sender was already past the test
                \* of closed and is waiting in the select
    dropped,    \* history: shards that lost an event to Close
    dispatcher, \* "running" or "stopped"
    sync,       \* per syncer: "idle", "send", "wait", or "acked"
    mark,       \* history: events already sent when the syncer called Sync
    flushAt,    \* the shard FlushAll flushes next
    ops, flushes, syncs     \* operations so far, for the bounds

storeVars == <<items, pending>>
streamVars == <<events, fanned, seq, applied>>
closeVars == <<closed, passed, dropped, dispatcher>>
syncVars == <<sync, mark, syncs>>
flushVars == <<flushAt, flushes>>

vars == <<now, storeVars, streamVars, closeVars, syncVars, flushVars, ops>>
-----------------------------------------------------------------------------
\* The times an operation that locks its shard now may have read.
Clock == {t \in 0..now : now - t <= MaxDelay}

KeysOf(s) == {k \in Key : ShardOf[k] = s}

EmptyStore == [k \in Key |-> NoEntry]

\* Faulty: the sign is wrong.
DeadlineBack(t, ttl) == IF ttl > 0 THEN t - ttl ELSE 0

Deadline(t, ttl) == IF ttl > 0 THEN t + ttl ELSE 0

Expired(e, t) == e # NoEntry /\ e.expireAt # 0 /\ t >= e.expireAt

Without(st, S) == [k \in Key |-> IF k \in S THEN NoEntry ELSE st[k]]

SetEvent(k, v, e) == [op |-> "set", key |-> k, value |-> v, expireAt |-> e]

DelEvents(q) == [i \in 1..Len(q) |-> [op |-> "del", key |-> q[i]]]

\* ApplyEvent, the effect of an event on the items of a follower.  A flush
\* clears every shard of the follower.
Apply(ev, st) ==
    CASE ev.op = "set" ->
            [st EXCEPT ![ev.key] = [value |-> ev.value,
                                    expireAt |-> ev.expireAt]]
      [] ev.op = "del" -> [st EXCEPT ![ev.key] = NoEntry]
      [] ev.op = "expire" ->
            IF st[ev.key] = NoEntry THEN st
            ELSE [st EXCEPT ![ev.key] = [value |-> st[ev.key].value,
                                         expireAt |-> ev.expireAt]]
      [] ev.op = "flush" -> EmptyStore
      [] OTHER -> st

Replay(q, st) == FoldLeft(LAMBDA acc, ev : Apply(ev, acc), st, q)

Init ==
    /\ now = 0
    /\ items = EmptyStore
    /\ pending = [s \in Shard |-> <<>>]
    /\ events = <<>>
    /\ fanned = 0
    /\ seq = 0
    /\ applied = EmptyStore
    /\ closed = FALSE
    /\ passed = {}
    /\ dropped = {}
    /\ dispatcher = "running"
    /\ sync = [y \in Syncer |-> "idle"]
    /\ mark = [y \in Syncer |-> 0]
    /\ flushAt = 1
    /\ ops = 0
    /\ flushes = 0
    /\ syncs = 0
-----------------------------------------------------------------------------
(* Operations on one shard.  Each runs with the shard's mutex, which it     *)
(* takes when no other operation has events left to send.                   *)

\* The locked part of an operation on shard s: the new items, and the events
\* the goroutine sends before it unlocks.
Locked(s, st, evs) ==
    /\ pending[s] = <<>>
    /\ ops < MaxOps
    /\ ops' = ops + 1
    /\ items' = st
    /\ pending' = [pending EXCEPT ![s] = evs]
    /\ UNCHANGED <<now, streamVars, closeVars, syncVars, flushVars>>

\* The orders in which a write to k may evict other keys of its shard.
Evictions(k) ==
    IF Capped
    THEN SetToAllKPermutations({x \in KeysOf(ShardOf[k]) :
                                    x # k /\ items[x] # NoEntry})
    ELSE {<<>>}

\* Set and SetTTL; IncrBy is a write of the new number with ttl 0.
Set(k, v, ttl, t) ==
    \E q \in Evictions(k) :
        LET e == Deadline(t, ttl)
            written == [items EXCEPT ![k] = [value |-> v, expireAt |-> e]]
        IN  Locked(ShardOf[k], Without(written, Range(q)),
                   <<SetEvent(k, v, e)>> \o DelEvents(q))

Delete(k) ==
    /\ items[k] # NoEntry
    /\ Locked(ShardOf[k], Without(items, {k}), DelEvents(<<k>>))

\* Faulty: the expired entry goes without an event.
ReadSilent(k, t) ==
    /\ Expired(items[k], t)
    /\ Locked(ShardOf[k], Without(items, {k}), <<>>)

\* Get, Exists and TTL drop an entry they find expired.
Read(k, t) ==
    /\ Expired(items[k], t)
    /\ Locked(ShardOf[k], Without(items, {k}), DelEvents(<<k>>))

\* Faulty: the event has a deadline from the second reading of the clock.
ExpireTwoClocks(k, ttl, t1, t2) ==
    /\ items[k] # NoEntry
    /\ t1 <= t2
    /\ ~Expired(items[k], t2)
    /\ Locked(ShardOf[k],
              [items EXCEPT ![k] = [value |-> items[k].value,
                                    expireAt |-> Deadline(t1, ttl)]],
              <<[op |-> "expire", key |-> k, expireAt |-> Deadline(t2, ttl)]>>)

\* Expire, and PERSIST as ttl 0.  The clock is read twice before the lock.
Expire(k, ttl, t1, t2) ==
    /\ items[k] # NoEntry
    /\ t1 <= t2
    /\ IF Expired(items[k], t2)
       THEN Locked(ShardOf[k], Without(items, {k}), DelEvents(<<k>>))
       ELSE Locked(ShardOf[k],
                   [items EXCEPT ![k] = [value |-> items[k].value,
                                         expireAt |-> Deadline(t1, ttl)]],
                   <<[op |-> "expire", key |-> k,
                      expireAt |-> Deadline(t1, ttl)]>>)

\* One shard of an activeExpiry tick: drop some of the expired entries (the
\* sweep looks at a sample of the shard).
Sweep(s, t) ==
    \E q \in SetToAllKPermutations({k \in KeysOf(s) : Expired(items[k], t)}) :
        /\ q # <<>>
        /\ Locked(s, Without(items, Range(q)), DelEvents(q))

\* FlushAll flushes the shards one after the other, and goes on to the next
\* shard when it has sent the flush event of the last one.
FlushShard ==
    /\ flushAt = 1 => flushes < MaxFlushes
    /\ flushAt > 1 =>
         \A i \in DOMAIN pending[flushAt - 1] :
             pending[flushAt - 1][i].op # "flush"
    /\ pending[flushAt] = <<>>
    /\ items' = Without(items, KeysOf(flushAt))
    /\ pending' = [pending EXCEPT ![flushAt] = <<[op |-> "flush"]>>]
    /\ flushAt' = IF flushAt = NumShards THEN 1 ELSE flushAt + 1
    /\ flushes' = IF flushAt = 1 THEN flushes + 1 ELSE flushes
    /\ UNCHANGED <<now, streamVars, closeVars, syncVars, ops>>
-----------------------------------------------------------------------------
(* Sending, dispatching, closing.                                           *)

\* Faulty: emit does not look at closed first.
EmitUntested(s) ==
    /\ pending[s] # <<>>
    /\ Len(events) < EventBuffer
    /\ events' = Append(events, Head(pending[s]))
    /\ pending' = [pending EXCEPT ![s] = Tail(pending[s])]
    /\ UNCHANGED <<now, items, fanned, seq, applied, closeVars, syncVars,
                   flushVars, ops>>

\* emit: the event goes to the channel when there is room.
Emit(s) ==
    /\ pending[s] # <<>>
    /\ closed => s \in passed
    /\ Len(events) < EventBuffer
    /\ events' = Append(events, Head(pending[s]))
    /\ pending' = [pending EXCEPT ![s] = Tail(pending[s])]
    /\ passed' = passed \ {s}
    /\ UNCHANGED <<now, items, fanned, seq, applied, closed, dropped,
                   dispatcher, syncVars, flushVars, ops>>

\* emit after Close: the event is dropped, by the test of closed or because
\* the select takes the done branch.
Drop(s) ==
    /\ pending[s] # <<>>
    /\ closed
    /\ pending' = [pending EXCEPT ![s] = Tail(pending[s])]
    /\ passed' = passed \ {s}
    /\ dropped' = dropped \cup {s}
    /\ UNCHANGED <<now, items, streamVars, closed, dispatcher, syncVars,
                   flushVars, ops>>

\* dispatch: number the next event and hand it to the subscribers.
Fan ==
    /\ dispatcher = "running"
    /\ fanned = seq
    /\ events # <<>>
    /\ Head(events).op # "ack"
    /\ fanned' = fanned + 1
    /\ applied' = Apply(Head(events), applied)
    /\ events' = Tail(events)
    /\ UNCHANGED <<now, storeVars, seq, closeVars, syncVars, flushVars, ops>>

\* dispatch: publish the number once every subscriber has seen the event.
StoreSeq ==
    /\ dispatcher = "running"
    /\ fanned # seq
    /\ seq' = fanned
    /\ UNCHANGED <<now, storeVars, events, fanned, applied, closeVars,
                   syncVars, flushVars, ops>>

\* Faulty: the ack overtakes the publication of the number.
FanAckEarly ==
    /\ dispatcher = "running"
    /\ events # <<>>
    /\ Head(events).op = "ack"
    /\ sync' = [sync EXCEPT ![Head(events).who] =
                                IF @ = "wait" THEN "acked" ELSE @]
    /\ events' = Tail(events)
    /\ UNCHANGED <<now, storeVars, fanned, seq, applied, closeVars, mark,
                   syncs, flushVars, ops>>

\* dispatch: an ack is not an event, it wakes the goroutine that sent it.
FanAck ==
    /\ dispatcher = "running"
    /\ fanned = seq
    /\ events # <<>>
    /\ Head(events).op = "ack"
    /\ sync' = [sync EXCEPT ![Head(events).who] =
                                IF @ = "wait" THEN "acked" ELSE @]
    /\ events' = Tail(events)
    /\ UNCHANGED <<now, storeVars, fanned, seq, applied, closeVars, mark,
                   syncs, flushVars, ops>>

\* Faulty: the dispatcher returns whenever the channel is empty.
StopEarly ==
    /\ dispatcher = "running"
    /\ fanned = seq
    /\ events = <<>>
    /\ dispatcher' = "stopped"
    /\ UNCHANGED <<now, storeVars, streamVars, closed, passed, dropped,
                   syncVars, flushVars, ops>>

\* Faulty: the dispatcher only waits for the channel.
StopNever == FALSE /\ UNCHANGED vars

\* dispatch: after Close the dispatcher returns when the channel is empty.
Stop ==
    /\ dispatcher = "running"
    /\ closed
    /\ fanned = seq
    /\ events = <<>>
    /\ dispatcher' = "stopped"
    /\ UNCHANGED <<now, storeVars, streamVars, closed, passed, dropped,
                   syncVars, flushVars, ops>>

\* Close.  Any sender may be between the test of closed and the select.
Close ==
    /\ CanClose
    /\ ~closed
    /\ closed' = TRUE
    /\ passed' \in SUBSET {s \in Shard : pending[s] # <<>>}
    /\ UNCHANGED <<now, storeVars, streamVars, dropped, dispatcher,
                   syncVars, flushVars, ops>>
-----------------------------------------------------------------------------
(* Sync: send an ack through the channel and wait until it comes out.       *)

\* Events that have been sent to the channel so far.
Sent ==
    fanned + Cardinality({i \in DOMAIN events : events[i].op # "ack"})

SyncCall(y) ==
    /\ sync[y] = "idle"
    /\ syncs < MaxSyncs
    /\ syncs' = syncs + 1
    /\ ~closed
    /\ sync' = [sync EXCEPT ![y] = "send"]
    /\ mark' = [mark EXCEPT ![y] = Sent]
    /\ UNCHANGED <<now, storeVars, streamVars, closeVars, flushVars, ops>>

SyncSend(y) ==
    /\ sync[y] = "send"
    /\ Len(events) < EventBuffer
    /\ events' = Append(events, [op |-> "ack", who |-> y])
    /\ sync' = [sync EXCEPT ![y] = "wait"]
    /\ UNCHANGED <<now, storeVars, fanned, seq, applied, closeVars, mark,
                   syncs, flushVars, ops>>

\* Faulty: Sync waits for its ack only.
SyncReturnAcked(y) ==
    /\ sync[y] = "acked"
    /\ sync' = [sync EXCEPT ![y] = "idle"]
    /\ UNCHANGED <<now, storeVars, streamVars, closeVars, mark, syncs,
                   flushVars, ops>>

\* Sync returns: its ack was closed, or the cache is closed.
SyncReturn(y) ==
    /\ \/ sync[y] = "acked"
       \/ sync[y] \in {"send", "wait"} /\ closed
    /\ sync' = [sync EXCEPT ![y] = "idle"]
    /\ mark' = [mark EXCEPT ![y] = 0]
    /\ UNCHANGED <<now, storeVars, streamVars, closeVars, syncs, flushVars,
                   ops>>

Tick ==
    /\ now < MaxTime
    /\ now' = now + 1
    /\ UNCHANGED <<storeVars, streamVars, closeVars, syncVars, flushVars, ops>>
-----------------------------------------------------------------------------
Client ==
    \/ \E k \in Key, v \in Value, ttl \in TTL, t \in Clock : Set(k, v, ttl, t)
    \/ \E k \in Key : Delete(k)
    \/ \E k \in Key, t \in Clock : Read(k, t)
    \/ \E k \in Key, ttl \in TTL, t1, t2 \in Clock : Expire(k, ttl, t1, t2)
    \/ \E s \in Shard, t \in Clock : Sweep(s, t)
    \/ FlushShard

Sender(s) == Emit(s) \/ Drop(s)

Dispatcher == Fan \/ StoreSeq \/ FanAck \/ Stop

SyncStep(y) == SyncSend(y) \/ SyncReturn(y)

\* Nothing is on its way from a shard to the subscribers, no FlushAll is
\* under way, nobody waits.
Quiescent ==
    /\ flushAt = 1
    /\ \A s \in Shard : pending[s] = <<>>
    /\ events = <<>>
    /\ fanned = seq
    /\ \A y \in Syncer : sync[y] = "idle"

\* The cache is closed and every goroutine has returned.
ShutDown ==
    /\ dispatcher = "stopped"
    /\ \A s \in Shard : pending[s] = <<>>
    /\ \A y \in Syncer : sync[y] = "idle"

Idle == (Quiescent \/ ShutDown) /\ UNCHANGED vars

Next ==
    \/ Client
    \/ \E s \in Shard : Sender(s)
    \/ Dispatcher
    \/ Close
    \/ \E y \in Syncer : SyncCall(y) \/ SyncStep(y)
    \/ Tick
    \/ Idle

Spec == Init /\ [][Next]_vars

\* The dispatcher, the goroutines that have something to send and a FlushAll
\* that has begun run; new calls and the clock need not.  Go's channels serve
\* blocked senders in order and its mutexes blocked lockers (starvation mode),
\* so one that finds room again and again is served: strong fairness.
Fairness ==
    /\ WF_vars(Dispatcher)
    /\ \A s \in Shard : SF_vars(Sender(s))
    /\ \A y \in Syncer : SF_vars(SyncStep(y))
    /\ SF_vars(flushAt > 1 /\ FlushShard)

FairSpec == Spec /\ Fairness
-----------------------------------------------------------------------------
TypeOK ==
    /\ now \in Nat
    /\ items \in Store
    /\ pending \in [Shard -> Seq(Mutation)]
    /\ events \in Seq(Mutation \cup Ack)
    /\ fanned \in Nat
    /\ seq \in Nat
    /\ applied \in Store
    /\ closed \in BOOLEAN
    /\ passed \in SUBSET Shard
    /\ dropped \in SUBSET Shard
    /\ dispatcher \in {"running", "stopped"}
    /\ sync \in [Syncer -> {"idle", "send", "wait", "acked"}]
    /\ mark \in [Syncer -> Nat]
    /\ flushAt \in Shard
    /\ ops \in Nat
    /\ flushes \in Nat
    /\ syncs \in Nat

(* When nothing is on its way the follower's items are the cache's items:   *)
(* a subscriber that applies every event of the stream ends up with the     *)
(* same contents, deadlines included.  This holds while FlushAll is not     *)
(* used, or with one shard: each of the flush events that FlushAll sends    *)
(* for its shards clears all shards of the follower.  (cache.go ApplyEvent.)*)
Converged == Quiescent /\ ~closed => applied = items

(* Sync is a barrier: when it returns because its ack came out, every event *)
(* that had been sent when it was called has been given to the subscribers  *)
(* and is counted by Seq().  (cache.go Sync, dispatch.)                     *)
SyncBarrier == \A y \in Syncer : sync[y] = "acked" => seq >= mark[y]

(* Close cuts the events of a shard at one point: once an event of a shard  *)
(* is dropped, no later event of that shard reaches the channel, so what    *)
(* subscribers saw of a shard is a prefix of its history.  (cache.go emit.) *)
NoGapAtClose ==
    [][\A s \in dropped :
          ~ (/\ Len(pending'[s]) < Len(pending[s])
             /\ Len(events') > Len(events))]_vars

(* The stream drains: writers blocked on a full channel with their shard    *)
(* locked, the dispatcher and Sync never wait for each other in a circle,   *)
(* so the cache gets back to a state with nothing on its way.               *)
StreamDrains == []<>(Quiescent \/ closed)

(* Sync returns, also when Close runs between any two of its steps.         *)
SyncReturns == \A y \in Syncer : sync[y] # "idle" ~> sync[y] = "idle"

(* After Close the dispatcher stops and no writer stays blocked with its    *)
(* shard locked.  (cache.go Close waits for the dispatcher; emit selects    *)
(* on done.)                                                                *)
CloseReleases ==
    closed ~> (dispatcher = "stopped" /\ \A s \in Shard : pending[s] = <<>>)
=============================================================================
