------------------------------- MODULE Shard -------------------------------
(***************************************************************************)
(* One shard of internal/cache: its items, the memory it accounts for, its *)
(* eviction policy, its limits, and the events its operations send.        *)
(*                                                                         *)
(* An operation holds the mutex of the shard from its first to its last    *)
(* step, so it is one action here; EventStream has what happens between    *)
(* the shards and the dispatcher.  The clock an operation uses was read    *)
(* before it locked the shard and may be behind.                           *)
(*                                                                         *)
(* Values are the integers of Width bits and Text, which ParseInt rejects. *)
(***************************************************************************)
EXTENDS Eviction, SequencesExt

CONSTANTS
    Key,
    Text,           \* a value that is not an integer
    Value,          \* the values clients write
    Width,          \* the width of an integer
    Delta,          \* the arguments of IncrBy
    TTL,            \* the ttl arguments, 0 for none
    ValueLen(_),    \* the length of a value
    EntryOverhead,  \* the length of a key and entryOverhead
    Setup,          \* the shards to look at: their policies, their limits on
                    \* items and on memory (0 for none), whether the events of
                    \* another cache are applied to them, and maxOps, a bound
                    \* on operations
    MaxTime         \* bound: the clock

Numbers == -(2^(Width - 1))..(2^(Width - 1) - 1)

ASSUME ShardParameters ==
    /\ Setup \subseteq [kind : Kinds, maxEntries : Nat, maxMemory : Nat,
                        follower : BOOLEAN, maxOps : Nat]
    /\ Width \in Nat \ {0} /\ Delta \subseteq Int /\ Value \subseteq Numbers \cup {Text}
    /\ TTL \subseteq Nat /\ \A v \in Numbers \cup {Text} : ValueLen(v) \in Nat
    /\ EntryOverhead \in Nat /\ MaxTime \in Nat
    /\ \A ttl \in TTL : MaxTime + ttl < Never

VARIABLES
    now,        \* the clock
    setup,      \* the policy and the limits of the shard
    shard,      \* its items, mem and policy state (pol)
    mirror,     \* history: the items of a subscriber that applies the events
                \* (not kept for a shard that applies events itself)
    used,       \* history: keys in the order of their last use
    uses,       \* history: how often each key was used since the policy
                \* added it
    putBack,    \* history: keys that were their own victim and whose deadline
                \* the policy was not told since
    last,       \* history: the key written last, and the keys that evicted
    ops

vars == <<now, setup, shard, mirror, used, uses, putBack, last, ops>>
-----------------------------------------------------------------------------
kind == setup.kind

\* Faulty: the ttl is taken from the clock.
DeadlineBack(t, ttl) == IF ttl > 0 THEN t - ttl ELSE 0

Deadline(t, ttl) == IF ttl > 0 THEN t + ttl ELSE 0

ApproxSize(v) == ValueLen(v) + EntryOverhead

Wrap(n) == ((n + 2^(Width - 1)) % 2^Width) - 2^(Width - 1)

Has(x, k) == k \in DOMAIN x.items

IsExpired(x, k, t) ==
    x.items[k].expireAt # 0 /\ t >= x.items[k].expireAt

\* mem is kept from falling below 0.
Minus(m, n) == IF m < n THEN 0 ELSE m - n

\* Faulty: an overwrite counts the whole new value.
SetLockedAdds(x, k, v, e) ==
    [items |-> Put(x.items, k, [value |-> v, expireAt |-> e]),
     mem |-> x.mem + ApproxSize(v),
     pol |-> PolicyNote(kind, IF Has(x, k) THEN PolicyAccess(kind, x.pol, k)
                              ELSE PolicyAdd(kind, x.pol, k), k, e)]

SetLocked(x, k, v, e) ==
    [items |-> Put(x.items, k, [value |-> v, expireAt |-> e]),
     mem |-> IF Has(x, k)
             THEN x.mem + ValueLen(v) - ValueLen(x.items[k].value)
             ELSE x.mem + ApproxSize(v),
     pol |-> PolicyNote(kind, IF Has(x, k) THEN PolicyAccess(kind, x.pol, k)
                              ELSE PolicyAdd(kind, x.pol, k), k, e)]

RemoveLocked(x, k) ==
    [items |-> Drop(x.items, k),
     mem |-> Minus(x.mem, ApproxSize(x.items[k].value)),
     pol |-> PolicyRemove(kind, x.pol, k)]

\* Faulty: the memory is only looked at when there is no limit on the items.
OverCapacityEither(x) ==
    IF setup.maxEntries > 0 THEN Cardinality(DOMAIN x.items) > setup.maxEntries
    ELSE setup.maxMemory > 0 /\ x.mem > setup.maxMemory

OverCapacity(x) ==
    \/ setup.maxEntries > 0 /\ Cardinality(DOMAIN x.items) > setup.maxEntries
    \/ setup.maxMemory > 0 /\ x.mem > setup.maxMemory

\* Faulty: the key that was written is not put back.
EvictOneForgets(r, protected) ==
    IF r.stop \/ ~OverCapacity(r.sh) THEN {[r EXCEPT !.stop = TRUE]}
    ELSE {LET x == [r.sh EXCEPT !.pol = o.pol]
              k == o.key
          IN  IF ~o.ok \/ k = protected
              THEN [r EXCEPT !.sh = x, !.stop = TRUE]
              ELSE [r EXCEPT !.sh = [x EXCEPT !.items = Drop(@, k),
                                              !.mem = Minus(@, ApproxSize(x.items[k].value))],
                             !.evicted = Append(@, k)] :
          o \in PolicyEvict(kind, r.sh.pol)}

\* One turn of the loop of enforceLimitsLocked.  It ends when the policy has
\* no victim and when the victim is the key that was just written.
EvictOne(r, protected) ==
    IF r.stop \/ ~OverCapacity(r.sh) THEN {[r EXCEPT !.stop = TRUE]}
    ELSE {LET x == [r.sh EXCEPT !.pol = o.pol]
              k == o.key
          IN  IF ~o.ok THEN [r EXCEPT !.sh = x, !.stop = TRUE]
              ELSE IF k = protected
              THEN [r EXCEPT !.sh = [x EXCEPT !.pol = PolicyAdd(kind, @, k)],
                             !.stop = TRUE, !.readded = TRUE]
              ELSE IF Has(x, k)
              THEN [r EXCEPT !.sh = [x EXCEPT !.items = Drop(@, k),
                                              !.mem = Minus(@, ApproxSize(x.items[k].value))],
                             !.evicted = Append(@, k)]
              ELSE [r EXCEPT !.sh = x] :
          o \in PolicyEvict(kind, r.sh.pol)}

\* enforceLimitsLocked: every turn forgets a key of the policy, so as many
\* turns as there are items are enough.
EnforceLimits(x, protected) ==
    FoldLeft(LAMBDA S, i : UNION {EvictOne(r, protected) : r \in S},
             {[sh |-> x, evicted |-> <<>>, stop |-> FALSE, readded |-> FALSE]},
             [i \in 1..Cardinality(DOMAIN x.items) |-> i])

NoWrite == [key |-> "", evicted |-> {}]

Init ==
    /\ now = 0
    /\ setup \in Setup
    /\ shard = [items |-> NoKeys, mem |-> 0, pol |-> NewPolicy(kind)]
    /\ mirror = NoKeys
    /\ used = <<>>
    /\ uses = NoKeys
    /\ putBack = {}
    /\ last = NoWrite
    /\ ops = 0
-----------------------------------------------------------------------------
(* The history variables: the subscriber's items, a use of k, the removal   *)
(* of S, and what a write of k to x with the outcome r of EnforceLimits     *)
(* leaves.                                                                  *)

Mirrored(m) == mirror' = IF setup.follower THEN mirror ELSE m

Use(k) ==
    /\ used' = Append(Unlist(used, k), k)
    /\ uses' = [uses EXCEPT ![k] = @ + 1]
    /\ last' = NoWrite
    /\ UNCHANGED putBack

Gone(S) ==
    /\ used' = SelectSeq(used, LAMBDA z : z \notin S)
    /\ uses' = Restrict(uses, DOMAIN uses \ S)
    /\ putBack' = putBack \ S
    /\ last' = NoWrite

Written(x, k, r) ==
    LET count == IF Has(x, k) /\ ~r.readded THEN uses[k] + 1 ELSE 1
        gone == Range(r.evicted)
    IN  /\ used' = SelectSeq(Append(Unlist(used, k), k), LAMBDA z : z \notin gone)
        /\ uses' = Restrict(Put(uses, k, count), DOMAIN r.sh.items)
        /\ putBack' = IF r.readded THEN (putBack \ gone) \cup {k}
                       ELSE putBack \ (gone \cup {k})
        /\ last' = [key |-> k, evicted |-> gone]

Step == ops < setup.maxOps /\ ops' = ops + 1 /\ UNCHANGED <<now, setup>>

\* Faulty: an eviction sends no event.
WriteSilent(x, k, v, e) ==
    \E r \in EnforceLimits(SetLocked(x, k, v, e), k) :
        /\ shard' = r.sh
        /\ Mirrored(Put(mirror, k, [value |-> v, expireAt |-> e]))
        /\ Written(x, k, r)

\* What set and incrBy do once the new value is known; x is the shard before.
\* The events are those of the item written and of the keys evicted.
Write(x, k, v, e) ==
    \E r \in EnforceLimits(SetLocked(x, k, v, e), k) :
        /\ shard' = r.sh
        /\ LET m == Put(mirror, k, [value |-> v, expireAt |-> e])
           IN  Mirrored(Restrict(m, DOMAIN m \ Range(r.evicted)))
        /\ Written(x, k, r)

\* Remove k and send OpDel.
RemoveAndSend(k) ==
    /\ shard' = RemoveLocked(shard, k)
    /\ Mirrored(Drop(mirror, k))
    /\ Gone({k})

Set(k, v, ttl, t) == Step /\ Write(shard, k, v, Deadline(t, ttl))

\* get, for a key that is there.
Get(k, t) ==
    /\ Step
    /\ Has(shard, k)
    /\ IF IsExpired(shard, k, t) THEN RemoveAndSend(k)
       ELSE /\ shard' = [shard EXCEPT !.pol = PolicyAccess(kind, @, k)]
            /\ Use(k)
            /\ UNCHANGED mirror

\* exists and ttl only change a shard when they find the key expired.
Peek(k, t) ==
    Step /\ Has(shard, k) /\ IsExpired(shard, k, t) /\ RemoveAndSend(k)

Delete(k) == Step /\ Has(shard, k) /\ RemoveAndSend(k)

SetDeadline(k, e) ==
    /\ shard' = [shard EXCEPT !.items[k].expireAt = e,
                              !.pol = PolicyNote(kind, @, k, e)]
    /\ putBack' = putBack \ {k}
    /\ last' = NoWrite
    /\ UNCHANGED <<used, uses>>

Expire(k, ttl, t1, t2) ==
    /\ Step
    /\ Has(shard, k)
    /\ IF IsExpired(shard, k, t2) THEN RemoveAndSend(k)
       ELSE /\ SetDeadline(k, Deadline(t1, ttl))
            /\ Mirrored(IF k \in DOMAIN mirror
                        THEN [mirror EXCEPT ![k].expireAt = Deadline(t1, ttl)]
                        ELSE mirror)

\* incrBy: an expired item is removed without an event of its own, a value
\* that is not an integer is an error, and the new item has no deadline.
IncrBy(k, d, t) ==
    /\ Step
    /\ LET live == Has(shard, k) /\ ~IsExpired(shard, k, t)
           base == IF live THEN shard.items[k].value ELSE 0
           x == IF Has(shard, k) /\ ~live THEN RemoveLocked(shard, k) ELSE shard
       IN  base # Text /\ Write(x, k, Wrap(base + d), 0)

\* Removing every item from the policy, in the order of the map's iteration.
EmptyShard ==
    shard' = [items |-> NoKeys, mem |-> 0,
              pol |-> FoldSet(LAMBDA k, p : PolicyRemove(kind, p, k),
                              shard.pol, DOMAIN shard.items)]

\* flush
Flush ==
    /\ Step
    /\ EmptyShard
    /\ Mirrored(NoKeys)
    /\ Gone(Key)

\* sweepExpired looks at a sample of the items.
SweepExpired(S, t) ==
    /\ Step
    /\ S # {}
    /\ \A k \in S : Has(shard, k) /\ IsExpired(shard, k, t)
    /\ shard' = FoldSet(LAMBDA k, x : RemoveLocked(x, k), shard, S)
    /\ Mirrored(Restrict(mirror, DOMAIN mirror \ S))
    /\ Gone(S)
-----------------------------------------------------------------------------
(* ApplyEvent: a replica, and a cache that recovers, apply the events of    *)
(* another cache or of the log, and send none of their own for them.        *)

ApplySet(k, v, e) ==
    /\ Step /\ setup.follower
    /\ \E r \in EnforceLimits(SetLocked(shard, k, v, e), k) :
          shard' = r.sh /\ Written(shard, k, r)
    /\ UNCHANGED mirror

ApplyDel(k) ==
    /\ Step /\ setup.follower /\ Has(shard, k)
    /\ shard' = RemoveLocked(shard, k)
    /\ Gone({k})
    /\ UNCHANGED mirror

ApplyExpire(k, e) ==
    Step /\ setup.follower /\ Has(shard, k) /\ SetDeadline(k, e) /\ UNCHANGED mirror

FlushSilent ==
    Step /\ setup.follower /\ EmptyShard /\ Gone(Key) /\ UNCHANGED mirror

Tick ==
    /\ now < MaxTime
    /\ now' = now + 1
    /\ last' = NoWrite
    /\ UNCHANGED <<setup, shard, mirror, used, uses, putBack, ops>>

\* The shard waits for a request; only the bounds end a behaviour.
Idle == ops = setup.maxOps /\ now = MaxTime /\ UNCHANGED vars

Next ==
    \/ \E k \in Key, v \in Value, ttl \in TTL, t \in 0..now : Set(k, v, ttl, t)
    \/ \E k \in Key, t \in 0..now : Get(k, t) \/ Peek(k, t)
    \/ \E k \in Key : Delete(k)
    \/ \E k \in Key, ttl \in TTL, t1 \in 0..now : \E t2 \in t1..now :
          Expire(k, ttl, t1, t2)
    \/ \E k \in Key, d \in Delta, t \in 0..now : IncrBy(k, d, t)
    \/ Flush
    \/ \E S \in SUBSET Key, t \in 0..now : SweepExpired(S, t)
    \/ \E k \in Key, v \in Value, ttl \in TTL, t \in 0..now :
          ApplySet(k, v, Deadline(t, ttl))
    \/ \E k \in Key : ApplyDel(k)
    \/ \E k \in Key, ttl \in TTL, t \in 0..now : ApplyExpire(k, Deadline(t, ttl))
    \/ FlushSilent
    \/ Tick
    \/ Idle

Spec == Init /\ [][Next]_vars
-----------------------------------------------------------------------------
Size(x) == Cardinality(DOMAIN x.items)

TypeOK ==
    /\ now \in 0..MaxTime
    /\ setup \in Setup
    /\ DOMAIN shard.items \subseteq Key
    /\ \A k \in DOMAIN shard.items :
          shard.items[k] \in [value : Numbers \cup {Text}, expireAt : 0..Never]
    /\ shard.mem \in Nat
    /\ Range(used) = DOMAIN shard.items
    /\ DOMAIN uses = DOMAIN shard.items

(* The policy knows exactly the keys of the shard, after any mixture of     *)
(* writes, removals, evictions of the key just written, sweeps and flushes, *)
(* and its own parts agree.  (shard.go calls Add, Access, Remove and Evict  *)
(* at seven places.)                                                        *)
PolicyTracksItems == Tracks(kind, shard.pol, DOMAIN shard.items)

SumSizes(S) ==
    FoldSet(LAMBDA k, n : n + ApproxSize(shard.items[k].value), 0, S)

(* mem is the size of the items: no path counts one twice or forgets one.   *)
MemoryIsExact ==
    shard.mem = SumSizes(DOMAIN shard.items)

(* The events describe the shard: applied in order they give its items,     *)
(* the evictions that a write causes included.                              *)
EventsDescribe == ~setup.follower => mirror = shard.items

(* lru and fifo hold the limit on the number of items after every write,    *)
(* and lru holds the limit on memory, but for a single item that is too     *)
(* large: for them the loop never stops at the key just written.            *)
(* (enforceLimitsLocked.)                                                   *)
LimitsHold ==
    /\ kind \in {"lru", "fifo"} /\ setup.maxEntries > 0 =>
          Size(shard) <= setup.maxEntries
    /\ kind = "lru" /\ setup.maxMemory > 0 =>
          shard.mem <= setup.maxMemory \/ Size(shard) = 1

Position(q, k) == CHOOSE i \in DOMAIN q : q[i] = k

\* The deadline of k as ttl orders it.
Due(k) == IF shard.items[k].expireAt = 0 THEN Never ELSE shard.items[k].expireAt

\* Whether the policy may evict a and keep b.
Sooner(a, b) ==
    CASE kind = "lru" -> Position(used, a) < Position(used, b)
      [] kind = "lfu" ->
            \/ uses[a] < uses[b]
            \/ uses[a] = uses[b] /\ Position(used, a) < Position(used, b)
      [] kind = "ttl" -> b \in putBack \/ Due(a) <= Due(b)
      [] OTHER -> TRUE

(* A write evicts what the policy promises: lru the key used longest ago,   *)
(* lfu the least used one and of those the one used longest ago, ttl the    *)
(* one that expires first (but for keys that were their own victim, whose   *)
(* deadline ttl has forgotten), also when one write evicts several keys.    *)
(* The key written is never evicted.  (enforceLimitsLocked.)                *)
EvictsInOrder ==
    [][\A a \in last'.evicted \cap DOMAIN shard.items :
          /\ a # last'.key
          /\ \A b \in DOMAIN shard'.items \ {last'.key} : Sooner(a, b)]_vars
=============================================================================
