----------------------------- MODULE Eviction -----------------------------
(***************************************************************************)
(* The eviction policies of internal/eviction, as operators on the state   *)
(* of a policy.  A policy only knows keys: Add, Access and Remove tell it  *)
(* what happens to a key, Note its deadline, and Evict picks a victim and  *)
(* forgets it.                                                             *)
(*                                                                         *)
(*   noeviction  the number of keys                                        *)
(*   lru, fifo   the list of keys, its front first                         *)
(*   random      the slice of keys and the index of each key in it         *)
(*   lfu         the frequency of each key, a list of keys per frequency,  *)
(*               and the lowest frequency (a lower bound, put right when   *)
(*               Evict finds no list for it)                               *)
(*   ttl         the deadline of each key and the heap of deadlines, in    *)
(*               which old deadlines stay until they are popped            *)
(*                                                                         *)
(* Evict is a set of outcomes: Go's random numbers, and which of two equal *)
(* deadlines the heap has on top, are not determined.                      *)
(***************************************************************************)
EXTENDS Integers, Sequences, FiniteSets, FiniteSetsExt, Functions, TLC

CONSTANTS
    Never       \* ttlNever, later than every deadline

Kinds == {"noeviction", "lru", "fifo", "random", "lfu", "ttl"}

NoKeys == <<>>      \* a map without keys

NewPolicy(kind) ==
    CASE kind = "noeviction" -> 0
      [] kind \in {"lru", "fifo"} -> <<>>
      [] kind = "random" -> [keys |-> <<>>, idx |-> NoKeys]
      [] kind = "lfu" -> [nodes |-> NoKeys, buckets |-> NoKeys, minFreq |-> 0]
      [] kind = "ttl" -> [eff |-> NoKeys, heap |-> {}]

Put(f, x, y) == (x :> y) @@ f

Drop(f, x) == Restrict(f, DOMAIN f \ {x})

Unlist(q, k) == SelectSeq(q, LAMBDA x : x # k)

Victim(k, p) == [ok |-> TRUE, key |-> k, pol |-> p]

NoVictim(p) == [ok |-> FALSE, key |-> "", pol |-> p]
-----------------------------------------------------------------------------
(* lru: the key used last is in front.                                      *)

LruAdd(q, k) == <<k>> \o Unlist(q, k)

LruAccess(q, k) == IF k \in Range(q) THEN LruAdd(q, k) ELSE q

LruEvict(q) ==
    IF q = <<>> THEN {NoVictim(q)}
    ELSE {Victim(q[Len(q)], SubSeq(q, 1, Len(q) - 1))}
-----------------------------------------------------------------------------
(* fifo: the key added first is in front.                                   *)

FifoAdd(q, k) == IF k \in Range(q) THEN q ELSE Append(q, k)

FifoEvict(q) ==
    IF q = <<>> THEN {NoVictim(q)} ELSE {Victim(Head(q), Tail(q))}
-----------------------------------------------------------------------------
(* random: a key is removed by moving the last key of the slice into its    *)
(* place.  Indices count from 1 here.                                       *)

RandomAdd(p, k) ==
    IF k \in DOMAIN p.idx THEN p
    ELSE [keys |-> Append(p.keys, k), idx |-> Put(p.idx, k, Len(p.keys) + 1)]

RandomRemove(p, k) ==
    IF k \notin DOMAIN p.idx THEN p
    ELSE LET i == p.idx[k]
             last == Len(p.keys)
             moved == p.keys[last]
         IN  [keys |-> SubSeq([p.keys EXCEPT ![i] = moved], 1, last - 1),
              idx |-> Drop(IF i # last THEN Put(p.idx, moved, i) ELSE p.idx, k)]

RandomEvict(p) ==
    IF p.keys = <<>> THEN {NoVictim(p)}
    ELSE {Victim(k, RandomRemove(p, k)) : k \in Range(p.keys)}
-----------------------------------------------------------------------------
(* lfu.                                                                     *)

Bucket(b, f) == IF f \in DOMAIN b THEN b[f] ELSE <<>>

PushBack(b, f, k) == Put(b, f, Append(Bucket(b, f), k))

Unlink(b, f, k) ==
    LET q == Unlist(b[f], k)
    IN  IF q = <<>> THEN Drop(b, f) ELSE Put(b, f, q)

LfuAccess(p, k) ==
    IF k \notin DOMAIN p.nodes THEN p
    ELSE LET old == p.nodes[k]
             b == Unlink(p.buckets, old, k)
         IN  [nodes |-> Put(p.nodes, k, old + 1),
              buckets |-> PushBack(b, old + 1, k),
              minFreq |-> IF old \notin DOMAIN b /\ p.minFreq = old
                          THEN old + 1 ELSE p.minFreq]

LfuAdd(p, k) ==
    IF k \in DOMAIN p.nodes THEN LfuAccess(p, k)
    ELSE [nodes |-> Put(p.nodes, k, 1),
          buckets |-> PushBack(p.buckets, 1, k),
          minFreq |-> 1]

LfuRemove(p, k) ==
    IF k \notin DOMAIN p.nodes THEN p
    ELSE [p EXCEPT !.nodes = Drop(@, k),
                   !.buckets = Unlink(@, p.nodes[k], k)]

\* recomputeMinFreq
MinFreq(b) == IF DOMAIN b = {} THEN 0 ELSE Min(DOMAIN b)

\* Faulty: of the least used keys, the one used last goes.
LfuEvictLast(p) ==
    LET f == IF p.minFreq \in DOMAIN p.buckets THEN p.minFreq
             ELSE MinFreq(p.buckets)
    IN  IF DOMAIN p.nodes = {} THEN {NoVictim(p)}
        ELSE IF f \notin DOMAIN p.buckets THEN {NoVictim([p EXCEPT !.minFreq = f])}
        ELSE LET k == p.buckets[f][Len(p.buckets[f])]
             IN  {Victim(k, [nodes |-> Drop(p.nodes, k),
                             buckets |-> Unlink(p.buckets, f, k),
                             minFreq |-> f])}

LfuEvict(p) ==
    LET f == IF p.minFreq \in DOMAIN p.buckets THEN p.minFreq
             ELSE MinFreq(p.buckets)
    IN  IF DOMAIN p.nodes = {} THEN {NoVictim(p)}
        ELSE IF f \notin DOMAIN p.buckets THEN {NoVictim([p EXCEPT !.minFreq = f])}
        ELSE LET k == Head(p.buckets[f])
             IN  {Victim(k, [nodes |-> Drop(p.nodes, k),
                             buckets |-> Unlink(p.buckets, f, k),
                             minFreq |-> f])}
-----------------------------------------------------------------------------
(* ttl.  The heap is the set of its items: an item that is in it twice, or  *)
(* whose deadline is not the key's any more, is skipped when it is popped.  *)

TtlNote(p, k, e) ==
    LET d == IF e = 0 THEN Never ELSE e
    IN  [eff |-> Put(p.eff, k, d), heap |-> p.heap \cup {<<k, d>>}]

TtlAdd(p, k) == IF k \in DOMAIN p.eff THEN p ELSE TtlNote(p, k, 0)

TtlRemove(p, k) == [p EXCEPT !.eff = Drop(@, k)]

TtlEvict(p) ==
    LET valid == {h \in p.heap : h[1] \in DOMAIN p.eff /\ p.eff[h[1]] = h[2]}
        first == {h \in valid : \A g \in valid : h[2] <= g[2]}
    IN  IF valid = {} THEN {NoVictim([p EXCEPT !.heap = {}])}
        ELSE {Victim(h[1], [eff |-> Drop(p.eff, h[1]),
                            heap |-> {g \in p.heap : g[2] >= h[2]} \ {h}]) :
                  h \in first}
-----------------------------------------------------------------------------
(* The interface Policy, and ExpiryAware, which only ttl implements.        *)

PolicyAdd(kind, p, k) ==
    CASE kind = "noeviction" -> p + 1
      [] kind = "lru" -> LruAdd(p, k)
      [] kind = "fifo" -> FifoAdd(p, k)
      [] kind = "random" -> RandomAdd(p, k)
      [] kind = "lfu" -> LfuAdd(p, k)
      [] kind = "ttl" -> TtlAdd(p, k)

PolicyAccess(kind, p, k) ==
    CASE kind = "lru" -> LruAccess(p, k)
      [] kind = "lfu" -> LfuAccess(p, k)
      [] OTHER -> p

PolicyRemove(kind, p, k) ==
    CASE kind = "noeviction" -> IF p > 0 THEN p - 1 ELSE p
      [] kind \in {"lru", "fifo"} -> Unlist(p, k)
      [] kind = "random" -> RandomRemove(p, k)
      [] kind = "lfu" -> LfuRemove(p, k)
      [] kind = "ttl" -> TtlRemove(p, k)

PolicyNote(kind, p, k, e) == IF kind = "ttl" THEN TtlNote(p, k, e) ELSE p

PolicyEvict(kind, p) ==
    CASE kind = "noeviction" -> {NoVictim(p)}
      [] kind = "lru" -> LruEvict(p)
      [] kind = "fifo" -> FifoEvict(p)
      [] kind = "random" -> RandomEvict(p)
      [] kind = "lfu" -> LfuEvict(p)
      [] kind = "ttl" -> TtlEvict(p)

\* Whether the policy knows exactly the keys S, and its parts agree.
Tracks(kind, p, S) ==
    CASE kind = "noeviction" -> p = Cardinality(S)
      [] kind \in {"lru", "fifo"} -> Range(p) = S /\ Len(p) = Cardinality(S)
      [] kind = "random" ->
            /\ DOMAIN p.idx = S
            /\ Len(p.keys) = Cardinality(S)
            /\ \A k \in S : p.idx[k] \in DOMAIN p.keys /\ p.keys[p.idx[k]] = k
      [] kind = "lfu" ->
            /\ DOMAIN p.nodes = S
            /\ \A f \in DOMAIN p.buckets :
                  p.buckets[f] # <<>> /\ IsInjective(p.buckets[f])
            /\ \A k \in S : \A f \in DOMAIN p.buckets :
                  k \in Range(p.buckets[f]) <=> f = p.nodes[k]
            /\ \A f \in DOMAIN p.buckets : Range(p.buckets[f]) \subseteq S
            /\ \A f \in Range(p.nodes) : f \in DOMAIN p.buckets
      [] kind = "ttl" ->
            /\ DOMAIN p.eff = S
            /\ \A k \in S : <<k, p.eff[k]>> \in p.heap
=============================================================================
