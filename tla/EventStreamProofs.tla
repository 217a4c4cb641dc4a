------------------------- MODULE EventStreamProofs --------------------------
(* The theorems about EventStream, for every choice of its constants: type  *)
(* correctness, that a follower converges, that Close leaves no gap, and     *)
(* that Sync is a barrier. Before them, what a run of events does to a       *)
(* follower, and that the events an operation queues describe what it did.   *)
EXTENDS EventStream, Counting, TLAPS

\* The provers have 20 seconds for a leaf, unless it says otherwise.
USE ZenonT(20)

\* Sequences with the same elements are equal.
LEMMA SeqEqual ==
  ASSUME NEW S, NEW s \in Seq(S), NEW t \in Seq(S),
         Len(s) = Len(t), \A i \in 1..Len(s) : s[i] = t[i]
  PROVE  s = t
<1>1. s \in [1..Len(s) -> S] /\ t \in [1..Len(t) -> S]
  BY SMTT(20)
<1> QED
  BY <1>1, SMTT(20)
-----------------------------------------------------------------------------
(* Runs of events.                                                          *)

Slot == Entry \cup {NoEntry}

\* What one event does to the slot e of key k of a follower.
Effect(ev, k, e) ==
    CASE ev.op = "set" -> IF ev.key = k
                          THEN [value |-> ev.value, expireAt |-> ev.expireAt]
                          ELSE e
      [] ev.op = "del" -> IF ev.key = k THEN NoEntry ELSE e
      [] ev.op = "expire" -> IF ev.key = k /\ e # NoEntry
                             THEN [value |-> e.value, expireAt |-> ev.expireAt]
                             ELSE e
      [] ev.op = "flush" -> NoEntry
      [] OTHER -> e

\* Applied in order, the events q take the slot of key k from x to y: g[i] is
\* the slot before the i-th of them.
SlotRun(k, x, q, y) ==
    \E g \in [1..(Len(q) + 1) -> Slot] :
        /\ g[1] = x
        /\ g[Len(q) + 1] = y
        /\ \A i \in 1..Len(q) : g[i + 1] = Effect(q[i], k, g[i])

Event == Mutation \cup Ack
-----------------------------------------------------------------------------
(* Apply acts on each key by itself.                                        *)


LEMMA EffectType ==
  ASSUME NEW ev \in Event, NEW k \in Key, NEW e \in Slot
  PROVE  Effect(ev, k, e) \in Slot
  BY DEF Event, Effect, Slot, Mutation, Ack, Entry

LEMMA ApplyType ==
  ASSUME NEW ev \in Event, NEW st \in Store
  PROVE  Apply(ev, st) \in Store
  BY DEF Event, Apply, EmptyStore, Store, Mutation, Ack, Entry

LEMMA ApplyIsPointwise ==
  ASSUME NEW ev \in Event, NEW st \in Store, NEW k \in Key
  PROVE  Apply(ev, st)[k] = Effect(ev, k, st[k])
  BY DEF Event, Apply, Effect, EmptyStore, Store, Mutation, Ack, Entry
-----------------------------------------------------------------------------
(* Runs of events on one slot.                                              *)

LEMMA RunOfNothing ==
  ASSUME NEW k \in Key, NEW x \in Slot
  PROVE  SlotRun(k, x, <<>>, x)
<1> DEFINE g == [i \in 1..(0 + 1) |-> x]
<1>1. /\ Len(<<>>) = 0
      /\ g \in [1..(0 + 1) -> Slot] /\ g[1] = x /\ g[0 + 1] = x
  BY SMTT(20)
<1>2. \A i \in 1..0 : FALSE
  BY SMTT(20)
<1> HIDE DEF g
<1> QED
  BY <1>1, <1>2 DEF SlotRun

LEMMA RunOfOne ==
  ASSUME NEW k \in Key, NEW x \in Slot, NEW ev \in Event
  PROVE  SlotRun(k, x, <<ev>>, Effect(ev, k, x))
<1> DEFINE g == [i \in 1..(1 + 1) |-> IF i = 1 THEN x ELSE Effect(ev, k, x)]
<1>1. Effect(ev, k, x) \in Slot
  BY EffectType
<1>2. /\ Len(<<ev>>) = 1
      /\ <<ev>>[1] = ev
      /\ g \in [1..(1 + 1) -> Slot]
      /\ g[1] = x
      /\ g[1 + 1] = Effect(ev, k, x)
  BY <1>1, SMTT(20)
<1>3. \A i \in 1..1 : g[i + 1] = Effect(<<ev>>[i], k, g[i])
  BY <1>2, SMTT(20)
<1> HIDE DEF g
<1> QED
  BY <1>2, <1>3 DEF SlotRun

\* Two runs one after the other.
LEMMA RunConcat ==
  ASSUME NEW k \in Key, NEW x \in Slot, NEW y \in Slot, NEW z \in Slot,
         NEW a \in Seq(Event), NEW b \in Seq(Event),
         SlotRun(k, x, a, y), SlotRun(k, y, b, z)
  PROVE  SlotRun(k, x, a \o b, z)
<1> DEFINE m == Len(a)
           n == Len(b)
<1>1. PICK g \in [1..(m + 1) -> Slot] :
         /\ g[1] = x
         /\ g[m + 1] = y
         /\ \A i \in 1..m : g[i + 1] = Effect(a[i], k, g[i])
  BY DEF SlotRun
<1>2. PICK h \in [1..(n + 1) -> Slot] :
         /\ h[1] = y
         /\ h[n + 1] = z
         /\ \A i \in 1..n : h[i + 1] = Effect(b[i], k, h[i])
  BY DEF SlotRun
<1>3. /\ m \in Nat /\ n \in Nat
      /\ Len(a \o b) = m + n
      /\ \A i \in 1..(m + n) :
            (a \o b)[i] = IF i <= m THEN a[i] ELSE b[i - m]
  BY SMTT(20)
<1> DEFINE f == [i \in 1..(m + n + 1) |-> IF i <= m THEN g[i] ELSE h[i - m]]
<1> HIDE DEF m, n
<1>4. f \in [1..(m + n + 1) -> Slot]
  <2>1. ASSUME NEW i \in 1..(m + n + 1)
        PROVE  (IF i <= m THEN g[i] ELSE h[i - m]) \in Slot
    <3>1. (i <= m => i \in 1..(m + 1)) /\ (~(i <= m) => i - m \in 1..(n + 1))
      BY <1>3, SMTT(60)
    <3> QED
      BY <3>1
  <2> QED
    BY <2>1
<1>5. f[1] = x
  <2>1. 1 \in 1..(m + n + 1) /\ (m >= 1 \/ m = 0)
    BY <1>3, SMTT(20)
  <2>2. CASE m >= 1
    BY <2>1, <2>2, <1>1, <1>3
  <2>3. CASE m = 0
    <3>1. ~(1 <= m) /\ 1 - m = 1 /\ m + 1 = 1
      BY <2>3, SMTT(20)
    <3> QED
      BY <3>1, <2>1, <1>1, <1>2
  <2> QED
    BY <2>1, <2>2, <2>3
<1>6. f[m + n + 1] = z
  <2>1. /\ m + n + 1 \in 1..(m + n + 1) /\ ~(m + n + 1 <= m)
        /\ (m + n + 1) - m = n + 1
    BY <1>3, SMTT(20)
  <2> QED
    BY <2>1, <1>2
<1>7. ASSUME NEW i \in 1..(m + n)
      PROVE  f[i + 1] = Effect((a \o b)[i], k, f[i])
  <2>0. i \in 1..(m + n + 1) /\ i + 1 \in 1..(m + n + 1)
    BY <1>3, SMTT(20)
  <2>1. CASE i < m
    <3>1. i \in 1..m /\ i <= m /\ i + 1 <= m
      BY <2>1, <1>3, SMTT(20)
    <3>2. f[i] = g[i] /\ f[i + 1] = g[i + 1] /\ (a \o b)[i] = a[i]
      BY <2>0, <3>1, <1>3
    <3> QED
      BY <3>1, <3>2, <1>1
  <2>2. CASE i = m
    <3>1. i \in 1..m /\ i <= m /\ ~(i + 1 <= m) /\ (i + 1) - m = 1
      BY <2>2, <1>3, SMTT(20)
    <3>2. f[i] = g[i] /\ f[i + 1] = h[1] /\ (a \o b)[i] = a[i]
      BY <2>0, <3>1, <1>3
    <3> QED
      BY <3>1, <3>2, <2>2, <1>1, <1>2
  <2>3. CASE i > m
    <3>1. /\ i - m \in 1..n /\ ~(i <= m) /\ ~(i + 1 <= m)
          /\ (i + 1) - m = (i - m) + 1
      BY <2>3, <1>3, SMTT(20)
    <3>2. /\ f[i] = h[i - m] /\ f[i + 1] = h[(i - m) + 1]
          /\ (a \o b)[i] = b[i - m]
      BY <2>0, <3>1, <1>3
    <3> QED
      BY <3>1, <3>2, <1>2
  <2>4. i < m \/ i = m \/ i > m
    BY <1>3, SMTT(20)
  <2> QED
    BY <2>1, <2>2, <2>3, <2>4
<1> HIDE DEF f
<1> QED
  BY <1>3, <1>4, <1>5, <1>6, <1>7 DEF SlotRun

\* The first event of a run is applied.
LEMMA RunTail ==
  ASSUME NEW k \in Key, NEW x \in Slot, NEW y \in Slot,
         NEW q \in Seq(Event), q # <<>>, SlotRun(k, x, q, y)
  PROVE  SlotRun(k, Effect(Head(q), k, x), Tail(q), y)
<1>1. PICK g \in [1..(Len(q) + 1) -> Slot] :
         /\ g[1] = x
         /\ g[Len(q) + 1] = y
         /\ \A i \in 1..Len(q) : g[i + 1] = Effect(q[i], k, g[i])
  BY DEF SlotRun
<1> DEFINE n == Len(Tail(q))
           f == [i \in 1..(n + 1) |-> g[i + 1]]
<1>2. /\ n \in Nat /\ Len(q) = n + 1
      /\ Head(q) = q[1]
      /\ \A i \in 1..n : Tail(q)[i] = q[i + 1]
  BY SMTT(20)
<1> HIDE DEF n
<1>3. f \in [1..(n + 1) -> Slot] /\ f[1] = g[1 + 1] /\ f[n + 1] = y
  <2>1. \A i \in 1..(n + 1) : i + 1 \in 1..(Len(q) + 1)
    BY <1>2, SMTT(20)
  <2>2. 1 \in 1..(n + 1) /\ n + 1 \in 1..(n + 1)
    BY <1>2, SMTT(20)
  <2> QED
    BY <2>1, <2>2, <1>1, <1>2
<1>4. g[1 + 1] = Effect(Head(q), k, x)
  <2>1. 1 \in 1..Len(q)
    BY <1>2, SMTT(20)
  <2> QED
    BY <2>1, <1>1, <1>2
<1>5. ASSUME NEW i \in 1..n
      PROVE  f[i + 1] = Effect(Tail(q)[i], k, f[i])
  <2>1. /\ i \in 1..(n + 1) /\ i + 1 \in 1..(n + 1)
        /\ i + 1 \in 1..Len(q)
    BY <1>2, SMTT(20)
  <2>2. f[i + 1] = g[(i + 1) + 1] /\ f[i] = g[i + 1]
    BY <2>1
  <2> QED
    BY <2>1, <2>2, <1>1, <1>2
<1> HIDE DEF f
<1> QED
  BY <1>3, <1>4, <1>5 DEF SlotRun, n

\* An event that leaves the slot alone may be put anywhere into a run.
LEMMA RunInsert ==
  ASSUME NEW k \in Key, NEW x \in Slot, NEW y \in Slot,
         NEW a \in Seq(Event), NEW b \in Seq(Event), NEW ev \in Event,
         \A e \in Slot : Effect(ev, k, e) = e,
         SlotRun(k, x, a \o b, y)
  PROVE  SlotRun(k, x, Append(a, ev) \o b, y)
<1> DEFINE m == Len(a)
           n == Len(b)
           q == Append(a, ev) \o b
<1>1. /\ m \in Nat /\ n \in Nat
      /\ Len(a \o b) = m + n
      /\ \A i \in 1..(m + n) :
            (a \o b)[i] = IF i <= m THEN a[i] ELSE b[i - m]
  BY SMTT(20)
<1>2. /\ Append(a, ev) \in Seq(Event) /\ Len(Append(a, ev)) = m + 1
      /\ \A i \in 1..m : Append(a, ev)[i] = a[i]
      /\ Append(a, ev)[m + 1] = ev
  BY SMTT(20)
<1>3. /\ Len(q) = m + 1 + n
      /\ \A i \in 1..(m + 1 + n) :
            q[i] = IF i <= m + 1 THEN Append(a, ev)[i] ELSE b[i - (m + 1)]
  BY <1>2, SMTT(20)
<1>4. PICK g \in [1..(m + n + 1) -> Slot] :
         /\ g[1] = x
         /\ g[m + n + 1] = y
         /\ \A i \in 1..(m + n) : g[i + 1] = Effect((a \o b)[i], k, g[i])
  BY <1>1 DEF SlotRun
<1> DEFINE N == m + 1 + n
           f == [i \in 1..(N + 1) |-> IF i <= m + 1 THEN g[i] ELSE g[i - 1]]
<1> HIDE DEF m, n, q
<1>5. f \in [1..(N + 1) -> Slot] /\ f[1] = x /\ f[N + 1] = y
  <2>1. f[1] = x
    <3>1. 1 \in 1..(N + 1) /\ 1 <= m + 1
      BY <1>1, SMTT(20)
    <3> QED
      BY <3>1, <1>4
  <2>2. /\ N + 1 \in 1..(N + 1) /\ ~(N + 1 <= m + 1)
        /\ (N + 1) - 1 = m + n + 1
    BY <1>1, SMTT(20)
  <2>3. f[N + 1] = y
    BY <2>2, <1>4
  <2>4. ASSUME NEW i \in 1..(N + 1)
        PROVE  (IF i <= m + 1 THEN g[i] ELSE g[i - 1]) \in Slot
    <3>1. /\ i <= m + 1 => i \in 1..(m + n + 1)
          /\ ~(i <= m + 1) => i - 1 \in 1..(m + n + 1)
      BY <1>1, SMTT(20)
    <3> QED
      BY <3>1
  <2> QED
    BY <2>1, <2>3, <2>4
<1>6. ASSUME NEW i \in 1..N
      PROVE  f[i + 1] = Effect(q[i], k, f[i])
  <2>0. i \in 1..(N + 1) /\ i + 1 \in 1..(N + 1)
    BY <1>1, SMTT(20)
  <2>1. CASE i <= m
    <3>1. i \in 1..(m + n) /\ i \in 1..m /\ i <= m + 1 /\ i + 1 <= m + 1
      BY <2>1, <1>1, SMTT(20)
    <3>2. f[i + 1] = g[i + 1] /\ f[i] = g[i] /\ q[i] = (a \o b)[i]
      BY <2>0, <2>1, <3>1, <1>1, <1>2, <1>3
    <3> QED
      BY <3>1, <3>2, <1>4
  <2>2. CASE i = m + 1
    <3>1. /\ i <= m + 1 /\ ~(i + 1 <= m + 1) /\ (i + 1) - 1 = m + 1
          /\ m + 1 \in 1..(m + n + 1)
      BY <2>2, <1>1, SMTT(20)
    <3>2. f[i + 1] = g[m + 1] /\ f[i] = g[m + 1] /\ q[i] = ev
      BY <2>0, <2>2, <3>1, <1>2, <1>3
    <3>3. g[m + 1] \in Slot
      BY <3>1, <1>4
    <3> QED
      BY <3>2, <3>3
  <2>3. CASE i > m + 1
    <3>1. /\ i - 1 \in 1..(m + n) /\ ~(i <= m + 1) /\ ~(i + 1 <= m + 1)
          /\ (i + 1) - 1 = (i - 1) + 1 /\ ~(i - 1 <= m)
          /\ i - (m + 1) = (i - 1) - m
      BY <2>3, <1>1, SMTT(20)
    <3>2. f[i + 1] = g[(i - 1) + 1] /\ f[i] = g[i - 1]
      BY <2>0, <3>1
    <3>3. q[i] = b[i - (m + 1)]
      BY <3>1, <1>3
    <3>4. (a \o b)[i - 1] = b[(i - 1) - m]
      BY <3>1, <1>1
    <3> QED
      BY <3>1, <3>2, <3>3, <3>4, <1>4, ZenonT(60)
  <2>4. i <= m \/ i = m + 1 \/ i > m + 1
    BY <1>1, SMTT(20)
  <2> QED
    BY <2>1, <2>2, <2>3, <2>4
<1>7. Len(q) = N
  BY <1>3
<1> HIDE DEF f, N
<1>8. SlotRun(k, x, q, y)
  BY <1>5, <1>6, <1>7 DEF SlotRun
<1> QED
  BY <1>8 DEF q
-----------------------------------------------------------------------------
(* The events an operation sends describe what it did to its shard.         *)

LEMMA PermutationsType ==
  ASSUME Counting, NEW S \in SUBSET Key, NEW q \in SetToAllKPermutations(S)
  PROVE  q \in Seq(S)
<1>1. PICK T \in SUBSET S : q \in SetToSeqs(T)
  BY DEF SetToAllKPermutations
<1>2. IsFiniteSet(T)
  BY KeyAssumption DEF Counting, SubsetLaw
<1>3. Cardinality(T) \in Nat
  BY <1>2 DEF Counting, CardinalityLaw
<1>4. q \in [1..Cardinality(T) -> T]
  BY <1>1 DEF SetToSeqs
<1>5. q \in Seq(T)
  BY <1>3, <1>4, SMTT(20)
<1> QED
  BY <1>5, SMTT(20)

LEMMA DelEventsType ==
  ASSUME NEW q \in Seq(Key)
  PROVE  /\ DelEvents(q) \in Seq(Mutation)
         /\ Len(DelEvents(q)) = Len(q)
         /\ \A i \in 1..Len(q) : DelEvents(q)[i] = [op |-> "del", key |-> q[i]]
<1>1. Len(q) \in Nat /\ \A i \in 1..Len(q) : q[i] \in Key
  BY SMTT(20)
<1>2. \A i \in 1..Len(q) : [op |-> "del", key |-> q[i]] \in Mutation
  BY <1>1 DEF Mutation
<1>3. DelEvents(q) \in [1..Len(q) -> Mutation]
  BY <1>2 DEF DelEvents
<1>4. DelEvents(q) \in Seq(Mutation)
  BY <1>1, <1>3, SMTT(20)
<1>5. Len(DelEvents(q)) = Len(q)
  BY <1>1, <1>3, <1>4, SMTT(20)
<1> QED
  BY <1>4, <1>5 DEF DelEvents

LEMMA RunOfDels ==
  ASSUME NEW k \in Key, NEW x \in Slot, NEW q \in Seq(Key)
  PROVE  SlotRun(k, x, DelEvents(q), IF k \in Range(q) THEN NoEntry ELSE x)
<1> DEFINE n == Len(q)
           Gone(i) == \E j \in 1..n : j < i /\ q[j] = k
           g == [i \in 1..(n + 1) |-> IF Gone(i) THEN NoEntry ELSE x]
<1>1. /\ n \in Nat /\ Range(q) = {q[i] : i \in 1..n}
      /\ \A i \in 1..n : q[i] \in Key
  BY SMTT(20) DEF Range
<1>2. /\ Len(DelEvents(q)) = n
      /\ \A i \in 1..n : DelEvents(q)[i] = [op |-> "del", key |-> q[i]]
  BY DelEventsType
<1> HIDE DEF n
<1>3. g \in [1..(n + 1) -> Slot]
  BY DEF Slot
<1>4. g[1] = x
  <2>1. ~Gone(1) /\ 1 \in 1..(n + 1)
    BY <1>1, SMTT(20)
  <2> HIDE DEF Gone
  <2> QED
    BY <2>1
<1>5. g[n + 1] = IF k \in Range(q) THEN NoEntry ELSE x
  <2>1. Gone(n + 1) <=> k \in Range(q)
    BY <1>1, SMTT(20)
  <2>2. n + 1 \in 1..(n + 1)
    BY <1>1, SMTT(20)
  <2> HIDE DEF Gone
  <2> QED
    BY <2>1, <2>2
<1>6. ASSUME NEW i \in 1..n
      PROVE  g[i + 1] = Effect(DelEvents(q)[i], k, g[i])
  <2>1. Effect(DelEvents(q)[i], k, g[i])
            = IF q[i] = k THEN NoEntry ELSE g[i]
    BY <1>2, SMTT(20) DEF Effect
  <2>2. i \in 1..(n + 1) /\ i + 1 \in 1..(n + 1)
    BY <1>1, SMTT(20)
  <2>3. Gone(i + 1) <=> q[i] = k \/ Gone(i)
    <3>1. i < i + 1 /\ \A j \in 1..n : j < i + 1 <=> j = i \/ j < i
      BY <1>1, SMTT(20)
    <3> QED
      BY <3>1
  <2> HIDE DEF Gone
  <2> QED
    BY <2>1, <2>2, <2>3
<1> HIDE DEF g
<1> QED
  BY <1>2, <1>3, <1>4, <1>5, <1>6 DEF SlotRun

\* evs is what a goroutine that changes shard s from items to st has to send.
Describes(s, st, evs) ==
    /\ st \in Store
    /\ evs \in Seq(Mutation)
    /\ \A i \in 1..Len(evs) :
          evs[i].op # "flush" /\ ShardOf[evs[i].key] = s
    /\ \A k \in Key : SlotRun(k, items[k], evs, st[k])
    /\ \A k \in Key \ KeysOf(s) : st[k] = items[k]

\* A locked operation on some shard that sends events describing it.
DescribedStep ==
    \E s \in Shard, st \in Store, evs \in Seq(Mutation) :
        Describes(s, st, evs) /\ Locked(s, st, evs)

LEMMA DelsDescribe ==
  ASSUME TypeOK, NEW s \in Shard, NEW q \in Seq(KeysOf(s))
  PROVE  Describes(s, Without(items, Range(q)), DelEvents(q))
<1>1. q \in Seq(Key) /\ \A i \in 1..Len(q) : q[i] \in KeysOf(s)
  BY SMTT(20) DEF KeysOf
<1>2. /\ DelEvents(q) \in Seq(Mutation) /\ Len(DelEvents(q)) = Len(q)
      /\ \A i \in 1..Len(q) : DelEvents(q)[i] = [op |-> "del", key |-> q[i]]
  BY <1>1, DelEventsType
<1>3. Without(items, Range(q)) \in Store
  BY DEF TypeOK, Store, Without
<1>4. ASSUME NEW i \in 1..Len(DelEvents(q))
      PROVE  /\ DelEvents(q)[i].op # "flush"
             /\ ShardOf[DelEvents(q)[i].key] = s
  <2>1. DelEvents(q)[i] = [op |-> "del", key |-> q[i]] /\ q[i] \in KeysOf(s)
    BY <1>1, <1>2
  <2> QED
    BY <2>1, SMTT(20) DEF KeysOf
<1>5. ASSUME NEW k \in Key
      PROVE  SlotRun(k, items[k], DelEvents(q), Without(items, Range(q))[k])
  <2>1. items[k] \in Slot
    BY DEF TypeOK, Store, Slot
  <2>2. Without(items, Range(q))[k]
            = IF k \in Range(q) THEN NoEntry ELSE items[k]
    BY DEF Without
  <2> QED
    BY <1>1, <2>1, <2>2, RunOfDels
<1>6. ASSUME NEW k \in Key \ KeysOf(s)
      PROVE  Without(items, Range(q))[k] = items[k]
  <2>1. k \notin Range(q)
    BY <1>1, SMTT(20) DEF Range
  <2> QED
    BY <2>1 DEF Without
<1> QED
  BY <1>2, <1>3, <1>4, <1>5, <1>6 DEF Describes

LEMMA OneDescribes ==
  ASSUME TypeOK, NEW s \in Shard, NEW ev \in Mutation,
         ev.op # "flush", ShardOf[ev.key] = s
  PROVE  Describes(s, [k \in Key |-> Effect(ev, k, items[k])], <<ev>>)
<1> DEFINE st == [k \in Key |-> Effect(ev, k, items[k])]
<1>1. ev \in Event /\ \A k \in Key : items[k] \in Slot
  BY DEF Event, TypeOK, Store, Slot
<1>2. st \in Store
  BY <1>1, EffectType DEF Store, Slot
<1>3. <<ev>> \in Seq(Mutation) /\ Len(<<ev>>) = 1 /\ <<ev>>[1] = ev
  BY SMTT(20)
<1>4. \A i \in 1..1 : <<ev>>[i].op # "flush" /\ ShardOf[<<ev>>[i].key] = s
  BY <1>3, SMTT(20)
<1>5. \A k \in Key : SlotRun(k, items[k], <<ev>>, st[k])
  BY <1>1, RunOfOne
<1>6. \A k \in Key \ KeysOf(s) : st[k] = items[k]
  BY DEF KeysOf, Effect, Mutation
<1> QED
  BY <1>2, <1>3, <1>4, <1>5, <1>6 DEF Describes

\* An event of shard s and the deletes of the keys q of s describe the effect of
\* the event followed by the removal of q.
LEMMA EvictingDescribes ==
  ASSUME TypeOK, NEW s \in Shard, NEW q \in Seq(KeysOf(s)),
         NEW ev \in Mutation, ev.op # "flush", ShardOf[ev.key] = s,
         NEW written \in Store,
         \A x \in Key : written[x] = Effect(ev, x, items[x])
  PROVE  Describes(s, Without(written, Range(q)), <<ev>> \o DelEvents(q))
<1> DEFINE st == Without(written, Range(q))
           del == DelEvents(q)
           evs == <<ev>> \o del
<1>1. q \in Seq(Key) /\ Len(q) \in Nat
  BY SMTT(20) DEF KeysOf
<1>2. \A i \in 1..Len(q) : q[i] \in KeysOf(s)
  BY SMTT(20)
<1>3. st \in Store
  BY DEF Without, Store
<1>4. \A x \in Key : st[x] = IF x \in Range(q) THEN NoEntry ELSE written[x]
  BY DEF Without
<1>5. /\ del \in Seq(Mutation) /\ Len(del) = Len(q)
      /\ \A i \in 1..Len(q) : del[i] = [op |-> "del", key |-> q[i]]
  BY <1>1, DelEventsType
<1>6. \A x \in Key, e \in Slot :
         SlotRun(x, e, del, IF x \in Range(q) THEN NoEntry ELSE e)
  BY <1>1, RunOfDels
<1> HIDE DEF st, del
<1>7. <<ev>> \in Seq(Mutation) /\ Len(<<ev>>) = 1 /\ <<ev>>[1] = ev
  BY SMTT(20)
<1>8. /\ evs \in Seq(Mutation) /\ Len(evs) = 1 + Len(q)
      /\ \A i \in 1..(1 + Len(q)) :
            evs[i] = IF i <= 1 THEN <<ev>>[i] ELSE del[i - 1]
  BY <1>5, <1>7, SMTT(20)
<1>9. ASSUME NEW x \in Key
      PROVE  SlotRun(x, items[x], evs, st[x])
  <2>1. items[x] \in Slot /\ written[x] \in Slot /\ st[x] \in Slot
    BY <1>3 DEF TypeOK, Store, Slot
  <2>2. SlotRun(x, items[x], <<ev>>, written[x])
    BY <2>1, RunOfOne DEF Event
  <2>3. SlotRun(x, written[x], del, st[x])
    BY <2>1, <1>4, <1>6
  <2>4. <<ev>> \in Seq(Event) /\ del \in Seq(Event)
    BY <1>5, <1>7, SMTT(20) DEF Event
  <2> QED
    BY <2>1, <2>2, <2>3, <2>4, RunConcat
<1> HIDE DEF evs
<1>10. ASSUME NEW i \in 1..Len(evs)
       PROVE  evs[i].op # "flush" /\ ShardOf[evs[i].key] = s
  <2>1. CASE i = 1
    BY <2>1, <1>1, <1>7, <1>8, SMTT(20)
  <2>2. CASE i # 1
    <3>1. i - 1 \in 1..Len(q) /\ ~(i <= 1) /\ i \in 1..(1 + Len(q))
      BY <2>2, <1>1, <1>8, SMTT(20)
    <3>2. q[i - 1] \in KeysOf(s)
      BY <3>1, <1>2
    <3>3. evs[i] = del[i - 1]
      BY <3>1, <1>8
    <3>4. del[i - 1] = [op |-> "del", key |-> q[i - 1]]
      BY <3>1, <1>5
    <3> QED
      BY <3>2, <3>3, <3>4, SMTT(20) DEF KeysOf
  <2> QED
    BY <2>1, <2>2
<1>11. ASSUME NEW x \in Key \ KeysOf(s)
       PROVE  st[x] = items[x]
  <2>1. x \notin Range(q)
    BY <1>1, <1>2, SMTT(20) DEF Range
  <2>2. written[x] = items[x]
    <3>1. ev.key # x
      BY DEF KeysOf
    <3>2. Effect(ev, x, items[x]) = items[x]
      BY <3>1 DEF Effect
    <3> QED
      BY <3>2
  <2>3. st[x] = IF x \in Range(q) THEN NoEntry ELSE written[x]
    BY <1>4
  <2> QED
    BY <2>1, <2>2, <2>3
<1>12. Describes(s, st, evs)
  BY <1>3, <1>8, <1>9, <1>10, <1>11 DEF Describes
<1> QED
  BY <1>12 DEF st, evs, del

LEMMA SetDescribed ==
  ASSUME Counting, TypeOK, NEW k \in Key, NEW v \in Value, NEW ttl \in TTL,
         NEW t \in 0..now, Set(k, v, ttl, t)
  PROVE  DescribedStep
<1> DEFINE s == ShardOf[k]
           e == Deadline(t, ttl)
           ev == SetEvent(k, v, e)
           written == [items EXCEPT ![k] = [value |-> v, expireAt |-> e]]
<1>1. PICK q \in Evictions(k) :
         Locked(s, Without(written, Range(q)), <<ev>> \o DelEvents(q))
  BY DEF Set
<1>2. s \in Shard
  BY ShardAssumption
<1>3. q \in Seq(KeysOf(s))
  <2>1. CASE Capped
    <3> DEFINE S == {x \in KeysOf(s) : x # k /\ items[x] # NoEntry}
    <3>1. q \in SetToAllKPermutations(S) /\ S \in SUBSET Key
      BY <2>1 DEF Evictions, KeysOf
    <3>2. q \in Seq(S)
      BY <3>1, PermutationsType
    <3> QED
      BY <3>2, SMTT(20)
  <2>2. CASE ~Capped
    <3>1. q = <<>>
      BY <2>2 DEF Evictions
    <3> QED
      BY <3>1, SMTT(20)
  <2> QED
    BY <2>1, <2>2
<1>4. e \in Nat
  BY TTLAssumption, SMTT(20) DEF Deadline, TypeOK
<1> HIDE DEF e
<1>5. ev \in Mutation /\ ev.op # "flush" /\ ShardOf[ev.key] = s
  BY <1>4 DEF SetEvent, Mutation
<1>6. items \in [Key -> Entry \cup {NoEntry}]
  BY DEF TypeOK, Store
<1>7. written \in Store
  BY <1>4, <1>6 DEF Store, Entry
<1>8. \A x \in Key : written[x] = Effect(ev, x, items[x])
  BY <1>6 DEF SetEvent, Effect
<1> HIDE DEF s, ev, written
<1>9. Describes(s, Without(written, Range(q)), <<ev>> \o DelEvents(q))
  BY <1>2, <1>3, <1>5, <1>7, <1>8, EvictingDescribes
<1> QED
  BY <1>1, <1>2, <1>9 DEF Describes, DescribedStep

\* Delete, and every operation that finds its key expired.
LEMMA RemoveDescribed ==
  ASSUME TypeOK, NEW k \in Key,
         Locked(ShardOf[k], Without(items, {k}), DelEvents(<<k>>))
  PROVE  DescribedStep
<1>1. ShardOf[k] \in Shard /\ k \in KeysOf(ShardOf[k])
  BY ShardAssumption DEF KeysOf
<1>2. <<k>> \in Seq(KeysOf(ShardOf[k])) /\ Range(<<k>>) = {k}
  BY <1>1, SMTT(20) DEF Range
<1>3. Describes(ShardOf[k], Without(items, {k}), DelEvents(<<k>>))
  BY <1>1, <1>2, DelsDescribe
<1> QED
  BY <1>1, <1>3 DEF Describes, DescribedStep

LEMMA ExpireDescribed ==
  ASSUME TypeOK, NEW k \in Key, NEW ttl \in TTL, NEW t1 \in 0..now,
         NEW t2 \in 0..now, Expire(k, ttl, t1, t2)
  PROVE  DescribedStep
<1>1. CASE Expired(items[k], t2)
  BY <1>1, RemoveDescribed DEF Expire
<1>2. CASE ~Expired(items[k], t2)
  <2> DEFINE e == Deadline(t1, ttl)
             ev == [op |-> "expire", key |-> k, expireAt |-> e]
             st == [items EXCEPT ![k] = [value |-> items[k].value,
                                         expireAt |-> e]]
  <2>1. Locked(ShardOf[k], st, <<ev>>) /\ items[k] # NoEntry
    BY <1>2 DEF Expire
  <2>2. e \in Nat
    BY TTLAssumption, SMTT(20) DEF Deadline, TypeOK
  <2>3. ev \in Mutation /\ ev.op # "flush" /\ ev.key = k
    BY <2>2 DEF Mutation
  <2>4. st = [x \in Key |-> Effect(ev, x, items[x])]
    BY <2>1 DEF TypeOK, Store, Effect
  <2>5. ShardOf[k] \in Shard
    BY ShardAssumption
  <2> HIDE DEF ev, st
  <2>6. Describes(ShardOf[k], st, <<ev>>)
    BY <2>3, <2>4, <2>5, OneDescribes
  <2> QED
    BY <2>1, <2>5, <2>6 DEF Describes, DescribedStep
<1> QED
  BY <1>1, <1>2

LEMMA SweepDescribed ==
  ASSUME Counting, TypeOK, NEW s \in Shard, NEW t \in 0..now, Sweep(s, t)
  PROVE  DescribedStep
<1> DEFINE S == {k \in KeysOf(s) : Expired(items[k], t)}
<1>1. PICK q \in SetToAllKPermutations(S) :
         Locked(s, Without(items, Range(q)), DelEvents(q))
  BY DEF Sweep
<1>2. S \in SUBSET Key /\ S \subseteq KeysOf(s)
  BY DEF KeysOf
<1>3. q \in Seq(KeysOf(s))
  BY <1>2, PermutationsType, SMTT(20)
<1> HIDE DEF S
<1>4. Describes(s, Without(items, Range(q)), DelEvents(q))
  BY <1>3, DelsDescribe
<1> QED
  BY <1>1, <1>4 DEF Describes, DescribedStep

\* Every client step is a described step or the flush of a shard.
LEMMA ClientDescribed ==
  ASSUME Counting, TypeOK, Client
  PROVE  DescribedStep \/ FlushShard
<1>0. Clock \subseteq 0..now
  BY DEF Clock
<1>1. ASSUME NEW k \in Key, Delete(k) PROVE DescribedStep
  BY <1>1, RemoveDescribed DEF Delete
<1>2. ASSUME NEW k \in Key, NEW t \in 0..now, Read(k, t) PROVE DescribedStep
  BY <1>2, RemoveDescribed DEF Read
<1> QED
  BY <1>0, <1>1, <1>2, SetDescribed, ExpireDescribed, SweepDescribed DEF Client
-----------------------------------------------------------------------------
(* Sequences of events, taken apart at their heads.                         *)

LEMMA MoveHead ==
  ASSUME NEW a \in Seq(Event), NEW b \in Seq(Event), b # <<>>
  PROVE  Append(a, Head(b)) \o Tail(b) = a \o b
<1>1. /\ Head(b) \in Event /\ Tail(b) \in Seq(Event) /\ Len(Tail(b)) = Len(b) - 1
      /\ \A i \in 1..Len(Tail(b)) : Tail(b)[i] = b[i + 1]
      /\ Head(b) = b[1] /\ Len(b) \in Nat \ {0} /\ Len(a) \in Nat
  BY SMTT(20)
<1> DEFINE c == Append(a, Head(b))
           m == Len(a)
           n == Len(b)
<1>2. /\ c \in Seq(Event) /\ Len(c) = m + 1
      /\ \A i \in 1..m : c[i] = a[i]
      /\ c[m + 1] = Head(b)
  BY <1>1, SMTT(20)
<1> HIDE DEF c
<1>3. /\ c \o Tail(b) \in Seq(Event)
      /\ Len(c \o Tail(b)) = m + n
      /\ \A i \in 1..(m + n) : (c \o Tail(b))[i] =
            IF i <= m + 1 THEN c[i] ELSE Tail(b)[i - (m + 1)]
  <2>1. (m + 1) + (n - 1) = m + n
    BY <1>1, SMTT(20)
  <2>2. /\ c \o Tail(b) \in Seq(Event)
        /\ Len(c \o Tail(b)) = Len(c) + Len(Tail(b))
        /\ \A i \in 1..(Len(c) + Len(Tail(b))) : (c \o Tail(b))[i] =
              IF i <= Len(c) THEN c[i] ELSE Tail(b)[i - Len(c)]
    BY <1>1, <1>2, SMTT(60)
  <2>3. Len(c) = m + 1 /\ Len(Tail(b)) = n - 1
    BY <1>1, <1>2
  <2> HIDE DEF m, n
  <2> QED
    BY <2>1, <2>2, <2>3
<1>4. /\ a \o b \in Seq(Event)
      /\ Len(a \o b) = m + n
      /\ \A i \in 1..(m + n) : (a \o b)[i] = IF i <= m THEN a[i] ELSE b[i - m]
  BY SMTT(20)
<1> HIDE DEF m, n
<1>5. ASSUME NEW i \in 1..(m + n)
      PROVE  (c \o Tail(b))[i] = (a \o b)[i]
  <2>0. m \in Nat /\ n \in Nat
    BY <1>1 DEF m, n
  <2>1. CASE i <= m
    BY <2>0, <2>1, <1>2, <1>3, <1>4, SMTT(20)
  <2>2. CASE i = m + 1
    <3>1. ~(i <= m) /\ i <= m + 1 /\ i - m = 1
      BY <2>0, <2>2, SMTT(20)
    <3>2. (c \o Tail(b))[i] = c[i] /\ (a \o b)[i] = b[i - m]
      BY <3>1, <1>3, <1>4
    <3> QED
      BY <3>1, <3>2, <2>2, <1>1, <1>2
  <2>3. CASE i > m + 1
    <3>1. /\ i - (m + 1) \in 1..Len(Tail(b)) /\ (i - (m + 1)) + 1 = i - m
          /\ ~(i <= m + 1) /\ ~(i <= m)
      BY <2>0, <2>3, <1>1, SMTT(20) DEF n
    <3>2. Tail(b)[i - (m + 1)] = b[i - m]
      BY <3>1, <1>1
    <3> QED
      BY <3>1, <3>2, <1>3, <1>4
  <2>4. i <= m \/ i = m + 1 \/ i > m + 1
    BY <2>0, SMTT(20)
  <2> QED
    BY <2>1, <2>2, <2>3, <2>4
<1>6. c \o Tail(b) = a \o b
  BY <1>3, <1>4, <1>5, SeqEqual
<1> QED
  BY <1>6 DEF c

LEMMA TailOfConcat ==
  ASSUME NEW a \in Seq(Event), NEW b \in Seq(Event), a # <<>>
  PROVE  /\ a \o b # <<>>
         /\ Head(a \o b) = Head(a)
         /\ Tail(a \o b) = Tail(a) \o b
<1>1. /\ Tail(a) \in Seq(Event) /\ Len(Tail(a)) = Len(a) - 1
      /\ \A i \in 1..Len(Tail(a)) : Tail(a)[i] = a[i + 1]
      /\ Len(a) \in Nat \ {0} /\ Len(b) \in Nat
  BY SMTT(20)
<1> DEFINE q == a \o b
           m == Len(a)
           n == Len(b)
<1>2. /\ q \in Seq(Event) /\ Len(q) = m + n
      /\ \A i \in 1..(m + n) : q[i] = IF i <= m THEN a[i] ELSE b[i - m]
  BY SMTT(20)
<1>3. /\ Tail(a) \o b \in Seq(Event) /\ Len(Tail(a) \o b) = (m - 1) + n
      /\ \A i \in 1..((m - 1) + n) : (Tail(a) \o b)[i]
            = IF i <= m - 1 THEN Tail(a)[i] ELSE b[i - (m - 1)]
  BY <1>1, SMTT(20)
<1> HIDE DEF q
<1>4. q # <<>>
  BY <1>1, <1>2, SMTT(20)
<1>5. /\ Tail(q) \in Seq(Event) /\ Len(Tail(q)) = (m - 1) + n
      /\ \A i \in 1..Len(Tail(q)) : Tail(q)[i] = q[i + 1]
  <2>1. (m + n) - 1 = (m - 1) + n
    BY <1>1, SMTT(20)
  <2> QED
    BY <1>2, <1>4, <2>1, SMTT(20)
<1>6. Head(q) = Head(a)
  BY <1>1, <1>2, SMTT(20)
<1>7. ASSUME NEW i \in 1..((m - 1) + n)
      PROVE  Tail(q)[i] = (Tail(a) \o b)[i]
  <2>0. m \in Nat \ {0} /\ n \in Nat /\ Len(Tail(a)) = m - 1
    BY <1>1
  <2> HIDE DEF m, n
  <2>1. i + 1 \in 1..(m + n) /\ Tail(q)[i] = q[i + 1]
    BY <2>0, <1>5, SMTT(20)
  <2>2. CASE i <= m - 1
    <3>1. q[i + 1] = a[i + 1] /\ (Tail(a) \o b)[i] = Tail(a)[i]
      BY <2>0, <2>1, <2>2, <1>2, <1>3, SMTT(20)
    <3>2. i \in 1..Len(Tail(a))
      BY <2>0, <2>2, SMTT(20)
    <3> QED
      BY <3>1, <3>2, <2>1, <1>1
  <2>3. CASE ~(i <= m - 1)
    <3>1. ~(i + 1 <= m) /\ (i + 1) - m = i - (m - 1)
      BY <2>0, <2>3, SMTT(20)
    <3> QED
      BY <3>1, <2>1, <2>3, <1>2, <1>3
  <2> QED
    BY <2>2, <2>3
<1>8. Tail(q) = Tail(a) \o b
  BY <1>3, <1>5, <1>7, SeqEqual
<1> QED
  BY <1>4, <1>6, <1>8 DEF q
-----------------------------------------------------------------------------
(* Type correctness.                                                        *)

LEMMA InitTypeOK == Init => TypeOK
<1> SUFFICES ASSUME Init PROVE TypeOK
  OBVIOUS
<1> USE DEF Init
<1>1. items \in Store /\ applied \in Store
  BY DEF Store, EmptyStore
<1>2. pending \in [Shard -> Seq(Mutation)] /\ events \in Seq(Mutation \cup Ack)
  BY SMTT(20)
<1>3. /\ now \in Nat /\ fanned \in Nat /\ seq \in Nat
      /\ ops \in Nat /\ flushes \in Nat /\ syncs \in Nat
  OBVIOUS
<1>4. closed \in BOOLEAN /\ passed \in SUBSET Shard /\ dropped \in SUBSET Shard
  OBVIOUS
<1>5. /\ dispatcher \in {"running", "stopped"}
      /\ sync \in [Syncer -> {"idle", "send", "wait", "acked"}]
      /\ mark \in [Syncer -> Nat]
  OBVIOUS
<1>6. flushAt \in Shard
  BY ShardAssumption, SMTT(20) DEF Shard
<1> QED
  BY <1>1, <1>2, <1>3, <1>4, <1>5, <1>6 DEF TypeOK

LEMMA NextTypeOK ==
  ASSUME Counting
  PROVE  TypeOK /\ [Next]_vars => TypeOK'
<1> SUFFICES ASSUME TypeOK, [Next]_vars PROVE TypeOK'
  OBVIOUS
<1> USE DEF storeVars, streamVars, closeVars, syncVars, flushVars
<1>1. ASSUME DescribedStep PROVE TypeOK'
  BY <1>1, SMTT(20) DEF DescribedStep, Locked, TypeOK
<1>2. CASE FlushShard
  <2>1. items' \in Store
    BY <1>2 DEF FlushShard, TypeOK, Store, Without
  <2>2. pending' \in [Shard -> Seq(Mutation)]
    <3>1. <<[op |-> "flush"]>> \in Seq(Mutation)
      BY SMTT(20) DEF Mutation
    <3> QED
      BY <1>2, <3>1 DEF FlushShard, TypeOK
  <2>3. flushAt' \in Shard /\ flushes' \in Nat
    BY <1>2, ShardAssumption, SMTT(20) DEF FlushShard, TypeOK, Shard
  <2> QED
    BY <1>2, <2>1, <2>2, <2>3 DEF FlushShard, TypeOK
<1>3. ASSUME NEW s \in Shard, Emit(s) PROVE TypeOK'
  <2>1. pending[s] \in Seq(Mutation) /\ pending[s] # <<>>
    BY <1>3 DEF Emit, TypeOK
  <2>2. Head(pending[s]) \in Mutation /\ Tail(pending[s]) \in Seq(Mutation)
    BY <2>1, SMTT(20)
  <2>3. events' \in Seq(Mutation \cup Ack)
    BY <1>3, <2>2, SMTT(20) DEF Emit, TypeOK
  <2>4. pending' \in [Shard -> Seq(Mutation)]
    BY <1>3, <2>2 DEF Emit, TypeOK
  <2> QED
    BY <1>3, <2>3, <2>4 DEF Emit, TypeOK
<1>4. ASSUME NEW s \in Shard, Drop(s) PROVE TypeOK'
  <2>1. pending[s] \in Seq(Mutation) /\ pending[s] # <<>>
    BY <1>4 DEF Drop, TypeOK
  <2>2. pending' \in [Shard -> Seq(Mutation)]
    BY <1>4, <2>1, SMTT(20) DEF Drop, TypeOK
  <2> QED
    BY <1>4, <2>2 DEF Drop, TypeOK
<1>5. CASE Fan
  <2>1. Head(events) \in Event /\ Tail(events) \in Seq(Event)
    BY <1>5, SMTT(20) DEF Fan, TypeOK, Event
  <2>2. applied' \in Store
    BY <1>5, <2>1, ApplyType DEF Fan, TypeOK
  <2> QED
    BY <1>5, <2>1, <2>2, SMTT(20) DEF Fan, TypeOK, Event
<1>6. CASE StoreSeq
  BY <1>6 DEF StoreSeq, TypeOK
<1>7. CASE FanAck
  <2>1. Tail(events) \in Seq(Event)
    BY <1>7, SMTT(20) DEF FanAck, TypeOK, Event
  <2>2. sync' \in [Syncer -> {"idle", "send", "wait", "acked"}]
    BY <1>7 DEF FanAck, TypeOK
  <2> QED
    BY <1>7, <2>1, <2>2 DEF FanAck, TypeOK, Event
<1>8. CASE Stop
  BY <1>8 DEF Stop, TypeOK
<1>9. CASE Close
  BY <1>9 DEF Close, TypeOK
<1>10. ASSUME NEW y \in Syncer, SyncCall(y) PROVE TypeOK'
  <2>1. Sent \in Nat
    <3> DEFINE S == {i \in DOMAIN events : events[i].op # "ack"}
    <3>1. Len(events) \in Nat /\ DOMAIN events = 1..Len(events)
      BY SMTT(20) DEF TypeOK
    <3>2. IsFiniteSet(1..Len(events))
      BY <3>1, SMTT(20) DEF Counting, IntervalLaw
    <3>3. IsFiniteSet(S)
      BY <3>1, <3>2 DEF Counting, SubsetLaw
    <3>4. Cardinality(S) \in Nat
      BY <3>3 DEF Counting, CardinalityLaw
    <3> QED
      BY <3>4, SMTT(20) DEF Sent, TypeOK
  <2> QED
    BY <1>10, <2>1, SMTT(20) DEF SyncCall, TypeOK
<1>11. ASSUME NEW y \in Syncer, SyncSend(y) PROVE TypeOK'
  <2>1. [op |-> "ack", who |-> y] \in Mutation \cup Ack
    BY DEF Ack
  <2>2. events' \in Seq(Mutation \cup Ack)
    BY <1>11, <2>1, SMTT(20) DEF SyncSend, TypeOK
  <2> QED
    BY <1>11, <2>2 DEF SyncSend, TypeOK
<1>12. ASSUME NEW y \in Syncer, SyncReturn(y) PROVE TypeOK'
  BY <1>12 DEF SyncReturn, TypeOK
<1>13. CASE Tick
  BY <1>13, SMTT(20) DEF Tick, TypeOK
<1>14. CASE UNCHANGED vars
  BY <1>14 DEF vars, TypeOK
<1> QED
  BY <1>1, <1>2, <1>3, <1>4, <1>5, <1>6, <1>7, <1>8, <1>9, <1>10, <1>11,
     <1>12, <1>13, <1>14, ClientDescribed
  DEF Next, Sender, Dispatcher, SyncStep, Idle

-----------------------------------------------------------------------------
(* Convergence.  The inductive invariant says, key by key, that the events  *)
(* on their way take the follower's slot to the cache's slot.               *)

\* FlushAll is not used, or the cache has one shard.
NoSplitFlush == MaxFlushes = 0 \/ NumShards = 1

PendingLocal ==
    \A s \in Shard : \A i \in 1..Len(pending[s]) :
        IF pending[s][i].op = "flush" THEN NumShards = 1
        ELSE ShardOf[pending[s][i].key] = s

InFlight(k) == events \o pending[ShardOf[k]]

Explained == ~closed => \A k \in Key :
                            SlotRun(k, applied[k], InFlight(k), items[k])

ConvInv ==
    /\ TypeOK
    /\ MaxFlushes = 0 => flushAt = 1
    /\ PendingLocal
    /\ Explained

LEMMA InitConvInv == Init => ConvInv
<1> SUFFICES ASSUME Init PROVE ConvInv
  OBVIOUS
<1>1. TypeOK
  BY InitTypeOK
<1>2. flushAt = 1 /\ PendingLocal
  BY SMTT(20) DEF Init, PendingLocal
<1>3. ASSUME NEW k \in Key
      PROVE  SlotRun(k, applied[k], InFlight(k), items[k])
  <2>1. ShardOf[k] \in Shard
    BY ShardAssumption
  <2>2. events = <<>> /\ pending[ShardOf[k]] = <<>>
    BY <2>1 DEF Init
  <2>3. InFlight(k) = <<>>
    BY <2>2, SMTT(20) DEF InFlight
  <2>4. applied[k] = NoEntry /\ items[k] = NoEntry /\ NoEntry \in Slot
    BY DEF Init, EmptyStore, Slot
  <2> QED
    BY <2>3, <2>4, RunOfNothing
<1> QED
  BY <1>1, <1>2, <1>3 DEF ConvInv, Explained

\* The parts of the invariant that a step on one shard has to keep.
LEMMA DescribedKeepsConvInv ==
  ASSUME ConvInv, DescribedStep
  PROVE  PendingLocal' /\ Explained'
<1> USE DEF storeVars, streamVars, closeVars, syncVars, flushVars
<1>1. PICK s \in Shard, st \in Store, evs \in Seq(Mutation) :
         Describes(s, st, evs) /\ Locked(s, st, evs)
  BY DEF DescribedStep
<1>2. /\ pending[s] = <<>>
      /\ items' = st /\ pending' = [pending EXCEPT ![s] = evs]
      /\ UNCHANGED <<events, applied, closed>>
  BY <1>1 DEF Locked
<1>3. pending \in [Shard -> Seq(Mutation)]
  BY DEF ConvInv, TypeOK
<1>4. PendingLocal'
  <2> SUFFICES ASSUME NEW z \in Shard, NEW i \in 1..Len(pending'[z])
               PROVE  IF pending'[z][i].op = "flush" THEN NumShards = 1
                      ELSE ShardOf[pending'[z][i].key] = z
    BY DEF PendingLocal
  <2>1. CASE z = s
    BY <2>1, <1>1, <1>2, <1>3 DEF Describes
  <2>2. CASE z # s
    <3>1. pending'[z] = pending[z]
      BY <2>2, <1>2, <1>3
    <3> QED
      BY <3>1, SMTT(20) DEF ConvInv, PendingLocal
  <2> QED
    BY <2>1, <2>2
<1>5. ASSUME ~closed', NEW k \in Key
      PROVE  SlotRun(k, applied'[k], InFlight(k)', items'[k])
  <2>1. SlotRun(k, applied[k], InFlight(k), items[k])
    BY <1>2, <1>5 DEF ConvInv, Explained
  <2>2. SlotRun(k, items[k], evs, st[k])
    BY <1>1 DEF Describes
  <2>3. ShardOf[k] \in Shard
    BY ShardAssumption
  <2>4. /\ applied[k] \in Slot /\ items[k] \in Slot /\ st[k] \in Slot
        /\ events \in Seq(Event) /\ evs \in Seq(Event)
    BY SMTT(20) DEF ConvInv, TypeOK, Store, Slot, Event
  <2>5. CASE ShardOf[k] = s
    <3>1. InFlight(k) = events
      BY <2>4, <2>5, <1>2, SMTT(20) DEF InFlight
    <3>2. InFlight(k)' = events \o evs
      BY <2>5, <1>2, <1>3 DEF InFlight
    <3> QED
      BY <3>1, <3>2, <2>1, <2>2, <2>4, <1>2, RunConcat
  <2>6. CASE ShardOf[k] # s
    <3>1. InFlight(k)' = InFlight(k)
      BY <2>3, <2>6, <1>2, <1>3 DEF InFlight
    <3>2. st[k] = items[k]
      BY <2>6, <1>1 DEF Describes, KeysOf
    <3> QED
      BY <3>1, <3>2, <2>1, <1>2
  <2> QED
    BY <2>5, <2>6
<1> QED
  BY <1>4, <1>5 DEF Explained

\* FlushAll: its one event, on the only shard, clears every slot.
LEMMA FlushKeepsConvInv ==
  ASSUME ConvInv, NoSplitFlush, FlushShard
  PROVE  PendingLocal' /\ Explained' /\ NumShards = 1
<1> USE DEF storeVars, streamVars, closeVars, syncVars, flushVars
<1> DEFINE fl == [op |-> "flush"]
<1>1. NumShards = 1
  BY BoundAssumption, SMTT(20) DEF FlushShard, ConvInv, NoSplitFlush, TypeOK
<1>2. Shard = {1} /\ flushAt = 1
  BY <1>1, SMTT(20) DEF Shard, ConvInv, TypeOK
<1>3. \A k \in Key : ShardOf[k] = 1
  BY <1>2, ShardAssumption
<1>4. /\ pending[1] = <<>>
      /\ pending \in [Shard -> Seq(Mutation)]
      /\ pending' = [pending EXCEPT ![1] = <<fl>>]
      /\ items' = Without(items, KeysOf(1))
      /\ UNCHANGED <<events, applied, closed>>
  BY <1>2 DEF FlushShard, ConvInv, TypeOK
<1>5. fl \in Event /\ fl.op = "flush"
  BY DEF Event, Mutation
<1>6. pending'[1] = <<fl>> /\ Len(<<fl>>) = 1 /\ <<fl>>[1] = fl
  BY <1>2, <1>4
<1>7. PendingLocal'
  BY <1>1, <1>2, <1>5, <1>6, SMTT(20) DEF PendingLocal
<1>8. ASSUME ~closed', NEW k \in Key
      PROVE  SlotRun(k, applied'[k], InFlight(k)', items'[k])
  <2>1. /\ applied[k] \in Slot /\ items[k] \in Slot /\ NoEntry \in Slot
        /\ events \in Seq(Event)
    BY DEF ConvInv, TypeOK, Store, Slot, Event
  <2>2. InFlight(k) = events
    BY <2>1, <1>3, <1>4, SMTT(20) DEF InFlight
  <2>3. InFlight(k)' = events \o <<fl>>
    BY <1>3, <1>4, <1>6 DEF InFlight
  <2>4. SlotRun(k, applied[k], events, items[k])
    BY <2>2, <1>4, <1>8 DEF ConvInv, Explained
  <2>5. Effect(fl, k, items[k]) = NoEntry
    BY DEF Effect
  <2>6. SlotRun(k, items[k], <<fl>>, NoEntry)
    BY <2>1, <2>5, <1>5, RunOfOne
  <2>7. items'[k] = NoEntry
    BY <1>3, <1>4 DEF Without, KeysOf
  <2>8. <<fl>> \in Seq(Event)
    BY <1>5, SMTT(20)
  <2> HIDE DEF fl
  <2>9. SlotRun(k, applied[k], events \o <<fl>>, NoEntry)
    BY <2>1, <2>4, <2>6, <2>8, RunConcat
  <2> QED
    BY <2>3, <2>7, <2>9, <1>4
<1> QED
  BY <1>1, <1>7, <1>8 DEF Explained

\* emit: for the keys of the shard the event moves from the sender to the
\* channel; for every other key it is an event of another key.
LEMMA EmitKeepsConvInv ==
  ASSUME ConvInv, NEW s \in Shard, Emit(s)
  PROVE  PendingLocal' /\ Explained'
<1> USE DEF storeVars, streamVars, closeVars, syncVars, flushVars
<1> DEFINE q == pending[s]
           ev == Head(q)
<1>1. /\ pending \in [Shard -> Seq(Mutation)] /\ events \in Seq(Event)
      /\ q \in Seq(Mutation) /\ q # <<>>
      /\ pending' = [pending EXCEPT ![s] = Tail(q)]
      /\ events' = Append(events, ev)
      /\ UNCHANGED <<items, applied, closed>>
  BY DEF ConvInv, TypeOK, Emit, Event
<1>2. /\ ev \in Mutation /\ ev = q[1] /\ Tail(q) \in Seq(Mutation)
      /\ Len(Tail(q)) = Len(q) - 1 /\ Len(q) \in Nat \ {0}
      /\ \A i \in 1..Len(Tail(q)) : Tail(q)[i] = q[i + 1]
  BY <1>1, SMTT(20)
<1>3. PendingLocal'
  <2> SUFFICES ASSUME NEW z \in Shard, NEW i \in 1..Len(pending'[z])
               PROVE  IF pending'[z][i].op = "flush" THEN NumShards = 1
                      ELSE ShardOf[pending'[z][i].key] = z
    BY DEF PendingLocal
  <2>1. CASE z = s
    <3>1. pending'[z] = Tail(q)
      BY <2>1, <1>1
    <3>2. i + 1 \in 1..Len(q) /\ Tail(q)[i] = q[i + 1]
      BY <3>1, <1>2, SMTT(20)
    <3> QED
      BY <2>1, <3>1, <3>2, SMTT(20) DEF ConvInv, PendingLocal
  <2>2. CASE z # s
    <3>1. pending'[z] = pending[z]
      BY <2>2, <1>1
    <3> QED
      BY <3>1, SMTT(20) DEF ConvInv, PendingLocal
  <2> QED
    BY <2>1, <2>2
<1>4. IF ev.op = "flush" THEN NumShards = 1 ELSE ShardOf[ev.key] = s
  <2>1. 1 \in 1..Len(q)
    BY <1>2, SMTT(20)
  <2> QED
    BY <2>1, <1>2, SMTT(20) DEF ConvInv, PendingLocal
<1> HIDE DEF q, ev
<1>5. ASSUME ~closed', NEW k \in Key
      PROVE  SlotRun(k, applied'[k], InFlight(k)', items'[k])
  <2>1. /\ applied[k] \in Slot /\ items[k] \in Slot /\ ev \in Event
        /\ q \in Seq(Event) /\ Tail(q) \in Seq(Event)
    BY <1>1, <1>2, SMTT(20) DEF ConvInv, TypeOK, Store, Slot, Event
  <2>2. SlotRun(k, applied[k], InFlight(k), items[k])
    BY <1>1, <1>5 DEF ConvInv, Explained
  <2>3. ShardOf[k] \in Shard
    BY ShardAssumption
  <2>4. CASE ShardOf[k] = s
    <3>1. InFlight(k) = events \o q
      BY <2>4 DEF InFlight, q
    <3>2. InFlight(k)' = Append(events, ev) \o Tail(q)
      BY <2>4, <1>1 DEF InFlight
    <3>3. Append(events, ev) \o Tail(q) = events \o q
      BY <2>1, <1>1, MoveHead DEF ev
    <3> QED
      BY <3>1, <3>2, <3>3, <2>2, <1>1
  <2>5. CASE ShardOf[k] # s
    <3> DEFINE r == pending[ShardOf[k]]
    <3>1. r \in Seq(Event)
      BY <2>3, <1>1, SMTT(20) DEF Event
    <3>2. InFlight(k) = events \o r
      BY DEF InFlight
    <3>3. InFlight(k)' = Append(events, ev) \o r
      BY <2>3, <2>5, <1>1 DEF InFlight
    <3>4. ev.op # "flush" /\ ev.key # k
      <4>1. NumShards # 1
        BY <2>3, <2>5, SMTT(20) DEF Shard
      <4> QED
        BY <4>1, <2>5, <1>4
    <3>5. \A e \in Slot : Effect(ev, k, e) = e
      BY <3>4 DEF Effect
    <3> HIDE DEF r
    <3> QED
      BY <3>1, <3>2, <3>3, <3>5, <2>1, <2>2, <1>1, RunInsert, SMTT(20)
  <2> QED
    BY <2>4, <2>5
<1> QED
  BY <1>3, <1>5 DEF Explained

\* dispatch: the follower's slot takes the first step of the run.
LEMMA DispatchKeepsConvInv ==
  ASSUME ConvInv, Fan \/ FanAck
  PROVE  PendingLocal' /\ Explained'
<1> USE DEF storeVars, streamVars, closeVars, syncVars, flushVars
<1> DEFINE ev == Head(events)
<1>1. /\ events \in Seq(Event) /\ events # <<>> /\ events' = Tail(events)
      /\ applied \in Store /\ items \in Store
      /\ UNCHANGED <<items, pending, closed>>
  BY DEF ConvInv, TypeOK, Event, Fan, FanAck
<1>2. ev \in Event
  BY <1>1, SMTT(20)
<1>3. ASSUME NEW k \in Key
      PROVE  applied'[k] = Effect(ev, k, applied[k]) /\ applied[k] \in Slot
  <2>1. CASE Fan
    BY <2>1, <1>1, <1>2, ApplyIsPointwise DEF Fan, Store, Slot
  <2>2. CASE FanAck
    BY <2>2, <1>1 DEF FanAck, Effect, Store, Slot
  <2> QED
    BY <2>1, <2>2
<1> HIDE DEF ev
<1>4. PendingLocal'
  BY <1>1 DEF ConvInv, PendingLocal
<1>5. ASSUME ~closed', NEW k \in Key
      PROVE  SlotRun(k, applied'[k], InFlight(k)', items'[k])
  <2> DEFINE r == pending[ShardOf[k]]
  <2>1. r \in Seq(Event)
    BY ShardAssumption, SMTT(20) DEF ConvInv, TypeOK, Event
  <2>2. InFlight(k) = events \o r /\ InFlight(k)' = Tail(events) \o r
    BY <1>1 DEF InFlight
  <2>3. SlotRun(k, applied[k], events \o r, items[k])
    BY <2>2, <1>1, <1>5 DEF ConvInv, Explained
  <2> HIDE DEF r
  <2>4. /\ events \o r \in Seq(Event) /\ events \o r # <<>>
        /\ Head(events \o r) = ev /\ Tail(events \o r) = Tail(events) \o r
    BY <2>1, <1>1, TailOfConcat, SMTT(20) DEF ev
  <2>5. items[k] \in Slot
    BY <1>1 DEF Store, Slot
  <2>6. SlotRun(k, Effect(ev, k, applied[k]), Tail(events) \o r, items[k])
    BY <2>3, <2>4, <2>5, <1>3, RunTail
  <2> QED
    BY <2>2, <2>6, <1>1, <1>3
<1> QED
  BY <1>4, <1>5 DEF Explained

\* Sync: an ack in the channel changes no slot.
LEMMA AckKeepsConvInv ==
  ASSUME ConvInv, NEW y \in Syncer, SyncSend(y)
  PROVE  PendingLocal' /\ Explained'
<1> USE DEF storeVars, streamVars, closeVars, syncVars, flushVars
<1> DEFINE ev == [op |-> "ack", who |-> y]
<1>1. /\ events \in Seq(Event) /\ events' = Append(events, ev)
      /\ applied \in Store /\ items \in Store
      /\ UNCHANGED <<items, applied, pending, closed>>
  BY DEF ConvInv, TypeOK, Event, SyncSend
<1>2. ev \in Event /\ \A k \in Key : \A e \in Slot : Effect(ev, k, e) = e
  BY DEF Event, Ack, Effect
<1> HIDE DEF ev
<1>3. PendingLocal'
  BY <1>1 DEF ConvInv, PendingLocal
<1>4. ASSUME ~closed', NEW k \in Key
      PROVE  SlotRun(k, applied'[k], InFlight(k)', items'[k])
  <2> DEFINE r == pending[ShardOf[k]]
  <2>1. r \in Seq(Event) /\ applied[k] \in Slot /\ items[k] \in Slot
    BY ShardAssumption, SMTT(20) DEF ConvInv, TypeOK, Event, Store, Slot
  <2>2. InFlight(k) = events \o r /\ InFlight(k)' = Append(events, ev) \o r
    BY <1>1 DEF InFlight
  <2>3. SlotRun(k, applied[k], events \o r, items[k])
    BY <2>2, <1>1, <1>4 DEF ConvInv, Explained
  <2> HIDE DEF r
  <2>4. SlotRun(k, applied[k], Append(events, ev) \o r, items[k])
    BY <2>1, <2>3, <1>1, <1>2, RunInsert
  <2> QED
    BY <2>2, <2>4, <1>1
<1> QED
  BY <1>3, <1>4 DEF Explained

\* A step that leaves both stores and what is in flight alone, or that closes.
LEMMA OtherKeepsConvInv ==
  ASSUME ConvInv, UNCHANGED <<items, applied, events, pending>>, closed => closed'
  PROVE  PendingLocal' /\ Explained'
<1>1. PendingLocal'
  BY DEF ConvInv, PendingLocal
<1>2. ASSUME ~closed', NEW k \in Key
      PROVE  SlotRun(k, applied'[k], InFlight(k)', items'[k])
  <2>1. InFlight(k)' = InFlight(k)
    BY DEF InFlight
  <2> QED
    BY <2>1, <1>2 DEF ConvInv, Explained
<1> QED
  BY <1>1, <1>2 DEF Explained

\* emit after Close.
LEMMA DropKeepsConvInv ==
  ASSUME ConvInv, NEW s \in Shard, Drop(s)
  PROVE  PendingLocal' /\ Explained'
<1> DEFINE q == pending[s]
<1>1. /\ pending \in [Shard -> Seq(Mutation)]
      /\ q \in Seq(Mutation) /\ q # <<>>
      /\ pending' = [pending EXCEPT ![s] = Tail(q)]
      /\ closed'
  BY DEF ConvInv, TypeOK, Drop
<1>2. /\ Len(Tail(q)) = Len(q) - 1 /\ Len(q) \in Nat \ {0}
      /\ \A i \in 1..Len(Tail(q)) : Tail(q)[i] = q[i + 1]
  BY <1>1, SMTT(20)
<1>3. ASSUME NEW z \in Shard, NEW i \in 1..Len(pending'[z])
      PROVE  IF pending'[z][i].op = "flush" THEN NumShards = 1
             ELSE ShardOf[pending'[z][i].key] = z
  <2>1. CASE z = s
    <3>1. pending'[z] = Tail(q)
      BY <2>1, <1>1
    <3>2. i + 1 \in 1..Len(q) /\ Tail(q)[i] = q[i + 1]
      BY <3>1, <1>2, SMTT(20)
    <3> QED
      BY <2>1, <3>1, <3>2, SMTT(20) DEF ConvInv, PendingLocal
  <2>2. CASE z # s
    <3>1. pending'[z] = pending[z]
      BY <2>2, <1>1
    <3> QED
      BY <3>1, SMTT(20) DEF ConvInv, PendingLocal
  <2> QED
    BY <2>1, <2>2
<1> QED
  BY <1>1, <1>3 DEF PendingLocal, Explained

LEMMA NextConvInv ==
  ASSUME Counting, NoSplitFlush, ConvInv, [Next]_vars
  PROVE  ConvInv'
<1> USE DEF storeVars, streamVars, closeVars, syncVars, flushVars
<1>1. TypeOK /\ TypeOK'
  BY NextTypeOK DEF ConvInv
<1> DEFINE Kept == (MaxFlushes = 0 => flushAt' = 1) /\ PendingLocal' /\ Explained'
<1> SUFFICES Kept
  BY <1>1 DEF ConvInv
<1> HIDE DEF Kept
<1>2. CASE DescribedStep
  <2>1. flushAt' = flushAt
    BY <1>2 DEF DescribedStep, Locked
  <2> QED
    BY <1>2, <2>1, DescribedKeepsConvInv DEF ConvInv, Kept
<1>3. CASE FlushShard
  <2>1. NumShards = 1 /\ PendingLocal' /\ Explained'
    BY <1>3, FlushKeepsConvInv
  <2>2. flushAt' = 1
    BY <2>1, <1>1, SMTT(20) DEF TypeOK, Shard
  <2> QED
    BY <2>1, <2>2 DEF Kept
<1>4. ASSUME UNCHANGED <<items, applied, events, pending, flushAt>>,
             closed => closed'
      PROVE  Kept
  BY <1>4, OtherKeepsConvInv DEF ConvInv, Kept
<1>5. ASSUME NEW s \in Shard, Sender(s)
      PROVE  Kept
  <2>1. flushAt' = flushAt
    BY <1>5 DEF Sender, Emit, Drop
  <2> QED
    BY <1>5, <2>1, EmitKeepsConvInv, DropKeepsConvInv
    DEF Sender, ConvInv, Kept
<1>6. CASE Dispatcher
  <2>1. CASE Fan \/ FanAck
    <3>1. flushAt' = flushAt
      BY <2>1 DEF Fan, FanAck
    <3> QED
      BY <2>1, <3>1, DispatchKeepsConvInv DEF ConvInv, Kept
  <2>2. CASE StoreSeq \/ Stop
    <3>1. UNCHANGED <<items, applied, events, pending, flushAt, closed>>
      BY <2>2 DEF StoreSeq, Stop
    <3> QED
      BY <3>1, <1>4
  <2> QED
    BY <1>6, <2>1, <2>2 DEF Dispatcher
<1>7. ASSUME NEW y \in Syncer, SyncSend(y)
      PROVE  Kept
  <2>1. flushAt' = flushAt
    BY <1>7 DEF SyncSend
  <2> QED
    BY <1>7, <2>1, AckKeepsConvInv DEF ConvInv, Kept
<1>8. ASSUME NEW y \in Syncer, SyncCall(y) \/ SyncReturn(y)
      PROVE  Kept
  <2>1. UNCHANGED <<items, applied, events, pending, flushAt, closed>>
    BY <1>8 DEF SyncCall, SyncReturn
  <2> QED
    BY <2>1, <1>4
<1>9. CASE Close \/ Tick \/ UNCHANGED vars
  <2>1. UNCHANGED <<items, applied, events, pending, flushAt>>
    BY <1>9 DEF Close, Tick, vars
  <2>2. closed => closed'
    BY <1>9 DEF Close, Tick, vars
  <2> QED
    BY <2>1, <2>2, <1>4
<1> QED
  BY <1>1, <1>2, <1>3, <1>5, <1>6, <1>7, <1>8, <1>9, ClientDescribed
  DEF Next, SyncStep, Idle

LEMMA ConvInvConverges == ConvInv => Converged
<1> SUFFICES ASSUME ConvInv, Quiescent, ~closed PROVE applied = items
  BY DEF Converged
<1>1. applied \in Store /\ items \in Store
  BY DEF ConvInv, TypeOK
<1>2. ASSUME NEW k \in Key PROVE applied[k] = items[k]
  <2>1. events = <<>> /\ pending[ShardOf[k]] = <<>>
    BY ShardAssumption DEF Quiescent
  <2>2. InFlight(k) = <<>> /\ Len(<<>>) = 0
    BY <2>1, SMTT(20) DEF InFlight
  <2>3. SlotRun(k, applied[k], <<>>, items[k])
    BY <2>2 DEF ConvInv, Explained
  <2>4. PICK g \in [1..(0 + 1) -> Slot] : g[1] = applied[k] /\ g[0 + 1] = items[k]
    BY <2>2, <2>3 DEF SlotRun
  <2> QED
    BY <2>4, SMTT(20)
<1> QED
  BY <1>1, <1>2, SMTT(20) DEF Store

-----------------------------------------------------------------------------
(* Close.                                                                   *)

GapInv ==
    /\ TypeOK
    /\ \A s \in dropped : closed /\ s \notin passed

LEMMA NextGapInv ==
  ASSUME Counting
  PROVE  GapInv /\ [Next]_vars => GapInv'
<1> SUFFICES ASSUME GapInv, [Next]_vars PROVE GapInv'
  OBVIOUS
<1> USE DEF storeVars, streamVars, closeVars, syncVars, flushVars
<1>1. TypeOK'
  BY NextTypeOK DEF GapInv
<1> SUFFICES \A s \in dropped' : closed' /\ s \notin passed'
  BY <1>1 DEF GapInv
<1>2. CASE UNCHANGED <<closed, passed, dropped>>
  BY <1>2 DEF GapInv
<1>3. ASSUME NEW s \in Shard, Sender(s)
      PROVE  \A z \in dropped' : closed' /\ z \notin passed'
  <2>1. CASE Emit(s)
    BY <2>1 DEF Emit, GapInv
  <2>2. CASE Drop(s)
    BY <2>2 DEF Drop, GapInv
  <2> QED
    BY <1>3, <2>1, <2>2 DEF Sender
<1>4. CASE Close
  BY <1>4 DEF Close, GapInv
<1>5. CASE Client
  <2>1. CASE DescribedStep
    BY <2>1, <1>2 DEF DescribedStep, Locked
  <2>2. CASE FlushShard
    BY <2>2, <1>2 DEF FlushShard
  <2> QED
    BY <1>5, <2>1, <2>2, ClientDescribed DEF GapInv
<1>6. CASE Dispatcher
  BY <1>6, <1>2 DEF Dispatcher, Fan, StoreSeq, FanAck, Stop, GapInv
<1>7. ASSUME NEW y \in Syncer, SyncCall(y) \/ SyncStep(y)
      PROVE  UNCHANGED <<closed, passed, dropped>>
  BY <1>7 DEF SyncCall, SyncStep, SyncSend, SyncReturn
<1>8. CASE Tick \/ UNCHANGED vars
  BY <1>8, <1>2 DEF Tick, vars
<1> QED
  BY <1>2, <1>3, <1>4, <1>5, <1>6, <1>7, <1>8 DEF Next, Idle

\* The step sends an event of shard s to the channel and takes it off the
\* shard's own queue.
Gap(s) ==
    /\ Len(pending'[s]) < Len(pending[s])
    /\ Len(events') > Len(events)

LEMMA NextNoGap ==
  ASSUME Counting
  PROVE  GapInv /\ [Next]_vars => [\A s \in dropped : ~Gap(s)]_vars
<1> USE DEF storeVars, streamVars, closeVars, syncVars, flushVars, Gap
<1> SUFFICES ASSUME GapInv, Next, NEW s \in dropped, Gap(s) PROVE FALSE
  BY DEF vars
<1>1. s \in Shard /\ closed /\ s \notin passed
  BY DEF GapInv, TypeOK
<1>2. /\ events \in Seq(Event) /\ Len(events) \in Nat
      /\ pending \in [Shard -> Seq(Mutation)] /\ Len(pending[s]) \in Nat
  BY <1>1, SMTT(20) DEF GapInv, TypeOK, Event
<1>3. events' # events /\ pending'[s] # pending[s]
  BY <1>2, SMTT(20)
<1>4. ASSUME NEW z \in Shard, Sender(z) PROVE FALSE
  <2>1. CASE Drop(z)
    BY <2>1, <1>3 DEF Drop
  <2>2. CASE Emit(z)
    <3>1. z = s
      BY <2>2, <1>1, <1>2, <1>3 DEF Emit
    <3> QED
      BY <2>2, <3>1, <1>1 DEF Emit
  <2> QED
    BY <1>4, <2>1, <2>2 DEF Sender
<1>5. CASE Client
  <2>1. DescribedStep \/ FlushShard
    BY <1>5, ClientDescribed DEF GapInv
  <2>2. events' = events
    BY <2>1 DEF DescribedStep, Locked, FlushShard
  <2> QED
    BY <2>2, <1>3
<1>6. CASE Dispatcher
  BY <1>6, <1>3 DEF Dispatcher, Fan, StoreSeq, FanAck, Stop
<1>7. ASSUME NEW y \in Syncer, SyncCall(y) \/ SyncStep(y) PROVE FALSE
  BY <1>7, <1>3 DEF SyncCall, SyncStep, SyncSend, SyncReturn
<1>8. CASE Close \/ Tick \/ Idle
  BY <1>8, <1>3 DEF Close, Tick, Idle, vars
<1> QED
  BY <1>4, <1>5, <1>6, <1>7, <1>8 DEF Next
-----------------------------------------------------------------------------
(* Sync.                                                                    *)

\* The events among the first i of the channel.
NonAcks(q, i) == Cardinality({j \in 1..i : q[j].op # "ack"})

AcksOf(q, y) == {i \in 1..Len(q) : q[i].op = "ack" /\ q[i].who = y}

LEMMA CountedUpTo ==
  ASSUME Counting, NEW n \in Nat, NEW S \in SUBSET (1..n)
  PROVE  IsFiniteSet(S) /\ Cardinality(S) \in Nat
<1>1. IsFiniteSet(1..n)
  BY SMTT(20) DEF Counting, IntervalLaw
<1>2. IsFiniteSet(S)
  BY <1>1 DEF Counting, SubsetLaw
<1> QED
  BY <1>2 DEF Counting, CardinalityLaw

LEMMA NonAcksType ==
  ASSUME Counting, NEW q, NEW i \in Nat
  PROVE  NonAcks(q, i) \in Nat
<1>1. {j \in 1..i : q[j].op # "ack"} \in SUBSET (1..i)
  OBVIOUS
<1> QED
  BY <1>1, CountedUpTo DEF NonAcks

\* What is appended does not count for the positions before it.
LEMMA NonAcksAppend ==
  ASSUME Counting, NEW q \in Seq(Event), NEW ev \in Event
  PROVE  /\ \A i \in 0..Len(q) : NonAcks(Append(q, ev), i) = NonAcks(q, i)
         /\ NonAcks(Append(q, ev), Len(q) + 1) =
                NonAcks(q, Len(q)) + (IF ev.op = "ack" THEN 0 ELSE 1)
<1> DEFINE n == Len(q)
           r == Append(q, ev)
           S(i) == {j \in 1..i : q[j].op # "ack"}
           T(i) == {j \in 1..i : r[j].op # "ack"}
<1>1. n \in Nat /\ (\A i \in 1..n : r[i] = q[i]) /\ r[n + 1] = ev
  BY SMTT(20)
<1> HIDE DEF n, r
<1>2. \A i \in 0..n : T(i) = S(i)
  BY <1>1, SMTT(20)
<1>3. T(n + 1) = IF ev.op = "ack" THEN S(n) ELSE S(n) \cup {n + 1}
  <2>1. \A j : j \in 1..(n + 1) <=> (j \in 1..n \/ j = n + 1)
    BY <1>1, SMTT(20)
  <2> QED
    BY <2>1, <1>1
<1>4. S(n) \in SUBSET (1..n) /\ n + 1 \notin S(n)
  BY <1>1, SMTT(20)
<1>5. IsFiniteSet(S(n)) /\ Cardinality(S(n)) \in Nat
  BY <1>1, <1>4, CountedUpTo
<1>6. \A i : NonAcks(q, i) = Cardinality(S(i)) /\ NonAcks(r, i) = Cardinality(T(i))
  BY DEF NonAcks
<1> HIDE DEF S, T
<1>7. Cardinality(S(n) \cup {n + 1}) = Cardinality(S(n)) + 1
  BY <1>4, <1>5 DEF Counting, AddLaw
<1>8. \A i \in 0..n : NonAcks(r, i) = NonAcks(q, i)
  BY <1>2, <1>6
<1>9. NonAcks(r, n + 1) = NonAcks(q, n) + (IF ev.op = "ack" THEN 0 ELSE 1)
  BY <1>3, <1>5, <1>6, <1>7, SMTT(20)
<1> QED
  BY <1>8, <1>9 DEF n, r

\* The head of the channel counts for every position behind it.
LEMMA NonAcksTail ==
  ASSUME Counting, NEW q \in Seq(Event), q # <<>>, NEW i \in 0..Len(Tail(q))
  PROVE  NonAcks(q, i + 1) =
            NonAcks(Tail(q), i) + (IF Head(q).op = "ack" THEN 0 ELSE 1)
<1> DEFINE r == Tail(q)
           S == {j \in 1..(i + 1) : q[j].op # "ack"}
           T == {j \in 1..i : r[j].op # "ack"}
           U == {j \in 2..(i + 1) : q[j].op # "ack"}
           f == [j \in T |-> j + 1]
<1>1. /\ i \in Nat /\ Head(q) = q[1] /\ i <= Len(r)
      /\ \A j \in 1..Len(r) : r[j] = q[j + 1]
  BY SMTT(20)
<1>2. \A j \in 1..i : r[j] = q[j + 1]
  BY <1>1, SMTT(20)
<1> HIDE DEF r
<1>3. /\ f \in [T -> U]
      /\ \A a, b \in T : f[a] = f[b] => a = b
      /\ \A b \in U : \E a \in T : f[a] = b
  <2>1. \A j \in T : f[j] \in U
    BY <1>1, <1>2, SMTT(20)
  <2>2. \A j \in U : j - 1 \in T /\ f[j - 1] = j
    BY <1>1, <1>2, SMTT(20)
  <2>3. \A a, b \in T : f[a] = f[b] => a = b
    BY <1>1, SMTT(20)
  <2> HIDE DEF T, U
  <2>4. f \in [T -> U]
    BY <2>1
  <2> HIDE DEF f
  <2> QED
    BY <2>2, <2>3, <2>4
<1>4. IsFiniteSet(T) /\ Cardinality(T) \in Nat
  <2>1. T \in SUBSET (1..i)
    OBVIOUS
  <2> QED
    BY <1>1, <2>1, CountedUpTo
<1>5. S = (IF q[1].op = "ack" THEN U ELSE U \cup {1}) /\ 1 \notin U
  BY <1>1, SMTT(20)
<1>6. NonAcks(q, i + 1) = Cardinality(S) /\ NonAcks(r, i) = Cardinality(T)
  BY DEF NonAcks
<1> HIDE DEF S, T, U, f
<1>7. IsFiniteSet(U) /\ Cardinality(U) = Cardinality(T)
  BY <1>3, <1>4 DEF Counting, BijectionLaw
<1>8. Cardinality(U \cup {1}) = Cardinality(U) + 1
  BY <1>5, <1>7 DEF Counting, AddLaw
<1> QED
  BY <1>1, <1>4, <1>5, <1>6, <1>7, <1>8, SMTT(20) DEF r

\* Where the ack of syncer y is, and which events are in front of it.
Awaited(y) ==
    /\ sync[y] \in {"send", "acked"} => AcksOf(events, y) = {}
    /\ sync[y] = "idle" => AcksOf(events, y) = {} \/ closed
    /\ sync[y] = "send" => mark[y] <= fanned + NonAcks(events, Len(events))
    /\ sync[y] = "wait" =>
          /\ \A i, j \in AcksOf(events, y) : i = j
          /\ \A i \in AcksOf(events, y) : mark[y] <= fanned + NonAcks(events, i)
    /\ sync[y] = "acked" => mark[y] <= seq

BarrierInv ==
    /\ TypeOK
    /\ seq <= fanned
    /\ \A y \in Syncer : Awaited(y)

\* A step that neither sends nor dispatches and leaves the syncers alone.
LEMMA OtherKeepsBarrier ==
  ASSUME BarrierInv, TypeOK', UNCHANGED <<events, fanned, sync, mark>>,
         seq' \in {seq, fanned}, closed => closed'
  PROVE  BarrierInv'
  BY SMTT(20) DEF BarrierInv, Awaited, TypeOK

LEMMA AcksAppend ==
  ASSUME NEW q \in Seq(Event), NEW ev \in Event, NEW y
  PROVE  AcksOf(Append(q, ev), y) =
            IF ev.op = "ack" /\ ev.who = y THEN AcksOf(q, y) \cup {Len(q) + 1}
            ELSE AcksOf(q, y)
<1> DEFINE n == Len(q)
           r == Append(q, ev)
<1>1. /\ n \in Nat /\ Len(r) = n + 1
      /\ (\A i \in 1..n : r[i] = q[i]) /\ r[n + 1] = ev
  BY SMTT(20)
<1>2. \A j : j \in 1..(n + 1) <=> (j \in 1..n \/ j = n + 1)
  BY <1>1, SMTT(20)
<1> HIDE DEF n, r
<1>3. AcksOf(r, y) = {i \in 1..(n + 1) : r[i].op = "ack" /\ r[i].who = y}
  BY <1>1 DEF AcksOf
<1>4. AcksOf(q, y) = {i \in 1..n : q[i].op = "ack" /\ q[i].who = y}
  BY DEF AcksOf, n
<1>5. AcksOf(r, y) = IF ev.op = "ack" /\ ev.who = y THEN AcksOf(q, y) \cup {n + 1}
                     ELSE AcksOf(q, y)
  BY <1>1, <1>2, <1>3, <1>4
<1> QED
  BY <1>5 DEF n, r

LEMMA AcksTail ==
  ASSUME NEW q \in Seq(Event), q # <<>>, NEW y, NEW i \in AcksOf(Tail(q), y)
  PROVE  /\ i + 1 \in AcksOf(q, y) /\ i \in 0..Len(Tail(q)) /\ i # 0
<1>1. /\ Len(q) \in Nat /\ Len(Tail(q)) = Len(q) - 1 /\ Len(q) >= 1
      /\ \A j \in 1..Len(Tail(q)) : Tail(q)[j] = q[j + 1]
  BY SMTT(20)
<1>2. i \in 1..Len(Tail(q)) /\ i + 1 \in 1..Len(q)
  BY <1>1, SMTT(20) DEF AcksOf
<1>3. Tail(q)[i] = q[i + 1]
  BY <1>1, <1>2
<1> QED
  BY <1>1, <1>2, <1>3, SMTT(20) DEF AcksOf

\* emit: the event counts for no ack in front of it.
LEMMA EmitKeepsBarrier ==
  ASSUME Counting, BarrierInv, TypeOK', NEW s \in Shard, Emit(s)
  PROVE  BarrierInv'
<1> USE DEF syncVars
<1> DEFINE ev == Head(pending[s])
<1>1. /\ events \in Seq(Event) /\ Len(events) \in Nat
      /\ events' = Append(events, ev) /\ Len(events') = Len(events) + 1
      /\ UNCHANGED <<fanned, seq, sync, mark, closed>>
      /\ fanned \in Nat /\ mark \in [Syncer -> Nat]
  BY SMTT(20) DEF BarrierInv, TypeOK, Emit, Event
<1>2. ev \in Mutation
  BY SMTT(20) DEF BarrierInv, TypeOK, Emit
<1>3. ev \in Event /\ ev.op # "ack"
  BY <1>2 DEF Mutation, Event
<1> HIDE DEF ev
<1>4. \A y : AcksOf(events', y) = AcksOf(events, y)
  BY <1>1, <1>3, AcksAppend
<1>5. /\ \A i \in 0..Len(events) : NonAcks(events', i) = NonAcks(events, i)
      /\ NonAcks(events', Len(events')) = NonAcks(events, Len(events)) + 1
      /\ NonAcks(events, Len(events)) \in Nat
  BY <1>1, <1>3, NonAcksAppend, NonAcksType
<1>6. \A y : \A i \in AcksOf(events, y) : i \in 0..Len(events)
  BY <1>1, SMTT(20) DEF AcksOf
<1>7. \A y \in Syncer : mark[y] \in Nat
  BY <1>1
<1> QED
  BY <1>1, <1>4, <1>5, <1>6, <1>7, SMTT(20) DEF BarrierInv, Awaited

\* Sync puts its ack behind every event that was sent before.
LEMMA SendKeepsBarrier ==
  ASSUME Counting, BarrierInv, TypeOK', NEW y \in Syncer, SyncSend(y)
  PROVE  BarrierInv'
<1> USE DEF syncVars, closeVars
<1> DEFINE ev == [op |-> "ack", who |-> y]
<1>1. /\ events \in Seq(Event) /\ Len(events) \in Nat
      /\ events' = Append(events, ev) /\ Len(events') = Len(events) + 1
      /\ UNCHANGED <<fanned, seq, mark, closed>>
      /\ fanned \in Nat /\ mark \in [Syncer -> Nat]
  BY SMTT(20) DEF BarrierInv, TypeOK, SyncSend, Event
<1>2. ev \in Event /\ ev.op = "ack" /\ ev.who = y
  BY DEF Event, Ack
<1> HIDE DEF ev
<1>3. /\ \A z : z # y => AcksOf(events', z) = AcksOf(events, z)
      /\ AcksOf(events', y) = AcksOf(events, y) \cup {Len(events) + 1}
  BY <1>1, <1>2, AcksAppend
<1>4. /\ \A i \in 0..Len(events) : NonAcks(events', i) = NonAcks(events, i)
      /\ NonAcks(events', Len(events) + 1) = NonAcks(events, Len(events))
      /\ NonAcks(events, Len(events)) \in Nat
  BY <1>1, <1>2, NonAcksAppend, NonAcksType, SMTT(20)
<1>5. \A z : \A i \in AcksOf(events, z) : i \in 0..Len(events)
  BY <1>1, SMTT(20) DEF AcksOf
<1>6. sync[y] = "send" /\ sync'[y] = "wait" /\ \A z \in Syncer : z # y => sync'[z] = sync[z]
  BY DEF SyncSend, BarrierInv, TypeOK
<1>7. AcksOf(events', y) = {Len(events) + 1}
  BY <1>3, <1>6 DEF BarrierInv, Awaited
<1> SUFFICES ASSUME NEW z \in Syncer PROVE Awaited(z)'
  BY <1>1 DEF BarrierInv
<1>8. CASE z = y
  BY <1>1, <1>4, <1>6, <1>7, <1>8 DEF BarrierInv, Awaited
<1>9. CASE z # y
  BY <1>1, <1>3, <1>4, <1>5, <1>6, <1>9, SMTT(60) DEF BarrierInv, Awaited
<1> QED
  BY <1>8, <1>9

\* dispatch: an event that leaves the channel is counted by fanned instead.
LEMMA FanKeepsBarrier ==
  ASSUME Counting, BarrierInv, TypeOK', Fan
  PROVE  BarrierInv'
<1> USE DEF syncVars, closeVars
<1>1. /\ events \in Seq(Event) /\ events # <<>> /\ events' = Tail(events)
      /\ Head(events).op # "ack" /\ fanned' = fanned + 1
      /\ UNCHANGED <<seq, sync, mark, closed>>
      /\ fanned \in Nat /\ seq \in Nat /\ mark \in [Syncer -> Nat]
  BY DEF BarrierInv, TypeOK, Fan, Event
<1>2. Len(events') \in Nat /\ Len(events) = Len(events') + 1
  BY <1>1, SMTT(20)
<1>3. \A i \in 0..Len(events') : /\ NonAcks(events, i + 1) = NonAcks(events', i) + 1
                                 /\ NonAcks(events', i) \in Nat
  BY <1>1, NonAcksTail, NonAcksType, SMTT(20)
<1>4. \A y : \A i \in AcksOf(events', y) :
         i + 1 \in AcksOf(events, y) /\ i \in 0..Len(events')
  BY <1>1, AcksTail
<1> SUFFICES ASSUME NEW y \in Syncer PROVE Awaited(y)'
  BY <1>1, SMTT(20) DEF BarrierInv
<1>5. Awaited(y) /\ mark[y] \in Nat
  BY <1>1 DEF BarrierInv
<1>6. AcksOf(events, y) = {} => AcksOf(events', y) = {}
  BY <1>4
<1>7. ASSUME sync[y] = "wait", NEW i \in AcksOf(events', y)
      PROVE  mark[y] <= fanned' + NonAcks(events', i)
  BY <1>1, <1>3, <1>4, <1>5, <1>7, SMTT(60) DEF Awaited
<1>8. ASSUME sync[y] = "wait", NEW i \in AcksOf(events', y),
             NEW j \in AcksOf(events', y)
      PROVE  i = j
  <2>1. i + 1 = j + 1 /\ i \in Nat /\ j \in Nat
    BY <1>2, <1>4, <1>5, <1>8, SMTT(20) DEF Awaited
  <2> QED
    BY <2>1, SMTT(20)
<1>9. fanned + NonAcks(events, Len(events)) = fanned' + NonAcks(events', Len(events'))
  <2> DEFINE n == Len(events')
  <2>1. n \in 0..n /\ Len(events) = n + 1
    BY <1>2, SMTT(20)
  <2>2. NonAcks(events, n + 1) = NonAcks(events', n) + 1 /\ NonAcks(events', n) \in Nat
    BY <2>1, <1>3
  <2> QED
    BY <1>1, <2>1, <2>2, SMTT(20)
<1> QED
  BY <1>1, <1>5, <1>6, <1>7, <1>8, <1>9 DEF Awaited

\* dispatch: an ack comes out when everything in front of it is counted.
LEMMA AckKeepsBarrier ==
  ASSUME Counting, BarrierInv, TypeOK', FanAck
  PROVE  BarrierInv'
<1> USE DEF closeVars
<1> DEFINE who == Head(events).who
<1>1. /\ events \in Seq(Event) /\ events # <<>> /\ events' = Tail(events)
      /\ Head(events).op = "ack" /\ fanned = seq
      /\ UNCHANGED <<fanned, seq, mark, closed>>
      /\ fanned \in Nat /\ mark \in [Syncer -> Nat]
  BY DEF BarrierInv, TypeOK, FanAck, Event
<1>2. /\ Len(events') \in Nat /\ Len(events) = Len(events') + 1
      /\ Head(events) = events[1] /\ Head(events) \in Event
  BY <1>1, SMTT(20)
<1>3. /\ \A i \in 0..Len(events') : NonAcks(events, i + 1) = NonAcks(events', i)
      /\ NonAcks(events', 0) = 0
  <2>1. {j \in 1..0 : events'[j].op # "ack"} = {}
    BY SMTT(20)
  <2>2. NonAcks(events', 0) = 0
    BY <2>1 DEF NonAcks, Counting, EmptyLaw
  <2>3. \A i \in 0..Len(events') : NonAcks(events', i) \in Nat
    BY <1>2, NonAcksType, SMTT(20)
  <2> QED
    BY <2>2, <2>3, <1>1, NonAcksTail, SMTT(20)
<1>4. \A y : \A i \in AcksOf(events', y) :
         i + 1 \in AcksOf(events, y) /\ i \in 0..Len(events') /\ i # 0
  BY <1>1, AcksTail
<1>5. who \in Syncer
  BY <1>1, <1>2 DEF Event, Ack, Mutation
<1>6. 1 \in AcksOf(events, who)
  BY <1>1, <1>2, SMTT(20) DEF AcksOf
<1>7. /\ \A z \in Syncer : z # who => sync'[z] = sync[z]
      /\ sync'[who] = IF sync[who] = "wait" THEN "acked" ELSE sync[who]
  BY <1>5 DEF FanAck, BarrierInv, TypeOK
<1> HIDE DEF who
<1> SUFFICES ASSUME NEW y \in Syncer PROVE Awaited(y)'
  BY <1>1 DEF BarrierInv
<1>8. Awaited(y) /\ mark[y] \in Nat
  BY <1>1 DEF BarrierInv
<1>9. AcksOf(events, y) = {} => AcksOf(events', y) = {}
  BY <1>4
<1>10. CASE sync'[y] = sync[y]
  <2>1. ASSUME sync[y] = "wait", NEW i \in AcksOf(events', y)
        PROVE  mark[y] <= fanned' + NonAcks(events', i)
    BY <1>1, <1>3, <1>4, <1>8, <2>1 DEF Awaited
  <2>2. ASSUME sync[y] = "wait", NEW i \in AcksOf(events', y),
               NEW j \in AcksOf(events', y)
        PROVE  i = j
    <3>1. i + 1 = j + 1 /\ i \in Nat /\ j \in Nat
      BY <1>2, <1>4, <1>8, <2>2, SMTT(20) DEF Awaited
    <3> QED
      BY <3>1, SMTT(20)
  <2>3. NonAcks(events, Len(events)) = NonAcks(events', Len(events'))
    BY <1>2, <1>3, SMTT(20)
  <2> QED
    BY <1>1, <1>8, <1>9, <1>10, <2>1, <2>2, <2>3 DEF Awaited
<1>11. CASE sync'[y] # sync[y]
  <2>1. y = who /\ sync[y] = "wait" /\ sync'[y] = "acked"
    BY <1>7, <1>11
  <2>2. NonAcks(events, 0 + 1) = 0
    BY <1>2, <1>3, SMTT(20)
  <2>3. mark[y] <= fanned
    BY <1>1, <1>6, <1>8, <2>1, <2>2, SMTT(20) DEF Awaited
  <2>4. ASSUME NEW i \in AcksOf(events', y) PROVE FALSE
    <3>1. i + 1 = 1 /\ i \in Nat /\ i # 0
      BY <1>2, <1>4, <1>6, <1>8, <2>1, SMTT(20) DEF Awaited
    <3> QED
      BY <3>1, SMTT(20)
  <2> QED
    BY <1>1, <2>1, <2>3, <2>4 DEF Awaited
<1> QED
  BY <1>10, <1>11

LEMMA NextBarrierInv ==
  ASSUME Counting
  PROVE  BarrierInv /\ [Next]_vars => BarrierInv'
<1> SUFFICES ASSUME BarrierInv, [Next]_vars PROVE BarrierInv'
  OBVIOUS
<1> USE DEF storeVars, streamVars, closeVars, syncVars, flushVars
<1>1. TypeOK /\ TypeOK'
  BY NextTypeOK DEF BarrierInv
<1>2. CASE UNCHANGED <<events, fanned, sync, mark, closed>> /\ seq' \in {seq, fanned}
  BY <1>1, <1>2, OtherKeepsBarrier
<1>3. CASE Client
  <2>1. CASE DescribedStep
    BY <2>1, <1>2 DEF DescribedStep, Locked
  <2>2. CASE FlushShard
    BY <2>2, <1>2 DEF FlushShard
  <2> QED
    BY <1>1, <1>3, <2>1, <2>2, ClientDescribed
<1>4. ASSUME NEW s \in Shard, Sender(s) PROVE BarrierInv'
  <2>1. CASE Emit(s)
    BY <2>1, <1>1, EmitKeepsBarrier
  <2>2. CASE Drop(s)
    BY <2>2, <1>2 DEF Drop
  <2> QED
    BY <1>4, <2>1, <2>2 DEF Sender
<1>5. CASE Dispatcher
  <2>1. CASE Fan
    BY <2>1, <1>1, FanKeepsBarrier
  <2>2. CASE FanAck
    BY <2>2, <1>1, AckKeepsBarrier
  <2>3. CASE StoreSeq \/ Stop
    BY <2>3, <1>2 DEF StoreSeq, Stop
  <2> QED
    BY <1>5, <2>1, <2>2, <2>3 DEF Dispatcher
<1>6. CASE Close
  <2>1. UNCHANGED <<events, fanned, seq, sync, mark>> /\ closed'
    BY <1>6 DEF Close
  <2> QED
    BY <2>1, <1>1, OtherKeepsBarrier
<1>7. ASSUME NEW y \in Syncer, SyncCall(y) PROVE BarrierInv'
  <2>1. /\ UNCHANGED <<events, fanned, seq, closed>> /\ ~closed
        /\ sync[y] = "idle" /\ sync'[y] = "send" /\ mark'[y] = Sent
        /\ \A z \in Syncer : z # y => sync'[z] = sync[z] /\ mark'[z] = mark[z]
    BY <1>1, <1>7 DEF SyncCall, TypeOK
  <2>2. Sent = fanned + NonAcks(events, Len(events)) /\ Sent \in Nat
    <3>1. DOMAIN events = 1..Len(events) /\ Len(events) \in Nat
      BY <1>1, SMTT(20) DEF TypeOK
    <3>2. NonAcks(events, Len(events)) \in Nat
      BY <3>1, NonAcksType
    <3>3. Sent = fanned + NonAcks(events, Len(events))
      BY <3>1 DEF Sent, NonAcks
    <3> QED
      BY <1>1, <3>2, <3>3, SMTT(60) DEF TypeOK
  <2>3. Awaited(y)'
    BY <2>1, <2>2, SMTT(20) DEF BarrierInv, Awaited
  <2>4. \A z \in Syncer : z # y => Awaited(z)'
    BY <2>1 DEF BarrierInv, Awaited
  <2> QED
    BY <1>1, <2>1, <2>3, <2>4 DEF BarrierInv
<1>8. ASSUME NEW y \in Syncer, SyncReturn(y) PROVE BarrierInv'
  <2>1. /\ UNCHANGED <<events, fanned, seq, closed>>
        /\ sync[y] = "acked" \/ closed
        /\ sync'[y] = "idle"
        /\ \A z \in Syncer : z # y => sync'[z] = sync[z] /\ mark'[z] = mark[z]
    BY <1>1, <1>8 DEF SyncReturn, TypeOK
  <2>2. Awaited(y)'
    BY <2>1 DEF BarrierInv, Awaited
  <2>3. \A z \in Syncer : z # y => Awaited(z)'
    BY <2>1 DEF BarrierInv, Awaited
  <2> QED
    BY <1>1, <2>1, <2>2, <2>3 DEF BarrierInv
<1>9. CASE Tick \/ UNCHANGED vars
  BY <1>9, <1>2 DEF Tick, vars
<1> QED
  BY <1>1, <1>3, <1>4, <1>5, <1>6, <1>7, <1>8, <1>9, SendKeepsBarrier
  DEF Next, SyncStep, Idle

-----------------------------------------------------------------------------
(* The library, and what the lemmas assume of it.                           *)

Sets == INSTANCE FiniteSetTheorems

\* The two copies of the definitions of FiniteSets.
LEMMA SameSets ==
  \A S : Sets!Cardinality(S) = Cardinality(S) /\ Sets!IsFiniteSet(S) = IsFiniteSet(S)
  BY DEF Cardinality, Sets!Cardinality, IsFiniteSet, Sets!IsFiniteSet

LEMMA CountingHolds == Counting
<1>1. CardinalityLaw
  BY SameSets, Sets!FS_CardinalityType DEF CardinalityLaw
<1>2. EmptyLaw
  BY SameSets, Sets!FS_EmptySet DEF EmptyLaw
<1>3. AddLaw
  BY SameSets, Sets!FS_AddElement DEF AddLaw
<1>4. RemoveLaw
  BY SameSets, Sets!FS_RemoveElement DEF RemoveLaw
<1>5. SubsetLaw
  BY SameSets, Sets!FS_Subset DEF SubsetLaw
<1>6. IntervalLaw
  BY SameSets, Sets!FS_Interval DEF IntervalLaw
<1>7. BijectionLaw
  <2> SUFFICES ASSUME NEW S, NEW T, NEW f \in [S -> T], IsFiniteSet(S),
                      \A x, y \in S : f[x] = f[y] => x = y,
                      \A y \in T : \E x \in S : f[x] = y
               PROVE  IsFiniteSet(T) /\ Cardinality(T) = Cardinality(S)
    BY DEF BijectionLaw
  <2>1. Sets!ExistsBijection(S, T)
    BY DEF Sets!ExistsBijection, Sets!Bijection, Sets!Injection, Sets!Surjection,
           Sets!IsInjective
  <2> QED
    BY <2>1, SameSets, Sets!FS_Bijection
<1>8. InjectionLaw
  <2> SUFFICES ASSUME NEW S, NEW T, NEW f \in [S -> T],
                      IsFiniteSet(T), Cardinality(S) = Cardinality(T),
                      \A x, y \in S : f[x] = f[y] => x = y
               PROVE  \A y \in T : \E x \in S : f[x] = y
    BY SMTT(20) DEF InjectionLaw
  <2>1. f \in Sets!Injection(S, T)
    BY DEF Sets!Injection, Sets!IsInjective
  <2>2. f \in Sets!Surjection(S, T)
    BY <2>1, SameSets, Sets!FS_Injection
  <2> QED
    BY <2>2 DEF Sets!Surjection
<1>9. WellOrdered
  <2> SUFFICES ASSUME NEW T \in SUBSET Nat, T # {}
               PROVE  \E x \in T : \A y \in T : x <= y
    BY DEF WellOrdered
  <2> DEFINE R == Sets!OpToRel(<, Nat)
  <2>1. \A x, y \in Nat : <<x, y>> \in R <=> x < y
    BY DEF Sets!OpToRel
  <2>2. Sets!IsWellFoundedOn(R, Nat)
    BY Sets!NatLessThanWellFounded
  <2> HIDE DEF R
  <2>3. PICK x \in T : \A y \in T : ~(<<y, x>> \in R)
    BY <2>2, Sets!WFMin
  <2>4. \A y \in T : x \in Nat /\ y \in Nat /\ ~(y < x)
    BY <2>1, <2>3
  <2> QED
    BY <2>4, SMTT(20)
<1> QED
  BY <1>1, <1>2, <1>3, <1>4, <1>5, <1>6, <1>7, <1>8, <1>9 DEF Counting
-----------------------------------------------------------------------------
(* The theorems.                                                            *)

(* Every reachable state of the stream is well typed: in particular the     *)
(* dispatcher only ever meets mutation events and acks, and a follower's    *)
(* items stay a map from keys to entries.  (internal/cache.)                *)
THEOREM TypeCorrect == Spec => []TypeOK
<1>1. TypeOK /\ [Next]_vars => TypeOK'
  BY NextTypeOK, CountingHolds
<1> QED
  BY <1>1, InitTypeOK, PTL DEF Spec

(* A follower of the event stream converges: for any number of keys,        *)
(* shards, writers and syncers and any size of the channel, whenever        *)
(* nothing is on its way the follower holds what the cache holds.  It needs *)
(* NoSplitFlush, because FlushAll sends one flush event per shard and       *)
(* ApplyEvent lets each clear the whole follower.  (cache.go emit,          *)
(* dispatch, ApplyEvent; shard.go: every event is sent under the lock.)     *)
THEOREM Convergence ==
  ASSUME NoSplitFlush
  PROVE  Spec => []Converged
<1>1. ConvInv /\ [Next]_vars => ConvInv'
  BY NextConvInv, CountingHolds
<1> QED
  BY <1>1, InitConvInv, ConvInvConverges, PTL DEF Spec

(* Close cuts the events of a shard at one point, for any number of shards, *)
(* senders and syncers: the sender that has lost one event to Close loses   *)
(* the rest too, because it finds closed set before every later select.     *)
(* (cache.go emit, Close.)                                                  *)
THEOREM CloseCutsOnce == Spec => NoGapAtClose
<1>1. Init => GapInv
  BY InitTypeOK DEF Init, GapInv
<1>2. GapInv /\ [Next]_vars => GapInv'
  BY NextGapInv, CountingHolds
<1>3. GapInv /\ [Next]_vars => [\A s \in dropped : ~Gap(s)]_vars
  BY NextNoGap, CountingHolds
<1> QED
  BY <1>1, <1>2, <1>3, PTL DEF Spec, NoGapAtClose, Gap

(* Sync is a barrier, for any number of syncers and writers, any capacity   *)
(* of the channel and Close at any point: when the ack comes out, Seq()     *)
(* counts every event that had been sent when Sync was called.  (cache.go   *)
(* Sync, dispatch.)                                                         *)
THEOREM SyncIsBarrier == Spec => []SyncBarrier
<1>1. Init => BarrierInv
  <2> SUFFICES ASSUME Init PROVE BarrierInv
    OBVIOUS
  <2>1. \A y \in Syncer : AcksOf(events, y) = {}
    BY SMTT(20) DEF Init, AcksOf
  <2> QED
    BY <2>1, InitTypeOK, SMTT(20) DEF Init, BarrierInv, Awaited
<1>2. BarrierInv /\ [Next]_vars => BarrierInv'
  BY NextBarrierInv, CountingHolds
<1>3. BarrierInv => SyncBarrier
  BY DEF BarrierInv, Awaited, SyncBarrier, TypeOK
<1> QED
  BY <1>1, <1>2, <1>3, PTL DEF Spec
=============================================================================
