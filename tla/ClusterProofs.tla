--------------------------- MODULE ClusterProofs -----------------------------
(***************************************************************************)
(* The ring and the registry, for any nodes, any number of virtual nodes   *)
(* and any hashes.  MinimalMovement is about the map from points to owners *)
(* alone.  RingSound, OwnersAgree and ReplicasAreNearest are also about    *)
(* the sorted slice, which Add, Remove and GetN treat in loops; what a     *)
(* loop leaves is proved by induction over the slice, with Folding.        *)
(***************************************************************************)
EXTENDS Cluster, Counting, TLAPS

\* The provers have 20 seconds for a leaf, unless it says otherwise.
USE ZenonT(20)

\* The part of RingSound that is about owners.
OwnersSound ==
    /\ ring.nodes = DOMAIN age
    /\ \A p \in DOMAIN ring.owners :
          ring.owners[p] \in ring.nodes /\ p \in Spots(ring.owners[p])

\* A registry that has just been made (New) is sound.
LEMMA InitSound == CInit => OwnersSound
<1>1. ASSUME CInit PROVE OwnersSound
  <2>1. ring = [points |-> Sorted(Empty.points \o hash[Self]),
                owners |-> [h \in DOMAIN Empty.owners \cup Spots(Self) |->
                              IF h \in Spots(Self) THEN Self
                                                   ELSE Empty.owners[h]],
                nodes |-> Empty.nodes \cup {Self}]
    BY <1>1 DEF CInit, RingAdd, Empty
  <2>2. ring.nodes = {Self} /\ DOMAIN age = {Self}
    BY <1>1, <2>1, SMTT(20) DEF CInit, Empty
  <2>3. DOMAIN ring.owners = Spots(Self)
    BY <2>1 DEF Empty
  <2>4. \A p \in Spots(Self) : ring.owners[p] = Self
    BY <2>1
  <2> QED  BY <2>2, <2>3, <2>4 DEF OwnersSound
<1> QED  BY <1>1

\* What Ring.Add does to a ring the node is not in.
LEMMA AddEffect ==
    ASSUME NEW n, n \notin ring.nodes, ring' = RingAdd(ring, n)
    PROVE  /\ ring'.nodes = ring.nodes \cup {n}
           /\ DOMAIN ring'.owners = DOMAIN ring.owners \cup Spots(n)
           /\ \A p \in Spots(n) : ring'.owners[p] = n
           /\ \A p \in DOMAIN ring.owners \ Spots(n) :
                 ring'.owners[p] = ring.owners[p]
BY DEF RingAdd

\* What Ring.Remove does to a ring the node is in.
LEMMA RemoveEffect ==
    ASSUME NEW n, n \in ring.nodes, ring' = RingRemove(ring, n)
    PROVE  /\ ring'.nodes = ring.nodes \ {n}
           /\ DOMAIN ring'.owners = DOMAIN ring.owners \ Spots(n)
           /\ \A p \in DOMAIN ring'.owners : ring'.owners[p] = ring.owners[p]
BY DEF RingRemove, OwnersWithout

\* Add, Remove and Heartbeat keep the owners sound.
LEMMA StepSound == OwnersSound /\ [CNext]_cVars => OwnersSound'
<1> SUFFICES ASSUME OwnersSound, [CNext]_cVars PROVE OwnersSound'
  OBVIOUS
<1>0. ASSUME UNCHANGED hash PROVE \A n : Spots(n)' = Spots(n)
  BY <1>0 DEF Spots
<1>1. ASSUME NEW n \in Node, AddNode(n) PROVE OwnersSound'
  <2>1. UNCHANGED hash /\ DOMAIN age' = DOMAIN age \cup {n}
    BY <1>1 DEF AddNode
  <2>2. CASE n \in DOMAIN age
    BY <1>0, <1>1, <2>1, <2>2 DEF AddNode, OwnersSound
  <2>3. CASE n \notin DOMAIN age
    <3>1. n \notin ring.nodes /\ ring' = RingAdd(ring, n)
      BY <1>1, <2>3 DEF AddNode, OwnersSound
    <3> QED  BY <1>0, <2>1, <3>1, AddEffect, SMTT(20) DEF OwnersSound
  <2> QED  BY <2>2, <2>3
<1>2. ASSUME NEW n \in Node, RemoveNode(n) PROVE OwnersSound'
  <2>1. UNCHANGED hash /\ DOMAIN age' = DOMAIN age \ {n}
    BY <1>2 DEF RemoveNode
  <2>2. n \in ring.nodes /\ ring' = RingRemove(ring, n)
    BY <1>2 DEF RemoveNode, OwnersSound
  <2>3. ASSUME NEW p \in DOMAIN ring'.owners
        PROVE  ring'.owners[p] \in ring'.nodes /\ p \in Spots(ring'.owners[p])
    BY <2>2, <2>3, RemoveEffect DEF OwnersSound
  <2> QED  BY <1>0, <2>1, <2>2, <2>3, RemoveEffect, SMTT(20) DEF OwnersSound
<1>3. ASSUME NEW n \in Node, Heartbeat(n) PROVE OwnersSound'
  BY <1>0, <1>3 DEF Heartbeat, OwnersSound
<1>4. CASE Tick
  BY <1>0, <1>4 DEF Tick, OwnersSound
<1>5. CASE UNCHANGED cVars
  BY <1>0, <1>5 DEF cVars, OwnersSound
<1> QED  BY <1>1, <1>2, <1>3, <1>4, <1>5 DEF CNext

\* One step of MinimalMovement.
Moves ==
    \A n \in Node, h \in Point :
         /\ (Owns(n, h)' /\ ~Owns(n, h)) =>
               \/ n \notin ring.nodes /\ ring'.nodes = ring.nodes \cup {n}
               \/ \E m \in ring.nodes : ring'.nodes = ring.nodes \ {m}
         /\ (Owns(n, h) /\ ~Owns(n, h)') =>
               \/ n \notin ring'.nodes
               \/ \E m \in Node \ ring.nodes : ring'.nodes = ring.nodes \cup {m}
               \/ \E m \in ring.nodes : Clash(m, n) /\ m \notin ring'.nodes

\* A nearest point stays one when points it had to beat go, and was one before
\* points were added: that is all of consistent hashing.
LEMMA StepMoves == OwnersSound /\ [CNext]_cVars => Moves
<1> SUFFICES ASSUME OwnersSound, [CNext]_cVars PROVE Moves
  OBVIOUS
<1>0. ASSUME UNCHANGED ring PROVE Moves
  BY <1>0 DEF Moves, Owns
<1>1. ASSUME NEW k \in Node, AddNode(k) PROVE Moves
  <2>1. CASE k \in DOMAIN age
    BY <1>0, <1>1, <2>1 DEF AddNode
  <2>2. CASE k \notin DOMAIN age
    <3>1. k \notin ring.nodes /\ ring' = RingAdd(ring, k)
      BY <1>1, <2>2 DEF AddNode, OwnersSound
    <3>2. ASSUME NEW n \in Node, NEW h \in Point, n # k, Owns(n, h)'
          PROVE  Owns(n, h)
      <4>1. PICK p \in DOMAIN ring'.owners :
              /\ ring'.owners[p] = n
              /\ \A q \in DOMAIN ring'.owners : Distance(h, p) <= Distance(h, q)
        BY <3>2 DEF Owns
      <4>2. p \in DOMAIN ring.owners /\ ring.owners[p] = n
        BY <3>1, <3>2, <4>1, AddEffect, SMTT(20)
      <4>3. DOMAIN ring.owners \subseteq DOMAIN ring'.owners
        BY <3>1, AddEffect
      <4> QED  BY <4>1, <4>2, <4>3 DEF Owns
    <3>3. ring'.nodes = ring.nodes \cup {k}
      BY <3>1, AddEffect
    <3> QED  BY <3>1, <3>2, <3>3 DEF Moves
  <2> QED  BY <2>1, <2>2
<1>2. ASSUME NEW k \in Node, RemoveNode(k) PROVE Moves
  <2>1. k \in ring.nodes /\ ring' = RingRemove(ring, k)
    BY <1>2 DEF RemoveNode, OwnersSound
  <2>2. ring'.nodes = ring.nodes \ {k}
    BY <2>1, RemoveEffect
  <2>3. ASSUME NEW n \in Node, NEW h \in Point, n # k, ~Clash(k, n),
               Owns(n, h)
        PROVE  Owns(n, h)'
    <3>1. PICK p \in DOMAIN ring.owners :
            /\ ring.owners[p] = n
            /\ \A q \in DOMAIN ring.owners : Distance(h, p) <= Distance(h, q)
      BY <2>3 DEF Owns
    <3>2. p \in Spots(n)
      BY <3>1 DEF OwnersSound
    <3>3. p \notin Spots(k)
      BY <2>3, <3>2 DEF Clash
    <3>4. p \in DOMAIN ring'.owners /\ ring'.owners[p] = n
      BY <2>1, <3>1, <3>3, RemoveEffect
    <3>5. DOMAIN ring'.owners \subseteq DOMAIN ring.owners
      BY <2>1, RemoveEffect
    <3> QED  BY <3>1, <3>4, <3>5 DEF Owns
  <2>4. ASSUME NEW n \in Node, NEW h \in Point, Owns(n, h), ~Owns(n, h)'
        PROVE  n \notin ring'.nodes \/ Clash(k, n)
    BY <2>2, <2>3, <2>4
  <2> QED  BY <2>1, <2>2, <2>4 DEF Moves
<1>3. CASE UNCHANGED ring
  BY <1>0, <1>3
<1> QED  BY <1>1, <1>2, <1>3 DEF CNext, cVars, Heartbeat, Tick

-----------------------------------------------------------------------------
(* The invariant.                                                           *)

\* What sort.Slice leaves.
Ascending(s) == \A i, j \in DOMAIN s : i < j => s[i] <= s[j]

\* The index of the i-th point on the walk from h.
Place(r, h, i) == ((Search(r, h) + i - 2) % Len(r.points)) + 1

\* What Ring.Add and Ring.Remove keep of a ring.
RingOK(r) ==
    /\ r.points \in Seq(Point) /\ Ascending(r.points)
    /\ Range(r.points) = DOMAIN r.owners
    /\ r.nodes \in SUBSET Node /\ IsFiniteSet(r.nodes)
    /\ \A p \in DOMAIN r.owners :
          r.owners[p] \in r.nodes /\ p \in Spots(r.owners[p])
    /\ NoClash => \A n \in r.nodes : Spots(n) \subseteq DOMAIN r.owners

\* The table of hashes stays, the ring is one that Add and Remove leave, and the
\* registry's table names the same nodes.
RingInv ==
    /\ hash \in HashTable
    /\ RingOK(ring)
    /\ ring.nodes = DOMAIN age

\* A set of natural numbers has a least element.
LEMMA Least ==
  ASSUME Counting, NEW T \in SUBSET Nat, T # {}
  PROVE  \E x \in T : \A y \in T : x <= y
  BY DEF Counting, WellOrdered

-----------------------------------------------------------------------------
(* Distances, and the search for the nearest point.                         *)

\* Clockwise: past the top the ring starts again at 0.
LEMMA DistanceIs ==
  ASSUME NEW h \in Point, NEW p \in Point
  PROVE  Distance(h, p) = IF h <= p THEN p - h ELSE p + Top + 1 - h
<1> DEFINE N == Top + 1
<1>0. N \in Nat \ {0} /\ h \in 0 .. N - 1 /\ p \in 0 .. N - 1
  BY ClusterAssumption, SMTT(20) DEF Point
<1>1. Distance(h, p) = (p + N - h) % N
  BY ClusterAssumption, <1>0, SMTT(20) DEF Distance
<1> HIDE DEF N
<1>2. CASE h <= p
  <2>1. p - h \in 0 .. N - 1 /\ p + N - h = (p - h) + N
    BY <1>0, <1>2, SMTT(20)
  <2>2. ((p - h) + N) % N = p - h
    BY <1>0, <2>1, SMTT(20)
  <2> QED
    BY <1>1, <1>2, <2>1, <2>2
<1>3. CASE h > p
  <2>1. p + N - h \in 0 .. N - 1
    BY <1>0, <1>3, SMTT(20)
  <2>2. (p + N - h) % N = p + N - h
    BY <1>0, <2>1, SMTT(20)
  <2> QED
    <3>1. p + N - h = p + Top + 1 - h /\ ~(h <= p)
      BY <1>0, <1>3, ClusterAssumption, SMTT(20) DEF N
    <3> QED
      BY <1>1, <2>2, <3>1
<1> QED
  BY <1>0, <1>2, <1>3, SMTT(20)

\* No two points are equally far; and on either side of h, farther on is
\* farther away.
LEMMA DistanceOrder ==
  ASSUME NEW h \in Point, NEW p \in Point, NEW q \in Point
  PROVE  /\ Distance(h, p) \in Nat
         /\ Distance(h, p) = Distance(h, q) => p = q
         /\ p <= q /\ (h <= p \/ q < h) => Distance(h, p) <= Distance(h, q)
         /\ h <= p /\ q < h => Distance(h, p) <= Distance(h, q)
<1>1. Top \in Nat /\ h \in Nat /\ p \in Nat /\ q \in Nat /\ h <= Top /\ p <= Top /\ q <= Top
  BY ClusterAssumption, SMTT(20) DEF Point
<1>2. Distance(h, p) = IF h <= p THEN p - h ELSE p + Top + 1 - h
  BY DistanceIs
<1>3. Distance(h, q) = IF h <= q THEN q - h ELSE q + Top + 1 - h
  BY DistanceIs
<1> QED
  BY <1>1, <1>2, <1>3, SMTT(20)

\* Where search starts in a sorted slice: at the first point not before h, or,
\* when all are before h, at the first of all.
LEMMA SearchIs ==
  ASSUME Counting, NEW r, r.points \in Seq(Point), Ascending(r.points), r.points # <<>>,
         NEW h \in Point
  PROVE  /\ Search(r, h) \in 1 .. Len(r.points)
         /\ \/ /\ \A i \in 1 .. Len(r.points) : i < Search(r, h) => r.points[i] < h
               /\ \A i \in 1 .. Len(r.points) : Search(r, h) <= i => h <= r.points[i]
            \/ /\ Search(r, h) = 1
               /\ \A i \in 1 .. Len(r.points) : r.points[i] < h
<1> DEFINE s == r.points
           n == Len(s)
           A == {i \in DOMAIN s : s[i] >= h}
           k == Search(r, h)
<1>0. /\ n \in Nat \ {0} /\ DOMAIN s = 1 .. n /\ \A i \in 1 .. n : s[i] \in Nat
      /\ h \in Nat /\ \A i, j \in 1 .. n : i < j => s[i] <= s[j]
  <2>1. s \in Seq(Point)
    OBVIOUS
  <2>2. n \in Nat \ {0} /\ DOMAIN s = 1 .. n
    BY <2>1, SMTT(20)
  <2>3. \A i \in 1 .. n : s[i] \in Point
    BY <2>1, SMTT(20)
  <2> QED
    <3>1. h \in Nat /\ \A i \in 1 .. n : s[i] \in Nat
      BY <2>3, ClusterAssumption, SMTT(20) DEF Point
    <3>2. \A i, j \in 1 .. n : i < j => s[i] <= s[j]
      BY <2>2 DEF Ascending
    <3> QED
      BY <2>2, <3>1, <3>2
<1>1. k = IF A = {} THEN 1 ELSE CHOOSE i \in A : \A j \in A : i <= j
  BY DEF Search
<1> HIDE DEF k, s, n
<1>2. CASE A = {}
  <2>1. k = 1
    BY <1>1, <1>2
  <2>2. \A i \in 1 .. n : s[i] < h
    BY <1>0, <1>2, SMTT(20)
  <2> QED
    BY <1>0, <2>1, <2>2, SMTT(20) DEF k, s, n
<1>3. CASE A # {}
  <2>1. k \in A /\ \A j \in A : k <= j
    <3>1. A \in SUBSET Nat
      BY <1>0, SMTT(20)
    <3> HIDE DEF A
    <3>2. PICK x \in A : \A y \in A : x <= y
      BY <1>3, <3>1, Least
    <3>3. k = CHOOSE i \in A : \A j \in A : i <= j
      BY <1>1, <1>3
    <3> QED
      BY <3>2, <3>3
  <2>2. k \in 1 .. n /\ s[k] >= h
    BY <1>0, <2>1
  <2>3. ASSUME NEW i \in 1 .. n, i < k PROVE s[i] < h
    <3>1. i \notin A
      <4> HIDE DEF A
      <4> QED
        BY <1>0, <2>1, <2>2, <2>3, SMTT(20)
    <3> QED
      BY <1>0, <3>1, SMTT(20)
  <2>4. ASSUME NEW i \in 1 .. n, k <= i PROVE h <= s[i]
    <3>1. k = i \/ s[k] <= s[i]
      BY <1>0, <2>2, <2>4, SMTT(20)
    <3> QED
      BY <1>0, <2>2, <3>1, SMTT(20)
  <2> QED
    BY <2>2, <2>3, <2>4 DEF k, s, n
<1> QED
  BY <1>2, <1>3

\* The wrap of the index, which counts from 1 here.
LEMMA PlaceIs ==
  ASSUME NEW n \in Nat \ {0}, NEW k \in 1 .. n, NEW i \in 1 .. n
  PROVE  ((k + i - 2) % n) + 1 = IF k + i - 1 <= n THEN k + i - 1 ELSE k + i - 1 - n
<1>1. CASE k + i - 1 <= n
  <2>1. k + i - 2 \in 0 .. n - 1
    BY <1>1, SMTT(20)
  <2>2. (k + i - 2) % n = k + i - 2
    BY <2>1, SMTT(20)
  <2> QED
    BY <1>1, <2>2, SMTT(20)
<1>2. CASE k + i - 1 > n
  <2>1. k + i - 2 \in n .. (2 * n - 1)
    BY <1>2, SMTT(20)
  <2>2. (k + i - 2) % n = k + i - 2 - n
    BY <2>1, SMTT(20)
  <2> QED
    BY <1>2, <2>2, SMTT(20)
<1> QED
  BY <1>1, <1>2, SMTT(20)

\* The walk meets all points, the nearest first.
LEMMA WalkIsOrdered ==
  ASSUME Counting, NEW r, r.points \in Seq(Point), Ascending(r.points), r.points # <<>>,
         NEW h \in Point
  PROVE  /\ Len(r.points) \in Nat \ {0}
         /\ \A i \in 1 .. Len(r.points) : Place(r, h, i) \in 1 .. Len(r.points)
         /\ Place(r, h, 1) = Search(r, h)
         /\ \A j \in 1 .. Len(r.points) : \E i \in 1 .. Len(r.points) : Place(r, h, i) = j
         /\ \A i, j \in 1 .. Len(r.points) : i <= j =>
               Distance(h, r.points[Place(r, h, i)]) <= Distance(h, r.points[Place(r, h, j)])
<1> DEFINE s == r.points
           n == Len(s)
           k == Search(r, h)
           P(i) == Place(r, h, i)
<1>1. /\ n \in Nat \ {0} /\ \A i \in 1 .. n : s[i] \in Point
      /\ \A i, j \in 1 .. n : i < j => s[i] <= s[j]
  <2>1. s \in Seq(Point)
    OBVIOUS
  <2>2. n \in Nat \ {0} /\ DOMAIN s = 1 .. n
    BY <2>1, SMTT(20)
  <2> QED
    BY <2>1, <2>2, SMTT(20) DEF Ascending
<1>2. /\ k \in 1 .. n
      /\ \/ /\ \A i \in 1 .. n : i < k => s[i] < h
            /\ \A i \in 1 .. n : k <= i => h <= s[i]
         \/ k = 1 /\ \A i \in 1 .. n : s[i] < h
  BY SearchIs
<1>3. \A i \in 1 .. n : P(i) = ((k + i - 2) % n) + 1
  BY DEF Place
<1> HIDE DEF s, n, k, P
<1>4. \A i \in 1 .. n : P(i) = IF k + i - 1 <= n THEN k + i - 1 ELSE k + i - 1 - n
  BY <1>1, <1>2, <1>3, PlaceIs
<1>5. \A i \in 1 .. n : P(i) \in 1 .. n
  BY <1>1, <1>2, <1>4, SMTT(20)
<1>6. P(1) = k
  BY <1>1, <1>2, <1>4, SMTT(20)
<1>7. ASSUME NEW j \in 1 .. n PROVE \E i \in 1 .. n : P(i) = j
  <2>1. CASE k <= j
    <3>1. j - k + 1 \in 1 .. n /\ P(j - k + 1) = j
      BY <1>1, <1>2, <1>4, <2>1, SMTT(20)
    <3> QED
      BY <3>1
  <2>2. CASE j < k
    <3>1. j - k + 1 + n \in 1 .. n /\ P(j - k + 1 + n) = j
      BY <1>1, <1>2, <1>4, <2>2, SMTT(20)
    <3> QED
      BY <3>1
  <2> QED
    BY <1>2, <2>1, <2>2, SMTT(20)
<1>8. ASSUME NEW i \in 1 .. n, NEW j \in 1 .. n, i <= j
      PROVE  Distance(h, s[P(i)]) <= Distance(h, s[P(j)])
  <2> DEFINE p == s[P(i)]
             q == s[P(j)]
  <2>1. p \in Point /\ q \in Point
    BY <1>1, <1>5
  <2>2. P(i) <= P(j) => p <= q
    <3>1. P(i) \in 1 .. n /\ P(j) \in 1 .. n
      BY <1>5
    <3>2. P(i) < P(j) => p <= q
      BY <1>1, <3>1
    <3>3. P(i) = P(j) => p <= q
      BY <2>1, ClusterAssumption, SMTT(20) DEF Point
    <3> QED
      BY <3>1, <3>2, <3>3, SMTT(20)
  <2>3. p \in Nat /\ q \in Nat /\ h \in Nat
    BY <2>1, ClusterAssumption, SMTT(20) DEF Point
  <2>4. (p <= q /\ (h <= p \/ q < h)) \/ (h <= p /\ q < h)
    <3>1. CASE k = 1 /\ \A m \in 1 .. n : s[m] < h
      <4>1. P(i) <= P(j) /\ q < h
        BY <1>1, <1>4, <1>5, <1>8, <3>1, SMTT(20)
      <4> QED
        BY <2>2, <4>1
    <3>2. CASE /\ \A m \in 1 .. n : m < k => s[m] < h
               /\ \A m \in 1 .. n : k <= m => h <= s[m]
      <4>1. CASE k + j - 1 <= n
        <5>1. P(i) <= P(j) /\ k <= P(i)
          BY <1>1, <1>2, <1>4, <1>8, <4>1, SMTT(20)
        <5>2. h <= p
          BY <1>5, <3>2, <5>1
        <5> QED
          BY <2>2, <5>1, <5>2
      <4>2. CASE k + j - 1 > n /\ k + i - 1 <= n
        <5>1. k <= P(i) /\ P(j) < k
          BY <1>1, <1>2, <1>4, <4>2, SMTT(20)
        <5>2. h <= p /\ q < h
          BY <1>5, <3>2, <5>1
        <5> QED
          BY <5>2
      <4>3. CASE k + i - 1 > n
        <5>1. P(i) <= P(j) /\ P(j) < k
          BY <1>1, <1>2, <1>4, <1>8, <4>3, SMTT(20)
        <5>2. q < h
          BY <1>5, <3>2, <5>1
        <5> QED
          BY <2>2, <5>1, <5>2
      <4> QED
        BY <1>1, <1>2, <4>1, <4>2, <4>3, SMTT(20)
    <3> QED
      BY <1>2, <3>1, <3>2
  <2> HIDE DEF p, q
  <2>5. Distance(h, p) <= Distance(h, q)
    BY <2>1, <2>4, DistanceOrder
  <2> QED
    BY <2>5 DEF p, q
<1> QED
  BY <1>1, <1>5, <1>6, <1>7, <1>8 DEF s, n, k, P

\* Get finds the owner of the nearest point.
LEMMA GetIsNearest ==
  ASSUME Counting, NEW r, RingOK(r), NEW h \in Point
  PROVE  \/ r.points = <<>> /\ DOMAIN r.owners = {} /\ Get(r, h) = NoNode
         \/ \E p \in DOMAIN r.owners :
               /\ p \in Point /\ Get(r, h) = r.owners[p]
               /\ \A q \in DOMAIN r.owners :
                     q \in Point /\ Distance(h, p) <= Distance(h, q)
<1>0. r.points \in Seq(Point) /\ Ascending(r.points) /\ Range(r.points) = DOMAIN r.owners
  BY DEF RingOK
<1>1. CASE r.points = <<>>
  <2>1. Range(<<>>) = {}
    BY SMTT(20) DEF Range
  <2> QED
    BY <1>0, <1>1, <2>1 DEF Get
<1>2. CASE r.points # <<>>
  <2> DEFINE s == r.points
             n == Len(s)
             P(i) == Place(r, h, i)
             p == s[Search(r, h)]
  <2>1. /\ n \in Nat \ {0} /\ \A i \in 1 .. n : P(i) \in 1 .. n
        /\ P(1) = Search(r, h)
        /\ \A j \in 1 .. n : \E i \in 1 .. n : P(i) = j
        /\ \A i, j \in 1 .. n : i <= j =>
              Distance(h, s[P(i)]) <= Distance(h, s[P(j)])
    BY <1>0, <1>2, WalkIsOrdered
  <2>2. Get(r, h) = r.owners[p]
    BY <1>2 DEF Get
  <2>3. DOMAIN s = 1 .. n /\ \A i \in 1 .. n : s[i] \in Point
    BY <1>0, SMTT(20)
  <2>4. DOMAIN r.owners = {s[i] : i \in 1 .. n}
    BY <1>0, <2>3 DEF Range
  <2> HIDE DEF s, n, P
  <2>5. 1 \in 1 .. n /\ p = s[P(1)] /\ P(1) \in 1 .. n
    BY <2>1, SMTT(20) DEF p
  <2>6. p \in DOMAIN r.owners /\ p \in Point
    BY <2>3, <2>4, <2>5
  <2>7. ASSUME NEW q \in DOMAIN r.owners PROVE q \in Point /\ Distance(h, p) <= Distance(h, q)
    <3>1. PICK j \in 1 .. n : q = s[j]
      BY <2>4
    <3>2. PICK i \in 1 .. n : P(i) = j
      BY <2>1
    <3>3. 1 <= i
      BY <2>1, SMTT(20)
    <3> QED
      BY <2>1, <2>3, <2>5, <3>1, <3>2, <3>3
  <2> HIDE DEF p
  <2> QED
    BY <2>2, <2>6, <2>7
<1> QED
  BY <1>1, <1>2

\* Two rings of the same nodes name the same owners, however they were made.
LEMMA SameNodesAgree ==
  ASSUME Counting, NEW a, NEW b, RingOK(a), RingOK(b), a.nodes = b.nodes, NoClash,
         NEW h \in Point
  PROVE  Get(a, h) = Get(b, h)
<1>1. ASSUME NEW x, NEW y, RingOK(x), RingOK(y), x.nodes = y.nodes,
             NEW p \in DOMAIN x.owners
      PROVE  p \in DOMAIN y.owners /\ y.owners[p] = x.owners[p]
  <2> DEFINE n == x.owners[p]
             m == y.owners[p]
  <2>1. n \in y.nodes /\ p \in Spots(n) /\ n \in Node
    BY <1>1 DEF RingOK
  <2>2. p \in DOMAIN y.owners
    BY <1>1, <2>1 DEF RingOK
  <2>3. m \in Node /\ p \in Spots(m)
    BY <1>1, <2>2 DEF RingOK
  <2>4. n = m
    BY <2>1, <2>3 DEF NoClash, Clash
  <2> QED
    BY <2>2, <2>4
<1>2. DOMAIN a.owners = DOMAIN b.owners
  BY <1>1
<1>3. \/ DOMAIN a.owners = {} /\ Get(a, h) = NoNode
      \/ \E p \in DOMAIN a.owners :
            /\ p \in Point /\ Get(a, h) = a.owners[p]
            /\ \A q \in DOMAIN a.owners : q \in Point /\ Distance(h, p) <= Distance(h, q)
  BY GetIsNearest
<1>4. \/ DOMAIN b.owners = {} /\ Get(b, h) = NoNode
      \/ \E p \in DOMAIN b.owners :
            /\ p \in Point /\ Get(b, h) = b.owners[p]
            /\ \A q \in DOMAIN b.owners : q \in Point /\ Distance(h, p) <= Distance(h, q)
  BY GetIsNearest
<1>5. CASE DOMAIN a.owners = {}
  BY <1>2, <1>3, <1>4, <1>5
<1>6. CASE DOMAIN a.owners # {}
  <2>1. PICK p \in DOMAIN a.owners :
            /\ p \in Point /\ Get(a, h) = a.owners[p]
            /\ \A q \in DOMAIN a.owners : q \in Point /\ Distance(h, p) <= Distance(h, q)
    BY <1>3, <1>6
  <2>2. PICK p2 \in DOMAIN b.owners :
            /\ p2 \in Point /\ Get(b, h) = b.owners[p2]
            /\ \A q \in DOMAIN b.owners : q \in Point /\ Distance(h, p2) <= Distance(h, q)
    BY <1>2, <1>4, <1>6
  <2>3. Distance(h, p) <= Distance(h, p2) /\ Distance(h, p2) <= Distance(h, p)
    BY <1>2, <2>1, <2>2
  <2>4. Distance(h, p) \in Nat /\ Distance(h, p2) \in Nat
    BY <2>1, <2>2, DistanceOrder
  <2>5. Distance(h, p) = Distance(h, p2)
    BY <2>3, <2>4, SMTT(20)
  <2>6. p = p2
    BY <2>1, <2>2, <2>5, DistanceOrder
  <2>7. b.owners[p] = a.owners[p]
    BY <1>1
  <2> QED
    BY <2>1, <2>2, <2>6, <2>7
<1> QED
  BY <1>5, <1>6

-----------------------------------------------------------------------------
(* Sequences and finite sets.                                               *)

\* What a concatenation is, element by element.
LEMMA ConcatIs ==
  ASSUME NEW E, NEW s \in Seq(E), NEW t \in Seq(E)
  PROVE  /\ s \o t \in Seq(E) /\ Len(s \o t) = Len(s) + Len(t)
         /\ \A i \in 1 .. Len(s) + Len(t) :
               (s \o t)[i] = IF i <= Len(s) THEN s[i] ELSE t[i - Len(s)]
  BY SMTT(20)

\* The order of the natural numbers is total.
LEMMA NotLess == \A x, y \in Nat : ~(y < x) => x <= y
  BY SMTT(20)

\* q is s with e put at place k.
Opened(q, s, k, e) ==
  /\ Len(q) = Len(s) + 1
  /\ \A i \in 1 .. Len(s) + 1 : q[i] = IF i < k THEN s[i]
                                      ELSE IF i = k THEN e ELSE s[i - 1]

\* What InsertAt returns, element by element.
LEMMA InsertAtIs ==
  ASSUME NEW E, NEW s \in Seq(E), NEW k \in 1 .. Len(s) + 1, NEW e \in E
  PROVE  InsertAt(s, k, e) \in Seq(E) /\ Opened(InsertAt(s, k, e), s, k, e)
<1> DEFINE a == SubSeq(s, 1, k - 1)
           b == SubSeq(s, k, Len(s))
           m == <<e>>
           am == a \o m
           t == am \o b
           n == Len(s)
<1>0. n \in Nat /\ k \in Nat /\ k >= 1 /\ k <= n + 1
  BY SMTT(20)
<1>1. a \in Seq(E) /\ Len(a) = k - 1 /\ \A i \in 1 .. k - 1 : a[i] = s[i]
  <2>1. \A i \in 1 .. k - 1 : s[i] \in E
    BY <1>0, SMTT(20)
  <2> QED
    BY <2>1, <1>0, SMTT(20)
<1>2. b \in Seq(E) /\ Len(b) = n - k + 1 /\ \A i \in 1 .. n - k + 1 : b[i] = s[k + i - 1]
  <2>1. \A i \in k .. n : s[i] \in E
    BY <1>0, SMTT(20)
  <2> QED
    BY <2>1, <1>0, SMTT(20)
<1>3. m \in Seq(E) /\ Len(m) = 1 /\ m[1] = e
  BY SMTT(20)
<1> HIDE DEF a, b, m
<1>4. /\ am \in Seq(E) /\ Len(am) = k
      /\ \A i \in 1 .. k : am[i] = IF i <= k - 1 THEN a[i] ELSE m[i - (k - 1)]
  <2>1. /\ a \o m \in Seq(E) /\ Len(a \o m) = Len(a) + Len(m)
        /\ \A i \in 1 .. Len(a) + Len(m) :
              (a \o m)[i] = IF i <= Len(a) THEN a[i] ELSE m[i - Len(a)]
    BY <1>1, <1>3, ConcatIs
  <2>2. Len(a) + Len(m) = k /\ Len(a) = k - 1
    BY <1>0, <1>1, <1>3, SMTT(20)
  <2> QED
    BY <2>1, <2>2
<1> HIDE DEF am
<1>5. /\ t \in Seq(E) /\ Len(t) = n + 1
      /\ \A i \in 1 .. n + 1 : t[i] = IF i <= k THEN am[i] ELSE b[i - k]
  <2>1. /\ am \o b \in Seq(E) /\ Len(am \o b) = Len(am) + Len(b)
        /\ \A i \in 1 .. Len(am) + Len(b) :
              (am \o b)[i] = IF i <= Len(am) THEN am[i] ELSE b[i - Len(am)]
    BY <1>2, <1>4, ConcatIs
  <2>2. Len(am) + Len(b) = n + 1
    BY <1>0, <1>2, <1>4, SMTT(20)
  <2> QED
    BY <2>1, <2>2, <1>4
<1> HIDE DEF t
<1>6. ASSUME NEW i \in 1 .. n + 1
      PROVE  t[i] = IF i < k THEN s[i] ELSE IF i = k THEN e ELSE s[i - 1]
  <2>1. CASE i < k
    <3>1. i <= k /\ i \in 1 .. k /\ i <= k - 1 /\ i \in 1 .. k - 1 /\ ~(i >= k)
      BY <2>1, <1>0, SMTT(20)
    <3>2. t[i] = am[i]
      BY <3>1, <1>5
    <3>3. am[i] = a[i] /\ a[i] = s[i]
      BY <3>1, <1>1, <1>4
    <3> QED
      BY <2>1, <3>2, <3>3
  <2>2. CASE i = k
    <3>1. t[i] = m[k - (k - 1)]
      BY <2>2, <1>0, <1>4, <1>5, SMTT(20)
    <3> QED
      BY <3>1, <1>0, <1>3, <2>2, SMTT(20)
  <2>3. CASE i > k
    <3>1. t[i] = b[i - k]
      BY <2>3, <1>0, <1>5, SMTT(20)
    <3>2. b[i - k] = s[k + (i - k) - 1]
      BY <2>3, <1>0, <1>2, SMTT(20)
    <3> QED
      BY <3>1, <3>2, <2>3, <1>0, SMTT(20)
  <2> QED
    BY <2>1, <2>2, <2>3, <1>0, SMTT(20)
<1>7. InsertAt(s, k, e) = t
  BY DEF InsertAt, t, am, a, b, m
<1>8. Opened(t, s, k, e)
  BY <1>5, <1>6 DEF Opened
<1> QED
  BY <1>5, <1>7, <1>8

\* Inserted keeps a slice ascending and adds one element to it.
LEMMA InsertedSorted ==
  ASSUME Counting, NEW s \in Seq(Point), Ascending(s), NEW h \in Point
  PROVE  /\ Inserted(s, h) \in Seq(Point)
         /\ Ascending(Inserted(s, h))
         /\ Range(Inserted(s, h)) = Range(s) \cup {h}
<1> DEFINE n == Len(s)
           C == {i \in DOMAIN s : s[i] > h} \cup {n + 1}
           k == Min(C)
           t == Inserted(s, h)
<1>0. n \in Nat /\ DOMAIN s = 1 .. n /\ \A i \in 1 .. n : s[i] \in Nat
  BY ClusterAssumption, SMTT(20) DEF Point
<1>1. h \in Nat
  BY ClusterAssumption, SMTT(20) DEF Point
<1>2. k \in C /\ \A i \in C : k <= i
  <2>1. C \in SUBSET Nat /\ C # {}
    BY <1>0, SMTT(20)
  <2>2. PICK x \in C : \A y \in C : x <= y
    BY <2>1, Least
  <2> HIDE DEF C
  <2> QED
    BY <2>2 DEF Min
<1> HIDE DEF k
<1>3. /\ k \in 1 .. n + 1
      /\ \A i \in 1 .. n : i < k => s[i] <= h
      /\ \A i \in 1 .. n : i >= k => s[i] > h
  <2>1. k \in 1 .. n + 1
    BY <1>0, <1>2, SMTT(20)
  <2>2. \A i \in 1 .. n : i < k => s[i] <= h
    BY <1>0, <1>1, <1>2, <2>1, SMTT(20)
  <2>3. ASSUME NEW i \in 1 .. n, i >= k PROVE s[i] > h
    <3>1. k \in 1 .. n /\ s[k] > h
      BY <1>0, <1>2, <2>1, <2>3, SMTT(20)
    <3>2. k = i \/ s[k] <= s[i]
      BY <1>0, <2>1, <2>3, <3>1, SMTT(60) DEF Ascending
    <3> QED
      BY <1>0, <1>1, <3>1, <3>2, SMTT(60)
  <2> QED
    BY <2>1, <2>2, <2>3
<1>4. /\ t \in Seq(Point) /\ Len(t) = n + 1
      /\ \A i \in 1 .. n + 1 : t[i] = IF i < k THEN s[i]
                                      ELSE IF i = k THEN h ELSE s[i - 1]
  <2>1. t = InsertAt(s, k, h)
    BY DEF Inserted, k
  <2>2. k \in 1 .. Len(s) + 1
    BY <1>3
  <2> HIDE DEF C, t, n
  <2>3. InsertAt(s, k, h) \in Seq(Point) /\ Opened(InsertAt(s, k, h), s, k, h)
    BY <2>2, InsertAtIs
  <2>4. t \in Seq(Point) /\ Opened(t, s, k, h)
    BY <2>1, <2>3
  <2> QED
    BY <2>4 DEF Opened, n
<1> HIDE DEF C, t
<1>5. DOMAIN t = 1 .. n + 1
  BY <1>4, SMTT(20)
<1>6. Ascending(t)
  <2> SUFFICES ASSUME NEW i \in 1 .. n + 1, NEW j \in 1 .. n + 1, i < j
               PROVE  t[i] <= t[j]
    BY <1>5 DEF Ascending
  <2>0. \A a, b \in 1 .. n : a < b => s[a] <= s[b]
    BY <1>0 DEF Ascending
  <2>1. CASE j < k
    BY <2>0, <2>1, <1>0, <1>3, <1>4, SMTT(20)
  <2>2. CASE j = k
    BY <2>2, <1>0, <1>1, <1>3, <1>4, SMTT(20)
  <2>3. CASE j > k /\ i < k
    <3>1. t[i] = s[i] /\ t[j] = s[j - 1] /\ i \in 1 .. n /\ j - 1 \in 1 .. n
      BY <2>3, <1>0, <1>3, <1>4, SMTT(20)
    <3> QED
      BY <2>3, <3>1, <1>0, <1>1, <1>3, SMTT(20)
  <2>4. CASE j > k /\ i = k
    <3>1. t[i] = h /\ t[j] = s[j - 1] /\ j - 1 \in 1 .. n /\ j - 1 >= k
      BY <2>4, <1>0, <1>3, <1>4, SMTT(20)
    <3> QED
      BY <3>1, <1>0, <1>1, <1>3, SMTT(20)
  <2>5. CASE i > k
    <3>1. t[i] = s[i - 1] /\ t[j] = s[j - 1] /\ i - 1 \in 1 .. n /\ j - 1 \in 1 .. n
      BY <2>5, <1>0, <1>3, <1>4, SMTT(20)
    <3> QED
      BY <2>0, <3>1, <1>0, SMTT(20)
  <2> QED
    BY <2>1, <2>2, <2>3, <2>4, <2>5, <1>3, SMTT(20)
<1>7. Range(t) = Range(s) \cup {h}
  <2>1. ASSUME NEW i \in 1 .. n + 1 PROVE t[i] = h \/ \E j \in 1 .. n : t[i] = s[j]
    <3>1. CASE i < k
      BY <3>1, <1>3, <1>4, <1>0, SMTT(20)
    <3>2. CASE i = k
      BY <3>2, <1>4, SMTT(20)
    <3>3. CASE i > k
      <4>1. i - 1 \in 1 .. n /\ t[i] = s[i - 1]
        BY <3>3, <1>3, <1>4, <1>0, SMTT(20)
      <4> QED
        BY <4>1
    <3> QED
      BY <3>1, <3>2, <3>3, <1>3, SMTT(20)
  <2>2. ASSUME NEW j \in 1 .. n PROVE \E i \in 1 .. n + 1 : t[i] = s[j]
    <3>1. CASE j < k
      BY <3>1, <1>3, <1>4, <1>0, SMTT(20)
    <3>2. CASE j >= k
      <4>1. j + 1 \in 1 .. n + 1 /\ t[j + 1] = s[(j + 1) - 1]
        BY <3>2, <1>3, <1>4, <1>0, SMTT(20)
      <4> QED
        BY <4>1, SMTT(20)
    <3> QED
      BY <3>1, <3>2, <1>3, SMTT(20)
  <2>3. t[k] = h /\ k \in 1 .. n + 1
    BY <1>3, <1>4, SMTT(20)
  <2>4. Range(t) = {t[i] : i \in 1 .. n + 1} /\ Range(s) = {s[i] : i \in 1 .. n}
    BY <1>0, <1>5 DEF Range
  <2>5. \A x : x \in Range(t) <=> x \in Range(s) \cup {h}
    BY <2>1, <2>2, <2>3, <2>4
  <2> QED
    BY <2>5
<1> QED
  BY <1>4, <1>6, <1>7 DEF t

LEMMA ToSetAppend ==
  ASSUME NEW E, NEW s \in Seq(E), NEW e \in E
  PROVE  Range(Append(s, e)) = Range(s) \cup {e}
<1> DEFINE t == Append(s, e)
           n == Len(s)
<1>1. /\ t \in Seq(E) /\ Len(t) = n + 1 /\ t[n + 1] = e
      /\ \A i \in 1 .. n : t[i] = s[i]
  BY SMTT(20)
<1>2. n \in Nat /\ DOMAIN s = 1 .. n /\ DOMAIN t = 1 .. n + 1
  BY <1>1, SMTT(20)
<1>3. Range(s) = {s[i] : i \in 1 .. n} /\ Range(t) = {t[i] : i \in 1 .. n + 1}
  BY <1>2 DEF Range
<1> HIDE DEF t, n
<1>4. 1 .. n + 1 = 1 .. n \cup {n + 1}
  BY <1>2, SMTT(20)
<1>5. \A x : x \in Range(t) <=> x \in Range(s) \cup {e}
  BY <1>1, <1>3, <1>4
<1> QED
  BY <1>5 DEF t

LEMMA ToSetConcat ==
  ASSUME NEW E, NEW s \in Seq(E), NEW t \in Seq(E)
  PROVE  Range(s \o t) = Range(s) \cup Range(t)
<1> DEFINE u == s \o t
           n == Len(s)
           m == Len(t)
<1>1. /\ u \in Seq(E) /\ Len(u) = n + m
      /\ \A i \in 1 .. n + m : u[i] = IF i <= n THEN s[i] ELSE t[i - n]
  BY SMTT(20)
<1>2. /\ n \in Nat /\ m \in Nat /\ DOMAIN s = 1 .. n /\ DOMAIN t = 1 .. m
      /\ DOMAIN u = 1 .. n + m
  BY <1>1, SMTT(20)
<1> HIDE DEF u, n, m
<1>3. /\ Range(s) = {s[i] : i \in 1 .. n} /\ Range(t) = {t[i] : i \in 1 .. m}
      /\ Range(u) = {u[i] : i \in 1 .. n + m}
  BY <1>2 DEF Range
<1>4. ASSUME NEW x \in Range(u) PROVE x \in Range(s) \cup Range(t)
  <2>1. PICK i \in 1 .. n + m : x = u[i]
    BY <1>3
  <2>2. i <= n \/ i - n \in 1 .. m
    BY <1>2, SMTT(20)
  <2> QED
    BY <1>1, <1>2, <1>3, <2>1, <2>2, SMTT(20)
<1>5. ASSUME NEW x \in Range(s) PROVE x \in Range(u)
  <2>1. PICK i \in 1 .. n : x = s[i]
    BY <1>3
  <2>2. i \in 1 .. n + m /\ u[i] = x
    BY <1>1, <1>2, <2>1, SMTT(20)
  <2> QED
    BY <1>3, <2>2
<1>6. ASSUME NEW x \in Range(t) PROVE x \in Range(u)
  <2>1. PICK i \in 1 .. m : x = t[i]
    BY <1>3
  <2>2. n + i \in 1 .. n + m /\ ~(n + i <= n) /\ (n + i) - n = i
    BY <1>2, SMTT(20)
  <2>3. u[n + i] = x
    BY <1>1, <2>1, <2>2
  <2> QED
    BY <1>3, <2>2, <2>3
<1>7. Range(u) = Range(s) \cup Range(t)
  BY <1>4, <1>5, <1>6
<1> QED
  BY <1>7 DEF u

LEMMA HashType ==
  ASSUME hash \in HashTable, NEW n \in Node
  PROVE  hash[n] \in Seq(Point) /\ Range(hash[n]) = Spots(n) /\ Spots(n) \subseteq Point
<1>1. hash[n] \in [1 .. VNodes -> Point]
  BY DEF HashTable
<1>2. VNodes \in Nat
  BY ClusterAssumption
<1>3. hash[n] \in Seq(Point)
  BY <1>1, <1>2, SMTT(20)
<1>4. DOMAIN hash[n] = 1 .. VNodes
  BY <1>1
<1> QED
  BY <1>1, <1>3, <1>4 DEF Spots, Range

LEMMA EmptyOK ==
  ASSUME Counting
  PROVE  RingOK(Empty)
<1>1. /\ Empty.points = <<>> /\ DOMAIN Empty.owners = {} /\ Empty.nodes = {}
  BY DEF Empty
<1>2. <<>> \in Seq(Point) /\ Ascending(<<>>) /\ Range(<<>>) = {}
  BY SMTT(20) DEF Ascending, Range
<1> QED
  BY <1>1, <1>2 DEF RingOK, Counting, EmptyLaw

\* RingOK is about the hashes and one ring.
LEMMA OKFrame ==
  ASSUME hash' = hash, NEW CONSTANT r, ring' = r, RingOK(r) PROVE RingOK(ring)'
<1>1. \A n : Spots(n)' = Spots(n)
  BY DEF Spots
<1>2. NoClash' => NoClash
  BY <1>1 DEF NoClash, Clash
<1> QED
  BY <1>1, <1>2 DEF RingOK

\* An order of the nodes names each of them.
LEMMA OrderIsOfAll ==
  ASSUME Counting, NEW N \in SUBSET Node, IsFiniteSet(N), NEW order \in SetToSeqs(N)
  PROVE  order \in Seq(Node) /\ Range(order) = N
<1> DEFINE c == Cardinality(N)
           I == 1 .. c
<1>1. c \in Nat
  BY DEF Counting, CardinalityLaw
<1>2. order \in [I -> N] /\ \A i, j \in I : i # j => order[i] # order[j]
  BY DEF SetToSeqs
<1>3. IsFiniteSet(I) /\ Cardinality(I) = c
  <2>1. /\ IsFiniteSet(1 .. c)
        /\ Cardinality(1 .. c) = IF 1 > c THEN 0 ELSE c - 1 + 1
    BY <1>1, SMTT(20) DEF Counting, IntervalLaw
  <2> QED
    BY <1>1, <2>1, SMTT(20)
<1>4. order \in Seq(Node)
  <2>1. order \in [1 .. c -> Node]
    BY <1>2
  <2> HIDE DEF c
  <2> QED
    BY <1>1, <2>1, SMTT(20)
<1> HIDE DEF c, I
<1>5. order \in [I -> N] /\ \A i, j \in I : order[i] = order[j] => i = j
  BY <1>2
<1>6. Cardinality(I) = Cardinality(N)
  BY <1>3 DEF c
<1>8. \A x \in N : \E i \in I : order[i] = x
  BY <1>5, <1>6, SMTT(20) DEF Counting, InjectionLaw
<1>9. DOMAIN order = I
  BY <1>2
<1> QED
  BY <1>2, <1>4, <1>8, <1>9, SMTT(20) DEF Range

\* A sequence without a repetition has as many elements as it is long.
LEMMA DistinctCount ==
  ASSUME Counting, NEW T, NEW out \in Seq(T),
         \A i, j \in 1 .. Len(out) : out[i] = out[j] => i = j
  PROVE  /\ IsFiniteSet({out[i] : i \in 1 .. Len(out)})
         /\ Cardinality({out[i] : i \in 1 .. Len(out)}) = Len(out)
<1> DEFINE c == Len(out)
           I == 1 .. c
           X == {out[i] : i \in I}
<1>1. c \in Nat /\ DOMAIN out = I
  BY SMTT(20)
<1>2. IsFiniteSet(I) /\ Cardinality(I) = c
  <2>1. /\ IsFiniteSet(1 .. c)
        /\ Cardinality(1 .. c) = IF 1 > c THEN 0 ELSE c - 1 + 1
    BY <1>1, SMTT(20) DEF Counting, IntervalLaw
  <2> QED
    BY <1>1, <2>1, SMTT(60)
<1>3. out = [i \in I |-> out[i]]
  BY <1>1, SMTT(20)
<1> HIDE DEF c
<1>4. out \in [I -> X]
  BY <1>3
<1>5. /\ \A i, j \in I : out[i] = out[j] => i = j
      /\ \A x \in X : \E i \in I : out[i] = x
  BY <1>4 DEF c
<1> HIDE DEF I, X
<1>8. IsFiniteSet(X) /\ Cardinality(X) = Cardinality(I)
  BY <1>2, <1>4, <1>5 DEF Counting, BijectionLaw
<1> QED
  BY <1>2, <1>8 DEF c, I, X

-----------------------------------------------------------------------------
(* The walk of GetN, and the nodes collected on it.                         *)

\* The i-th node collected is the one at f on the walk, and the nodes before f
\* were collected before it.
MetAt(out, i, w, f) ==
    /\ w[f] = out[i]
    /\ \A j \in 1 .. f - 1 : \E k \in 1 .. i - 1 : out[k] = w[j]

\* What the loop of GetN has in out when it has walked over w: no node twice,
\* at most as many as asked for, every node met unless there are that many,
\* and each before the ones met later.
Collected(most, out, w) ==
    /\ out \in Seq(Node) /\ Len(out) <= most
    /\ \A i, j \in 1 .. Len(out) : out[i] = out[j] => i = j
    /\ \/ Len(out) = most
       \/ \A j \in 1 .. Len(w) : \E i \in 1 .. Len(out) : out[i] = w[j]
    /\ \A i \in 1 .. Len(out) : \E f \in 1 .. Len(w) : MetAt(out, i, w, f)

\* One turn of the loop.
LEMMA VisitCollects ==
  ASSUME NEW most \in Nat, NEW w \in Seq(Node), NEW out, NEW m \in Node,
         Collected(most, out, w)
  PROVE  Collected(most, Visit(most, out, m), Append(w, m))
<1> DEFINE w2 == Append(w, m)
           out2 == Visit(most, out, m)
           n == Len(w)
           c == Len(out)
<1>1. /\ out \in Seq(Node) /\ c <= most
      /\ \A i, j \in 1 .. c : out[i] = out[j] => i = j
      /\ c = most \/ \A j \in 1 .. n : \E i \in 1 .. c : out[i] = w[j]
      /\ \A i \in 1 .. c : \E f \in 1 .. n : MetAt(out, i, w, f)
  BY DEF Collected
<1>2. n \in Nat /\ c \in Nat /\ DOMAIN out = 1 .. c
  BY <1>1, SMTT(20)
<1>3. /\ w2 \in Seq(Node) /\ Len(w2) = n + 1 /\ w2[n + 1] = m
      /\ \A i \in 1 .. n : w2[i] = w[i]
  BY SMTT(20)
<1>4. Range(out) = {out[i] : i \in 1 .. c}
  BY <1>2 DEF Range
<1> HIDE DEF w2, n, c
<1>5. 1 .. n + 1 = 1 .. n \cup {n + 1}
  BY <1>2, SMTT(20)
\* What holds of the nodes collected so far holds on the longer walk.
<1>6. ASSUME NEW i \in 1 .. c, NEW o, \A k \in 1 .. c : o[k] = out[k]
      PROVE  \E f \in 1 .. n + 1 : MetAt(o, i, w2, f)
  <2>1. PICK f \in 1 .. n : MetAt(out, i, w, f)
    BY <1>1
  <2>2. f \in 1 .. n + 1 /\ w2[f] = o[i]
    BY <1>3, <1>5, <1>6, <2>1 DEF MetAt
  <2>3. ASSUME NEW j \in 1 .. f - 1 PROVE \E k \in 1 .. i - 1 : o[k] = w2[j]
    <3>1. j \in 1 .. n
      BY <1>2, SMTT(20)
    <3>2. PICK k \in 1 .. i - 1 : out[k] = w[j]
      BY <2>1 DEF MetAt
    <3>3. k \in 1 .. c
      BY <1>2, SMTT(20)
    <3> QED
      BY <1>3, <1>6, <3>1, <3>2, <3>3
  <2> QED
    BY <2>2, <2>3 DEF MetAt
<1>7. CASE c = most \/ m \in Range(out)
  <2>1. out2 = out
    BY <1>7 DEF Visit, c
  <2> HIDE DEF out2
  <2>2. c = most \/ \A j \in 1 .. n + 1 : \E i \in 1 .. c : out2[i] = w2[j]
    <3>1. CASE c = most
      BY <3>1
    <3>2. CASE c # most
      <4>1. PICK i0 \in 1 .. c : out[i0] = m
        BY <1>4, <1>7, <3>2
      <4>2. \A j \in 1 .. n : \E i \in 1 .. c : out[i] = w2[j]
        BY <1>1, <1>3, <3>2
      <4> QED
        BY <1>3, <1>5, <2>1, <4>1, <4>2
    <3> QED
      BY <3>1, <3>2
  <2>3. \A k \in 1 .. c : out2[k] = out[k]
    BY <2>1
  <2>4. \A i \in 1 .. c : \E f \in 1 .. n + 1 : MetAt(out2, i, w2, f)
    BY <1>6, <2>3
  <2>5. Len(out2) = c /\ Len(w2) = n + 1 /\ out2 \in Seq(Node)
    BY <1>1, <1>3, <2>1 DEF c
  <2>6. \A i, j \in 1 .. c : out2[i] = out2[j] => i = j
    BY <1>1, <2>3
  <2>7. Collected(most, out2, w2)
    BY <1>1, <2>2, <2>4, <2>5, <2>6 DEF Collected
  <2> QED
    BY <2>7 DEF w2, out2
<1>8. CASE c # most /\ m \notin Range(out)
  <2>1. out2 = Append(out, m)
    BY <1>8 DEF Visit, c
  <2>2. /\ out2 \in Seq(Node) /\ Len(out2) = c + 1 /\ out2[c + 1] = m
        /\ \A i \in 1 .. c : out2[i] = out[i]
    BY <1>1, <2>1, SMTT(20) DEF c
  <2> HIDE DEF out2
  <2>3. 1 .. c + 1 = 1 .. c \cup {c + 1}
    BY <1>2, SMTT(20)
  <2>4. c + 1 <= most
    BY <1>1, <1>2, <1>8, SMTT(20)
  <2>5. \A i \in 1 .. c : out[i] # m
    BY <1>4, <1>8
  <2>6. \A i, j \in 1 .. c + 1 : out2[i] = out2[j] => i = j
    <3> SUFFICES ASSUME NEW i \in 1 .. c + 1, NEW j \in 1 .. c + 1, out2[i] = out2[j]
                 PROVE  i = j
      OBVIOUS
    <3>1. CASE i \in 1 .. c /\ j \in 1 .. c
      BY <1>1, <2>2, <3>1
    <3>2. CASE i = c + 1 /\ j \in 1 .. c
      BY <2>2, <2>5, <3>2
    <3>3. CASE j = c + 1 /\ i \in 1 .. c
      BY <2>2, <2>5, <3>3
    <3> QED
      BY <2>3, <3>1, <3>2, <3>3
  <2>7. \A j \in 1 .. n + 1 : \E i \in 1 .. c + 1 : out2[i] = w2[j]
    <3> SUFFICES ASSUME NEW j \in 1 .. n + 1 PROVE \E i \in 1 .. c + 1 : out2[i] = w2[j]
      OBVIOUS
    <3>1. CASE j = n + 1
      BY <1>3, <2>2, <2>3, <3>1
    <3>2. CASE j \in 1 .. n
      <4>1. PICK i \in 1 .. c : out[i] = w[j]
        BY <1>1, <1>8, <3>2
      <4> QED
        BY <1>3, <2>2, <2>3, <3>2, <4>1
    <3> QED
      BY <1>5, <3>1, <3>2
  <2>8. ASSUME NEW i \in 1 .. c + 1
        PROVE  \E f \in 1 .. n + 1 : MetAt(out2, i, w2, f)
    <3>1. CASE i \in 1 .. c
      <4>1. \A k \in 1 .. c : out2[k] = out[k]
        BY <2>2
      <4> QED
        BY <1>6, <3>1, <4>1
    <3>2. CASE i = c + 1
      <4>1. n + 1 \in 1 .. n + 1 /\ w2[n + 1] = out2[i]
        BY <1>3, <1>5, <2>2, <3>2
      <4>2. ASSUME NEW j \in 1 .. n PROVE \E k \in 1 .. c : out2[k] = w2[j]
        <5>1. PICK k \in 1 .. c : out[k] = w[j]
          BY <1>1, <1>8
        <5> QED
          BY <1>3, <2>2, <5>1
      <4>3. (n + 1) - 1 = n /\ i - 1 = c
        BY <1>2, <3>2, SMTT(20)
      <4> QED
        BY <4>1, <4>2, <4>3 DEF MetAt
    <3> QED
      BY <2>3, <3>1, <3>2
  <2>9. Collected(most, out2, w2)
    <3>1. \A i \in 1 .. c + 1 : \E f \in 1 .. n + 1 : MetAt(out2, i, w2, f)
      BY <2>8
    <3>2. Len(out2) = c + 1 /\ Len(w2) = n + 1 /\ out2 \in Seq(Node)
      BY <1>3, <2>2
    <3> QED
      BY <2>4, <2>6, <2>7, <3>1, <3>2 DEF Collected
  <2> QED
    BY <2>9 DEF w2, out2
<1> QED
  BY <1>7, <1>8

\* The walk from h: the i-th point met is pt[i], of node w[i]; every point is
\* met, the nearest first.
WalksOver(h, pt, w, n) ==
    /\ n \in Nat /\ pt \in [1 .. n -> DOMAIN ring.owners] /\ w \in Seq(Node) /\ Len(w) = n
    /\ \A i \in 1 .. n : pt[i] \in Point /\ w[i] = ring.owners[pt[i]]
    /\ \A p \in DOMAIN ring.owners : \E i \in 1 .. n : pt[i] = p
    /\ \A i, j \in 1 .. n : i <= j => Distance(h, pt[i]) <= Distance(h, pt[j])

LEMMA WalkWalks ==
  ASSUME Counting, RingInv, NEW h \in Point
  PROVE  /\ \E pt : WalksOver(h, pt, Walk(ring, h), Len(ring.points))
         /\ ring.points # <<>> => Walk(ring, h)[1] = Get(ring, h)
<1> DEFINE s == ring.points
           n == Len(s)
           w == Walk(ring, h)
           P(i) == Place(ring, h, i)
           pt == [i \in 1 .. n |-> s[P(i)]]
<1>0. /\ s \in Seq(Point) /\ Ascending(s) /\ Range(s) = DOMAIN ring.owners
      /\ \A p \in DOMAIN ring.owners : ring.owners[p] \in Node
  BY DEF RingInv, RingOK
<1>1. n \in Nat /\ DOMAIN s = 1 .. n /\ \A i \in 1 .. n : s[i] \in Point
  BY <1>0, SMTT(20)
<1>2. DOMAIN ring.owners = {s[i] : i \in 1 .. n}
  BY <1>0, <1>1 DEF Range
<1>3. w = [i \in 1 .. n |-> ring.owners[s[P(i)]]]
  BY DEF Walk, Place
<1>4. /\ \A i \in 1 .. n : P(i) \in 1 .. n
      /\ \A j \in 1 .. n : \E i \in 1 .. n : P(i) = j
      /\ \A i, j \in 1 .. n : i <= j => Distance(h, s[P(i)]) <= Distance(h, s[P(j)])
      /\ s # <<>> => 1 \in 1 .. n /\ P(1) = Search(ring, h)
  <2>1. CASE s = <<>>
    <3>1. n = 0
      BY <2>1, SMTT(20)
    <3> QED
      BY <2>1, <3>1, SMTT(20)
  <2>2. CASE s # <<>>
    <3>1. /\ n \in Nat \ {0} /\ \A i \in 1 .. n : P(i) \in 1 .. n
          /\ P(1) = Search(ring, h)
          /\ \A j \in 1 .. n : \E i \in 1 .. n : P(i) = j
          /\ \A i, j \in 1 .. n : i <= j =>
                Distance(h, s[P(i)]) <= Distance(h, s[P(j)])
      BY <1>0, <2>2, WalkIsOrdered
    <3>2. 1 \in 1 .. n
      BY <3>1, SMTT(20)
    <3> QED
      BY <3>1, <3>2
  <2> QED
    BY <2>1, <2>2
<1>5. s # <<>> => w[1] = Get(ring, h)
  BY <1>3, <1>4 DEF Get
<1> HIDE DEF s, n, P, w
<1>6. \A i \in 1 .. n : pt[i] = s[P(i)] /\ pt[i] \in Point /\ pt[i] \in DOMAIN ring.owners
  BY <1>1, <1>2, <1>4
<1>7. pt \in [1 .. n -> DOMAIN ring.owners]
  BY <1>6
<1>8. \A i \in 1 .. n : w[i] = ring.owners[pt[i]] /\ w[i] \in Node
  BY <1>0, <1>3, <1>6
<1>9. w \in Seq(Node) /\ Len(w) = n
  <2>1. w \in [1 .. n -> Node]
    BY <1>3, <1>8
  <2> QED
    BY <1>1, <2>1, SMTT(20)
<1>10. ASSUME NEW p \in DOMAIN ring.owners PROVE \E i \in 1 .. n : pt[i] = p
  <2>1. PICK j \in 1 .. n : p = s[j]
    BY <1>2
  <2>2. PICK i \in 1 .. n : P(i) = j
    BY <1>4
  <2> QED
    BY <1>6, <2>1, <2>2
<1>11. \A i, j \in 1 .. n : i <= j => Distance(h, pt[i]) <= Distance(h, pt[j])
  BY <1>4, <1>6
<1> HIDE DEF pt
<1>12. WalksOver(h, pt, w, n)
  BY <1>1, <1>6, <1>7, <1>8, <1>9, <1>10, <1>11 DEF WalksOver
<1> QED
  BY <1>5, <1>12 DEF w, n, s

\* A node is as far as its first point on the walk.
LEMMA ReachIs ==
  ASSUME NEW h \in Point, NEW pt, NEW w, NEW n, WalksOver(h, pt, w, n),
         NEW f \in 1 .. n, \A j \in 1 .. n : w[j] = w[f] => f <= j
  PROVE  Reach(w[f], h) = Distance(h, pt[f])
<1> DEFINE m == w[f]
           ds == {Distance(h, p) : p \in {q \in DOMAIN ring.owners : ring.owners[q] = m}}
           d == Distance(h, pt[f])
<1>1. d \in ds
  BY DEF WalksOver
<1>2. ASSUME NEW e \in ds PROVE d <= e /\ e \in Nat
  <2>1. PICK q \in DOMAIN ring.owners : ring.owners[q] = m /\ e = Distance(h, q)
    OBVIOUS
  <2>2. PICK j \in 1 .. n : pt[j] = q
    BY DEF WalksOver
  <2>3. w[j] = m
    BY <2>1, <2>2 DEF WalksOver
  <2>4. f <= j
    BY <2>3
  <2>5. q \in Point
    BY <2>2 DEF WalksOver
  <2> QED
    BY <2>1, <2>2, <2>4, <2>5, DistanceOrder DEF WalksOver
<1>3. Reach(m, h) = CHOOSE x \in ds : \A e \in ds : x <= e
  BY DEF Reach
<1> HIDE DEF ds, d, m
<1>4. \A x \in ds : (\A e \in ds : x <= e) => x = d
  <2> SUFFICES ASSUME NEW x \in ds, \A e \in ds : x <= e PROVE x = d
    OBVIOUS
  <2>1. x <= d /\ d <= x /\ x \in Nat /\ d \in Nat
    BY <1>1, <1>2
  <2> QED
    BY <2>1, SMTT(20)
<1>5. d \in ds /\ \A e \in ds : d <= e
  BY <1>1, <1>2
<1>6. Reach(m, h) = d
  BY <1>3, <1>4, <1>5
<1> QED
  BY <1>6 DEF m, d

\* The owner by Get is the owner by the definition of consistent hashing.
LEMMA OwnerIsOwner ==
  ASSUME Counting, RingInv, NEW h \in Point, NEW m \in Node
  PROVE  Owns(m, h) <=> Get(ring, h) = m
<1>0. RingOK(ring)
  BY DEF RingInv
<1>1. CASE DOMAIN ring.owners = {}
  <2>1. Get(ring, h) = NoNode
    BY <1>0, <1>1, GetIsNearest
  <2> QED
    BY <1>1, <2>1, ClusterAssumption DEF Owns
<1>2. CASE DOMAIN ring.owners # {}
  <2>1. PICK p \in DOMAIN ring.owners :
            /\ p \in Point /\ Get(ring, h) = ring.owners[p]
            /\ \A q \in DOMAIN ring.owners : q \in Point /\ Distance(h, p) <= Distance(h, q)
    BY <1>0, <1>2, GetIsNearest
  <2>2. Get(ring, h) = m => Owns(m, h)
    BY <2>1 DEF Owns
  <2>3. ASSUME Owns(m, h) PROVE Get(ring, h) = m
    <3>1. PICK q \in DOMAIN ring.owners :
              /\ ring.owners[q] = m
              /\ \A z \in DOMAIN ring.owners : Distance(h, q) <= Distance(h, z)
      BY <2>3 DEF Owns
    <3>2. q \in Point /\ Distance(h, p) <= Distance(h, q) /\ Distance(h, q) <= Distance(h, p)
      BY <2>1, <3>1
    <3>3. Distance(h, p) \in Nat /\ Distance(h, q) \in Nat
      BY <2>1, <3>2, DistanceOrder
    <3>4. Distance(h, p) = Distance(h, q)
      BY <3>2, <3>3, SMTT(20)
    <3>5. p = q
      BY <2>1, <3>2, <3>4, DistanceOrder
    <3> QED
      BY <2>1, <3>1, <3>5
  <2> QED
    BY <2>2, <2>3
<1> QED
  BY <1>1, <1>2

\* Unless there are as many as asked for, all that have a point are there.
LEMMA CollectedAll ==
  ASSUME Counting, RingInv, NEW h \in Point, NEW pt, NEW w, NEW n, WalksOver(h, pt, w, n),
         NEW out \in Seq(Node),
         \/ Collected(ReplicationFactor, out, w)
         \/ Collected(Cardinality(ring.nodes), out, w)
  PROVE  \/ Len(out) = ReplicationFactor
         \/ {out[i] : i \in 1 .. Len(out)} = {ring.owners[p] : p \in DOMAIN ring.owners}
<1> DEFINE ids == {out[i] : i \in 1 .. Len(out)}
           holders == {ring.owners[p] : p \in DOMAIN ring.owners}
           N == ring.nodes
<1>1. /\ \A i, j \in 1 .. Len(out) : out[i] = out[j] => i = j
      /\ \A i \in 1 .. Len(out) : \E f \in 1 .. Len(w) : MetAt(out, i, w, f)
      /\ \/ Len(out) = ReplicationFactor
         \/ Len(out) = Cardinality(N)
         \/ \A j \in 1 .. Len(w) : \E i \in 1 .. Len(out) : out[i] = w[j]
  BY DEF Collected
<1>2. Len(w) = n
  BY DEF WalksOver
<1>3. ids \subseteq holders
  <2> SUFFICES ASSUME NEW i \in 1 .. Len(out) PROVE out[i] \in holders
    OBVIOUS
  <2>1. PICK f \in 1 .. n : MetAt(out, i, w, f)
    BY <1>1, <1>2
  <2>2. w[f] = ring.owners[pt[f]] /\ pt[f] \in DOMAIN ring.owners
    BY DEF WalksOver
  <2> QED
    BY <2>1, <2>2 DEF MetAt
<1>4. holders \subseteq N /\ IsFiniteSet(N)
  BY DEF RingInv, RingOK
<1>5. CASE \A j \in 1 .. Len(w) : \E i \in 1 .. Len(out) : out[i] = w[j]
  <2>1. ASSUME NEW p \in DOMAIN ring.owners PROVE ring.owners[p] \in ids
    <3>1. PICK j \in 1 .. n : pt[j] = p
      BY DEF WalksOver
    <3>2. w[j] = ring.owners[p]
      BY <3>1 DEF WalksOver
    <3> QED
      BY <1>2, <1>5, <3>2
  <2> QED
    BY <1>3, <2>1
<1>6. CASE Len(out) = Cardinality(N)
  <2>1. IsFiniteSet(ids) /\ Cardinality(ids) = Len(out)
    BY <1>1, DistinctCount
  <2> HIDE DEF ids, holders, N
  <2>2. ids \subseteq N
    BY <1>3, <1>4
  <2>3. Cardinality(N) = Cardinality(ids) => ids = N
    BY <1>4, <2>2 DEF Counting, SubsetLaw
  <2>4. ids = N
    BY <1>6, <2>1, <2>3
  <2>5. ids = holders
    BY <1>3, <1>4, <2>4
  <2> QED
    BY <2>5 DEF ids, holders
<1> QED
  BY <1>1, <1>5, <1>6

\* What the replicas of h are, as the nodes collected from the walk.
LEMMA CollectedNearest ==
  ASSUME Counting, RingInv, NEW h \in Point, NEW pt, NEW w, NEW n, WalksOver(h, pt, w, n),
         NEW most, NEW out, Collected(most, out, w),
         NEW i \in 1 .. Len(out), NEW m \in {ring.owners[p] : p \in DOMAIN ring.owners},
         \A j \in 1 .. i : out[j] # m
  PROVE  Reach(out[i], h) < Reach(m, h)
<1>1. Len(w) = n /\ n \in Nat /\ Len(out) \in Nat
  BY SMTT(20) DEF WalksOver, Collected
<1>2. PICK f \in 1 .. n : MetAt(out, i, w, f)
  BY <1>1 DEF Collected
<1>3. w[f] = out[i] /\ \A j \in 1 .. f - 1 : \E k \in 1 .. i - 1 : out[k] = w[j]
  BY <1>2 DEF MetAt
<1>4. \A j, k \in 1 .. Len(out) : out[j] = out[k] => j = k
  BY DEF Collected
<1>5. ASSUME NEW j \in 1 .. n, w[j] = w[f] PROVE f <= j
  <2> SUFFICES ASSUME j < f PROVE FALSE
    BY <1>1, SMTT(20)
  <2>1. j \in 1 .. f - 1
    BY <1>1, SMTT(20)
  <2>2. PICK k \in 1 .. i - 1 : out[k] = w[j]
    BY <1>3, <2>1
  <2>3. k \in 1 .. Len(out) /\ k # i
    BY <1>1, SMTT(20)
  <2> QED
    BY <1>3, <1>4, <1>5, <2>2, <2>3
<1>6. PICK q \in DOMAIN ring.owners : ring.owners[q] = m
  OBVIOUS
<1>7. PICK g0 \in 1 .. n : pt[g0] = q
  BY DEF WalksOver
<1> DEFINE G == {j \in 1 .. n : w[j] = m}
<1>8. g0 \in G
  BY <1>6, <1>7 DEF WalksOver
<1>9. PICK g \in G : \A j \in G : g <= j
  <2>1. G \in SUBSET Nat /\ G # {}
    BY <1>1, <1>8, SMTT(20)
  <2> HIDE DEF G
  <2> QED
    BY <2>1, Least
<1>10. g \in 1 .. n /\ w[g] = m /\ \A j \in 1 .. n : w[j] = w[g] => g <= j
  BY <1>9
<1> HIDE DEF G
<1>11. f < g
  <2> SUFFICES ASSUME g <= f PROVE FALSE
    BY <1>1, <1>10, SMTT(20)
  <2>1. CASE g = f
    <3>1. i \in 1 .. i
      BY <1>1, SMTT(20)
    <3> QED
      BY <1>3, <1>10, <2>1, <3>1
  <2>2. CASE g < f
    <3>1. g \in 1 .. f - 1
      BY <1>1, <1>10, <2>2, SMTT(20)
    <3>2. PICK k \in 1 .. i - 1 : out[k] = w[g]
      BY <1>3, <3>1
    <3>3. k \in 1 .. i
      BY <1>1, SMTT(20)
    <3> QED
      BY <1>10, <3>2, <3>3
  <2> QED
    BY <1>1, <1>10, <2>1, <2>2, SMTT(20)
<1>12. Reach(out[i], h) = Distance(h, pt[f])
  BY <1>3, <1>5, ReachIs, SMTT(20)
<1>13. Reach(m, h) = Distance(h, pt[g])
  BY <1>10, ReachIs, SMTT(20)
<1>14. Distance(h, pt[f]) <= Distance(h, pt[g])
  BY <1>1, <1>10, <1>11, SMTT(20) DEF WalksOver
<1>15. pt[f] \in Point /\ pt[g] \in Point /\ w[f] = ring.owners[pt[f]] /\ w[g] = ring.owners[pt[g]]
  BY <1>10 DEF WalksOver
<1>16. w[f] # w[g]
  BY <1>1, <1>10, <1>11, SMTT(20)
<1>17. pt[f] # pt[g]
  BY <1>15, <1>16
<1>18. /\ Distance(h, pt[f]) \in Nat /\ Distance(h, pt[g]) \in Nat
       /\ Distance(h, pt[f]) # Distance(h, pt[g])
  BY <1>15, <1>17, DistanceOrder
<1> QED
  BY <1>12, <1>13, <1>14, <1>18, SMTT(20)

-----------------------------------------------------------------------------
(* The registry: Add and Remove keep RingInv.                               *)

\* The turns of the loops, in the form that Folding takes.
SortStep(p, s, h) == Inserted(s, h)

Sorting == INSTANCE Folding WITH Op <- SortStep

LEMMA SortingOrder ==
  ASSUME Counting
  PROVE  Sorting!WellOrdered
  BY DEF Counting, WellOrdered, Sorting!WellOrdered

LEMMA SortedIsFold == \A s : Sorted(s) = Sorting!Fold(0, <<>>, s)
  BY DEF Sorted, SortStep, Sorting!Fold, FoldLeft, MapThenFoldSet,
         Sorting!MapThenFoldSet, Max, Sorting!Greatest

\* Sorted returns the same elements, ascending: what sort.Slice promises.
LEMMA SortedSorts ==
  ASSUME Counting, NEW s \in Seq(Point)
  PROVE  /\ Sorted(s) \in Seq(Point)
         /\ Ascending(Sorted(s))
         /\ Range(Sorted(s)) = Range(s)
<1> DEFINE Good(t) == /\ Sorted(t) \in Seq(Point)
                      /\ Ascending(Sorted(t))
                      /\ Range(Sorted(t)) = Range(t)
           S == {t \in Seq(Point) : Good(t)}
<1>1. <<>> \in S
  <2>1. Sorted(<<>>) = <<>>
    BY SortedIsFold, SortingOrder, Sorting!FoldNil
  <2>2. <<>> \in Seq(Point) /\ Ascending(<<>>)
    BY SMTT(20) DEF Ascending
  <2> QED
    BY <2>1, <2>2
<1>2. ASSUME NEW t \in Seq(Point), NEW h \in Point, t \in S
      PROVE  Append(t, h) \in S
  <2>1. Sorted(Append(t, h)) = Inserted(Sorted(t), h)
    <3>1. Sorting!Fold(0, <<>>, Append(t, h)) = SortStep(0, Sorting!Fold(0, <<>>, t), h)
      BY SortingOrder, Sorting!FoldAppend, SMTT(20)
    <3> QED
      BY <3>1, SortedIsFold DEF SortStep
  <2> DEFINE u == Sorted(t)
             v == Append(t, h)
  <2>2. u \in Seq(Point) /\ Ascending(u) /\ Range(u) = Range(t)
    BY <1>2
  <2>3. v \in Seq(Point) /\ Range(v) = Range(t) \cup {h} /\ Sorted(v) = Inserted(u, h)
    BY <2>1, ToSetAppend, SMTT(20)
  <2> HIDE DEF u, v
  <2>4. /\ Inserted(u, h) \in Seq(Point) /\ Ascending(Inserted(u, h))
        /\ Range(Inserted(u, h)) = Range(u) \cup {h}
    BY <2>2, InsertedSorted
  <2>5. v \in S
    BY <2>2, <2>3, <2>4
  <2> QED
    BY <2>5 DEF v
<1> HIDE DEF Good
<1>3. \A t \in Seq(Point) : t \in S
  <2> HIDE DEF S
  <2> QED BY <1>1, <1>2, SortingOrder, Sorting!SeqInduct
<1> QED
  BY <1>3 DEF Good

Keeping == INSTANCE Folding WITH Op <- Keep

LEMMA KeepingOrder ==
  ASSUME Counting
  PROVE  Keeping!WellOrdered
  BY DEF Counting, WellOrdered, Keeping!WellOrdered

\* The loop of Remove keeps the points that still have an owner, in order.
LEMMA KeptKeeps ==
  ASSUME Counting, NEW s \in Seq(Point), Ascending(s), NEW o
  PROVE  /\ Kept(s, o) \in Seq(Point)
         /\ Ascending(Kept(s, o))
         /\ Range(Kept(s, o)) = Range(s) \cap DOMAIN o
<1> DEFINE D == DOMAIN o
           t == Keeping!Fold(D, <<>>, s)
<1>1. Kept(s, o) = t
  BY DEF Kept, Keep, Keeping!Fold, FoldLeft, MapThenFoldSet,
         Keeping!MapThenFoldSet, Max, Keeping!Greatest
<1> HIDE DEF D
<1>2. \A a \in Seq(Point), e \in Point :
         Keep(D, a, e) = IF e \in D THEN Append(a, e) ELSE a
  BY DEF Keep
<1>3. t \in Seq(Point) /\ \E f : Keeping!Selects(f, t, s, D)
  BY <1>2, KeepingOrder, Keeping!FoldSelects
<1> HIDE DEF t
<1>4. PICK f : Keeping!Selects(f, t, s, D)
  BY <1>3
<1> DEFINE m == Len(t)
           n == Len(s)
<1>5. /\ \A i \in 1 .. m : f[i] \in 1 .. n
      /\ \A i, j \in 1 .. m : i < j => f[i] < f[j]
      /\ \A i \in 1 .. m : t[i] = s[f[i]] /\ t[i] \in D
      /\ \A j \in 1 .. n : s[j] \in D => \E i \in 1 .. m : f[i] = j
  BY <1>4 DEF Keeping!Selects
<1>6. DOMAIN t = 1 .. m /\ DOMAIN s = 1 .. n
  BY <1>3, SMTT(20)
<1> HIDE DEF m, n
<1>7. Ascending(t)
  BY <1>5, <1>6, SMTT(20) DEF Ascending
<1>8. Range(t) = {t[i] : i \in 1 .. m} /\ Range(s) = {s[i] : i \in 1 .. n}
  BY <1>6 DEF Range
<1>9. \A x : x \in Range(t) <=> x \in Range(s) \cap D
  <2>1. ASSUME NEW x \in Range(t) PROVE x \in Range(s) \cap D
    BY <1>5, <1>8, SMTT(20)
  <2>2. ASSUME NEW x \in Range(s) \cap D PROVE x \in Range(t)
    <3>1. PICK j \in 1 .. n : x = s[j]
      BY <1>8
    <3>2. PICK i \in 1 .. m : f[i] = j
      BY <1>5, <3>1
    <3> QED
      BY <1>5, <1>8, <3>1, <3>2
  <2> QED
    BY <2>1, <2>2
<1> QED
  BY <1>1, <1>3, <1>7, <1>9 DEF D

\* Ring.Add keeps a ring sound, whatever points of others it takes over.
LEMMA AddOK ==
  ASSUME Counting, hash \in HashTable, NEW r, RingOK(r), NEW n \in Node
  PROVE  RingOK(RingAdd(r, n)) /\ RingAdd(r, n).nodes = r.nodes \cup {n}
<1>1. CASE n \in r.nodes
  BY <1>1 DEF RingAdd
<1>2. CASE n \notin r.nodes
  <2> DEFINE a == RingAdd(r, n)
             q == r.points \o hash[n]
  <2>1. a = [points |-> Sorted(q),
             owners |-> [h \in DOMAIN r.owners \cup Spots(n) |->
                           IF h \in Spots(n) THEN n ELSE r.owners[h]],
             nodes |-> r.nodes \cup {n}]
    BY <1>2 DEF RingAdd
  <2> HIDE DEF a
  <2>2. /\ a.points = Sorted(q) /\ a.nodes = r.nodes \cup {n}
        /\ DOMAIN a.owners = DOMAIN r.owners \cup Spots(n)
        /\ \A h \in Spots(n) : a.owners[h] = n
        /\ \A h \in DOMAIN r.owners \ Spots(n) : a.owners[h] = r.owners[h]
    BY <2>1
  <2>3. hash[n] \in Seq(Point) /\ Range(hash[n]) = Spots(n)
    BY HashType
  <2>4. r.points \in Seq(Point)
    BY DEF RingOK
  <2>5. q \in Seq(Point) /\ Range(q) = Range(r.points) \cup Spots(n)
    BY <2>3, <2>4, ToSetConcat, SMTT(20)
  <2> HIDE DEF q
  <2>6. /\ a.points \in Seq(Point) /\ Ascending(a.points)
        /\ Range(a.points) = DOMAIN a.owners
    BY <2>2, <2>5, SortedSorts DEF RingOK
  <2>7. a.nodes \in SUBSET Node /\ IsFiniteSet(a.nodes)
    BY <2>2, SMTT(20) DEF RingOK, Counting, AddLaw
  <2>8. \A p \in DOMAIN a.owners : a.owners[p] \in a.nodes /\ p \in Spots(a.owners[p])
    BY <2>2 DEF RingOK
  <2>9. NoClash => \A m \in a.nodes : Spots(m) \subseteq DOMAIN a.owners
    BY <2>2 DEF RingOK
  <2> QED
    BY <2>2, <2>6, <2>7, <2>8, <2>9 DEF RingOK, a
<1> QED
  BY <1>1, <1>2

\* Ring.Remove keeps a ring sound.
LEMMA RemoveOK ==
  ASSUME Counting, NEW r, RingOK(r), NEW n \in r.nodes
  PROVE  RingOK(RingRemove(r, n)) /\ RingRemove(r, n).nodes = r.nodes \ {n}
<1> DEFINE a == RingRemove(r, n)
           o == OwnersWithout(r, n)
<1>1. a = [points |-> Kept(r.points, o), owners |-> o, nodes |-> r.nodes \ {n}]
  <2> HIDE DEF o
  <2> QED
    BY DEF RingRemove, o
<1>2. /\ DOMAIN o = DOMAIN r.owners \ Spots(n)
      /\ \A p \in DOMAIN o : o[p] = r.owners[p]
  BY DEF OwnersWithout
<1> HIDE DEF a, o
<1>3. a.points = Kept(r.points, o) /\ a.owners = o /\ a.nodes = r.nodes \ {n}
  BY <1>1
<1>4. /\ a.points \in Seq(Point) /\ Ascending(a.points)
      /\ Range(a.points) = DOMAIN a.owners
  <2> DEFINE q == r.points
  <2>1. q \in Seq(Point) /\ Ascending(q) /\ Range(q) = DOMAIN r.owners
    BY DEF RingOK
  <2>2. a.points = Kept(q, o)
    BY <1>3
  <2> HIDE DEF q
  <2>3. /\ Kept(q, o) \in Seq(Point) /\ Ascending(Kept(q, o))
        /\ Range(Kept(q, o)) = Range(q) \cap DOMAIN o
    BY <2>1, KeptKeeps
  <2> QED
    BY <1>2, <1>3, <2>1, <2>2, <2>3
<1>5. a.nodes \in SUBSET Node /\ IsFiniteSet(a.nodes)
  <2>1. IsFiniteSet(r.nodes \ {n})
    BY DEF RingOK, Counting, RemoveLaw
  <2> QED
    BY <1>3, <2>1 DEF RingOK
<1>6. ASSUME NEW p \in DOMAIN a.owners
      PROVE  a.owners[p] \in a.nodes /\ p \in Spots(a.owners[p])
  BY <1>2, <1>3 DEF RingOK
<1>7. ASSUME NoClash, NEW m \in a.nodes PROVE Spots(m) \subseteq DOMAIN a.owners
  <2>1. m \in Node /\ n \in Node /\ m # n /\ Spots(m) \subseteq DOMAIN r.owners
    BY <1>3, <1>7 DEF RingOK
  <2>2. Spots(n) \cap Spots(m) = {}
    BY <1>7, <2>1 DEF NoClash, Clash
  <2> QED
    BY <1>2, <1>3, <2>1, <2>2
<1> QED
  BY <1>3, <1>4, <1>5, <1>6, <1>7 DEF RingOK, a

LEMMA InitRingInv ==
  ASSUME Counting
  PROVE  CInit => RingInv
<1> SUFFICES ASSUME CInit PROVE RingInv
  OBVIOUS
<1>1. hash \in HashTable /\ ring = RingAdd(Empty, Self) /\ DOMAIN age = {Self}
  BY DEF CInit
<1>2. RingOK(RingAdd(Empty, Self)) /\ RingAdd(Empty, Self).nodes = Empty.nodes \cup {Self}
  BY <1>1, EmptyOK, AddOK, ClusterAssumption
<1>3. Empty.nodes = {}
  BY DEF Empty
<1> QED
  BY <1>1, <1>2, <1>3 DEF RingInv

LEMMA NextRingInv ==
  ASSUME Counting
  PROVE  RingInv /\ [CNext]_cVars => RingInv'
<1> SUFFICES ASSUME RingInv, [CNext]_cVars PROVE RingInv'
  OBVIOUS
<1> USE DEF RingInv
<1>1. ASSUME hash' = hash, ring' = ring, DOMAIN age' = DOMAIN age PROVE RingInv'
  BY <1>1, OKFrame
<1>2. ASSUME NEW n \in Node, AddNode(n) PROVE RingInv'
  <2>1. hash' = hash /\ DOMAIN age' = DOMAIN age \cup {n}
    BY <1>2 DEF AddNode
  <2>2. CASE n \in DOMAIN age
    BY <1>1, <1>2, <2>1, <2>2 DEF AddNode
  <2>3. CASE n \notin DOMAIN age
    <3>1. ring' = RingAdd(ring, n)
      BY <1>2, <2>3 DEF AddNode
    <3>2. RingOK(RingAdd(ring, n)) /\ RingAdd(ring, n).nodes = ring.nodes \cup {n}
      BY AddOK
    <3> QED
      BY <2>1, <3>1, <3>2, OKFrame
  <2> QED
    BY <2>2, <2>3
<1>3. ASSUME NEW n \in Node, RemoveNode(n) PROVE RingInv'
  <2>1. /\ hash' = hash /\ DOMAIN age' = DOMAIN age \ {n}
        /\ n \in ring.nodes /\ ring' = RingRemove(ring, n)
    BY <1>3 DEF RemoveNode
  <2>2. RingOK(RingRemove(ring, n)) /\ RingRemove(ring, n).nodes = ring.nodes \ {n}
    BY <2>1, RemoveOK
  <2> QED
    BY <2>1, <2>2, OKFrame
<1>4. ASSUME NEW n \in Node, Heartbeat(n) PROVE RingInv'
  BY <1>1, <1>4 DEF Heartbeat
<1>5. CASE Tick
  BY <1>1, <1>5 DEF Tick
<1>6. CASE UNCHANGED cVars
  BY <1>1, <1>6 DEF cVars
<1> QED
  BY <1>2, <1>3, <1>4, <1>5, <1>6 DEF CNext

-----------------------------------------------------------------------------
(* Clients.                                                                 *)

AddStep(p, r, n) == RingAdd(r, n)

Adding == INSTANCE Folding WITH Op <- AddStep

LEMMA AddingOrder ==
  ASSUME Counting
  PROVE  Adding!WellOrdered
  BY DEF Counting, WellOrdered, Adding!WellOrdered

\* A client adds its nodes one by one; the ring it gets is sound.
LEMMA NewClusterOK ==
  ASSUME Counting, hash \in HashTable, NEW order \in Seq(Node)
  PROVE  RingOK(NewCluster(order)) /\ NewCluster(order).nodes = Range(order)
<1> DEFINE Good(q) == RingOK(NewCluster(q)) /\ NewCluster(q).nodes = Range(q)
           S == {q \in Seq(Node) : Good(q)}
<1>0. \A q : NewCluster(q) = Adding!Fold(0, Empty, q)
  BY DEF NewCluster, AddStep, Adding!Fold, FoldLeft, MapThenFoldSet,
         Adding!MapThenFoldSet, Max, Adding!Greatest
<1>1. <<>> \in S
  <2>1. NewCluster(<<>>) = Empty
    BY <1>0, AddingOrder, Adding!FoldNil
  <2>2. Empty.nodes = {} /\ Range(<<>>) = {} /\ <<>> \in Seq(Node)
    BY SMTT(20) DEF Empty, Range
  <2> QED
    BY <2>1, <2>2, EmptyOK
<1>2. ASSUME NEW q \in Seq(Node), NEW n \in Node, q \in S PROVE Append(q, n) \in S
  <2> DEFINE r == NewCluster(q)
             q2 == Append(q, n)
  <2>1. NewCluster(q2) = RingAdd(r, n)
    <3>1. Adding!Fold(0, Empty, Append(q, n)) = AddStep(0, Adding!Fold(0, Empty, q), n)
      BY AddingOrder, Adding!FoldAppend, SMTT(20)
    <3> QED
      BY <1>0, <3>1 DEF AddStep
  <2>2. q2 \in Seq(Node) /\ Range(q2) = Range(q) \cup {n}
    BY ToSetAppend, SMTT(20)
  <2>3. RingOK(r) /\ r.nodes = Range(q)
    BY <1>2
  <2> HIDE DEF r, q2
  <2>4. RingOK(RingAdd(r, n)) /\ RingAdd(r, n).nodes = r.nodes \cup {n}
    BY <2>3, AddOK
  <2>5. q2 \in S
    BY <2>1, <2>2, <2>3, <2>4
  <2> QED
    BY <2>5 DEF q2
<1> HIDE DEF Good
<1>3. \A q \in Seq(Node) : q \in S
  <2> HIDE DEF S
  <2> QED BY <1>1, <1>2, AddingOrder, Adding!SeqInduct
<1> QED
  BY <1>3 DEF Good

\* Two sound rings of the same nodes agree.
LEMMA AgreeByRing ==
  ASSUME Counting, RingInv
  PROVE  OwnersAgree
<1> SUFFICES ASSUME NoClash, NEW order \in SetToSeqs(ring.nodes), NEW h \in Point
             PROVE  OwnerOf(NewCluster(order), h) = Owner(h).id
  BY DEF OwnersAgree
<1>1. hash \in HashTable /\ RingOK(ring)
  BY DEF RingInv
<1>2. ring.nodes \in SUBSET Node /\ IsFiniteSet(ring.nodes)
  BY <1>1 DEF RingOK
<1>3. order \in Seq(Node) /\ Range(order) = ring.nodes
  BY <1>2, OrderIsOfAll
<1>4. RingOK(NewCluster(order)) /\ NewCluster(order).nodes = ring.nodes
  BY <1>1, <1>3, NewClusterOK
<1>5. Get(NewCluster(order), h) = Get(ring, h)
  BY <1>1, <1>4, SameNodesAgree
<1>6. Owner(h).id = Get(ring, h)
  BY DEF Owner, View
<1> QED
  BY <1>5, <1>6 DEF OwnerOf

-----------------------------------------------------------------------------
(* Replicas.                                                                *)

Walking == INSTANCE Folding WITH Op <- Visit

LEMMA WalkingOrder ==
  ASSUME Counting
  PROVE  Walking!WellOrdered
  BY DEF Counting, WellOrdered, Walking!WellOrdered

\* The loop of GetN, over any walk.
LEMMA GetNCollects ==
  ASSUME Counting, NEW most \in Nat, NEW w \in Seq(Node)
  PROVE  Collected(most, FoldLeft(LAMBDA out, m : Visit(most, out, m), <<>>, w), w)
<1> DEFINE F(q) == Walking!Fold(most, <<>>, q)
           S == {q \in Seq(Node) : Collected(most, F(q), q)}
<1>0. FoldLeft(LAMBDA out, m : Visit(most, out, m), <<>>, w) = F(w)
  BY DEF Visit, Walking!Fold, FoldLeft, MapThenFoldSet,
         Walking!MapThenFoldSet, Max, Walking!Greatest
<1>1. <<>> \in S
  <2>1. F(<<>>) = <<>>
    BY WalkingOrder, Walking!FoldNil
  <2>2. Collected(most, <<>>, <<>>)
    BY SMTT(20) DEF Collected
  <2> QED
    BY <2>1, <2>2, SMTT(20)
<1>2. ASSUME NEW q \in Seq(Node), NEW m \in Node, q \in S PROVE Append(q, m) \in S
  <2>1. F(Append(q, m)) = Visit(most, F(q), m)
    BY WalkingOrder, Walking!FoldAppend, SMTT(20)
  <2>2. Append(q, m) \in Seq(Node)
    BY SMTT(20)
  <2> HIDE DEF F
  <2>3. Collected(most, Visit(most, F(q), m), Append(q, m))
    BY <1>2, VisitCollects
  <2> QED
    BY <2>1, <2>2, <2>3
<1> HIDE DEF F
<1>3. \A q \in Seq(Node) : q \in S
  <2> HIDE DEF S
  <2> QED BY <1>1, <1>2, WalkingOrder, Walking!SeqInduct
<1> QED
  BY <1>0, <1>3

\* The nodes Replicas returns.
LEMMA ReplicasCollected ==
  ASSUME Counting, RingInv, NEW h \in Point
  PROVE  \E out, pt, w, n :
            /\ WalksOver(h, pt, w, n) /\ out \in Seq(Node)
            /\ n # 0 => w[1] = Get(ring, h)
            /\ DOMAIN Replicas(h) = 1 .. Len(out) /\ Len(Replicas(h)) = Len(out)
            /\ out = <<>> => Replicas(h) = <<>>
            /\ \A i \in 1 .. Len(out) : Replicas(h)[i] = View(out[i])
            /\ \/ Collected(ReplicationFactor, out, w)
               \/ Collected(Cardinality(ring.nodes), out, w)
<1> DEFINE w == Walk(ring, h)
           n == Len(ring.points)
           c == Cardinality(ring.nodes)
           most == IF ReplicationFactor > c THEN c ELSE ReplicationFactor
           out == GetN(ring, h, ReplicationFactor)
<1>1. PICK pt : WalksOver(h, pt, w, n)
  BY WalkWalks
<1>2. n # 0 => w[1] = Get(ring, h)
  <2>1. ring.points = <<>> => n = 0
    BY SMTT(20)
  <2> QED
    BY <2>1, WalkWalks
<1>3. c \in Nat /\ ReplicationFactor \in Nat
  BY ClusterAssumption DEF RingInv, RingOK, Counting, CardinalityLaw
<1>4. most \in Nat /\ most \in {c, ReplicationFactor}
  BY <1>3
<1>5. w \in Seq(Node)
  BY <1>1 DEF WalksOver
<1>6. out = FoldLeft(LAMBDA o, m : Visit(most, o, m), <<>>, w)
  BY DEF GetN
<1> HIDE DEF w, n, c, most
<1>7. Collected(most, out, w)
  BY <1>4, <1>5, <1>6, GetNCollects
<1> HIDE DEF out
<1>8. out \in Seq(Node)
  BY <1>7 DEF Collected
<1>9. DOMAIN out = 1 .. Len(out) /\ Len(out) \in Nat
  BY <1>8, SMTT(20)
<1>10. Replicas(h) = [i \in DOMAIN out |-> View(out[i])]
  BY DEF Replicas, out
<1>11. /\ DOMAIN Replicas(h) = 1 .. Len(out) /\ Len(Replicas(h)) = Len(out)
       /\ \A i \in 1 .. Len(out) : Replicas(h)[i] = View(out[i])
  BY <1>9, <1>10, SMTT(20)
<1>13. out = <<>> => Replicas(h) = <<>>
  <2> SUFFICES ASSUME out = <<>> PROVE Replicas(h) = <<>>
    OBVIOUS
  <2>1. DOMAIN out = {}
    BY SMTT(20)
  <2>2. Replicas(h) = [i \in {} |-> View(out[i])]
    BY <1>10, <2>1
  <2> QED
    BY <2>2, SMTT(20)
<1>12. \/ Collected(ReplicationFactor, out, w)
       \/ Collected(Cardinality(ring.nodes), out, w)
  BY <1>4, <1>7 DEF c
<1> QED
  BY <1>1, <1>2, <1>8, <1>11, <1>12, <1>13

\* The replicas of a sound ring are the nearest.
LEMMA NearestByRing ==
  ASSUME Counting, RingInv
  PROVE  ReplicasAreNearest
<1> DEFINE holders == {ring.owners[p] : p \in DOMAIN ring.owners}
<1> SUFFICES ASSUME NEW h \in Point
    PROVE /\ \A i \in DOMAIN Replicas(h) : Replicas(h)[i].known
          /\ Cardinality({Replicas(h)[i].id : i \in DOMAIN Replicas(h)}) = Len(Replicas(h))
          /\ \/ Len(Replicas(h)) = ReplicationFactor
             \/ {Replicas(h)[i].id : i \in DOMAIN Replicas(h)} = holders
          /\ \A i \in DOMAIN Replicas(h) :
                \A m \in holders \ {Replicas(h)[j].id : j \in 1 .. i} :
                      Reach(Replicas(h)[i].id, h) < Reach(m, h)
          /\ \A n \in Node : Owns(n, h) <=> Owner(h).id = n
          /\ Replicas(h) # <<>> => Replicas(h)[1] = Owner(h)
  BY DEF ReplicasAreNearest
<1> DEFINE rs == Replicas(h)
<1>1. PICK out, pt, w, n :
          /\ WalksOver(h, pt, w, n) /\ out \in Seq(Node)
          /\ n # 0 => w[1] = Get(ring, h)
          /\ DOMAIN rs = 1 .. Len(out) /\ Len(rs) = Len(out)
          /\ out = <<>> => rs = <<>>
          /\ \A i \in 1 .. Len(out) : rs[i] = View(out[i])
          /\ \/ Collected(ReplicationFactor, out, w)
             \/ Collected(Cardinality(ring.nodes), out, w)
  BY ReplicasCollected
<1> HIDE DEF rs
<1> DEFINE ids == {out[i] : i \in 1 .. Len(out)}
<1>2. PICK most : Collected(most, out, w)
  BY <1>1
<1>3. /\ Len(out) \in Nat /\ \A i, j \in 1 .. Len(out) : out[i] = out[j] => i = j
      /\ \A i \in 1 .. Len(out) : \E f \in 1 .. n : MetAt(out, i, w, f)
  BY <1>1, <1>2, SMTT(20) DEF Collected, WalksOver
<1>4. \A i \in 1 .. Len(out) : rs[i].id = out[i] /\ rs[i].known = (out[i] \in DOMAIN age)
  BY <1>1, SMTT(20) DEF View
<1>5. {rs[i].id : i \in DOMAIN rs} = ids
  BY <1>1, <1>4, SMTT(20)
<1>6. Cardinality(ids) = Len(rs)
  BY <1>1, <1>3, DistinctCount
<1>7. Len(rs) = ReplicationFactor \/ ids = holders
  BY <1>1, CollectedAll
<1>8. ASSUME NEW i \in DOMAIN rs PROVE rs[i].known
  <2>1. i \in 1 .. Len(out)
    BY <1>1
  <2>2. PICK f \in 1 .. n : MetAt(out, i, w, f)
    BY <1>3, <2>1
  <2>3. w[f] = ring.owners[pt[f]] /\ pt[f] \in DOMAIN ring.owners
    BY <1>1 DEF WalksOver
  <2>4. out[i] \in DOMAIN age
    BY <2>2, <2>3 DEF MetAt, RingInv, RingOK
  <2> QED
    BY <1>4, <2>1, <2>4
<1>9. ASSUME NEW i \in DOMAIN rs, NEW m \in holders \ {rs[j].id : j \in 1 .. i}
      PROVE  Reach(rs[i].id, h) < Reach(m, h)
  <2>1. i \in 1 .. Len(out) /\ \A j \in 1 .. i : j \in 1 .. Len(out)
    BY <1>1, <1>3, SMTT(20)
  <2>2. \A j \in 1 .. i : out[j] # m
    BY <1>4, <2>1
  <2>3. Reach(out[i], h) < Reach(m, h)
    BY <1>1, <1>2, <2>1, <2>2, CollectedNearest
  <2> QED
    BY <1>4, <2>1, <2>3
<1>10. Owner(h).id = Get(ring, h) /\ Owner(h) = View(Get(ring, h))
  BY DEF Owner, View
<1>11. \A m \in Node : Owns(m, h) <=> Owner(h).id = m
  BY <1>10, OwnerIsOwner
<1>12. ASSUME rs # <<>> PROVE rs[1] = Owner(h)
  <2>0. 1 \in 1 .. Len(out)
    <3>1. out # <<>>
      BY <1>1, <1>12
    <3> QED
      BY <1>3, <3>1, <1>1, SMTT(20)
  <2>1. PICK f \in 1 .. n : MetAt(out, 1, w, f)
    BY <1>3, <2>0
  <2>2. n \in Nat
    BY <1>1 DEF WalksOver
  <2>3. f = 1
    <3> SUFFICES ASSUME f > 1 PROVE FALSE
      BY <2>2, SMTT(20)
    <3>1. 1 \in 1 .. f - 1 /\ 1 .. (1 - 1) = {}
      BY <2>2, SMTT(20)
    <3> QED
      BY <2>1, <3>1 DEF MetAt
  <2>4. w[1] = out[1] /\ n # 0
    BY <2>1, <2>2, <2>3, SMTT(20) DEF MetAt
  <2> QED
    BY <1>1, <1>10, <2>0, <2>4
<1>13. \A i \in DOMAIN rs : rs[i].known
  BY <1>8
<1>14. \A i \in DOMAIN rs : \A m \in holders \ {rs[j].id : j \in 1 .. i} :
                      Reach(rs[i].id, h) < Reach(m, h)
  BY <1>9
<1> QED
  BY <1>5, <1>6, <1>7, <1>11, <1>12, <1>13, <1>14 DEF rs
-----------------------------------------------------------------------------
(* The library, and what the lemmas assume of it.                           *)

Sets == INSTANCE FiniteSetTheorems

\* The two copies of the definitions of FiniteSets.
LEMMA SameSets ==
  \A S : Sets!Cardinality(S) = Cardinality(S) /\ Sets!IsFiniteSet(S) = IsFiniteSet(S)
  BY DEF Cardinality, Sets!Cardinality, IsFiniteSet, Sets!IsFiniteSet

LEMMA CountingHolds == Counting
<1>1. CardinalityLaw
  BY SameSets, Sets!FS_CardinalityType DEF CardinalityLaw
<1>2. EmptyLaw
  BY SameSets, Sets!FS_EmptySet DEF EmptyLaw
<1>3. AddLaw
  BY SameSets, Sets!FS_AddElement DEF AddLaw
<1>4. RemoveLaw
  BY SameSets, Sets!FS_RemoveElement DEF RemoveLaw
<1>5. SubsetLaw
  BY SameSets, Sets!FS_Subset DEF SubsetLaw
<1>6. IntervalLaw
  BY SameSets, Sets!FS_Interval DEF IntervalLaw
<1>7. BijectionLaw
  <2> SUFFICES ASSUME NEW S, NEW T, NEW f \in [S -> T], IsFiniteSet(S),
                      \A x, y \in S : f[x] = f[y] => x = y,
                      \A y \in T : \E x \in S : f[x] = y
               PROVE  IsFiniteSet(T) /\ Cardinality(T) = Cardinality(S)
    BY DEF BijectionLaw
  <2>1. Sets!ExistsBijection(S, T)
    BY DEF Sets!ExistsBijection, Sets!Bijection, Sets!Injection, Sets!Surjection,
           Sets!IsInjective
  <2> QED
    BY <2>1, SameSets, Sets!FS_Bijection
<1>8. InjectionLaw
  <2> SUFFICES ASSUME NEW S, NEW T, NEW f \in [S -> T],
                      IsFiniteSet(T), Cardinality(S) = Cardinality(T),
                      \A x, y \in S : f[x] = f[y] => x = y
               PROVE  \A y \in T : \E x \in S : f[x] = y
    BY SMTT(20) DEF InjectionLaw
  <2>1. f \in Sets!Injection(S, T)
    BY DEF Sets!Injection, Sets!IsInjective
  <2>2. f \in Sets!Surjection(S, T)
    BY <2>1, SameSets, Sets!FS_Injection
  <2> QED
    BY <2>2 DEF Sets!Surjection
<1>9. WellOrdered
  <2> SUFFICES ASSUME NEW T \in SUBSET Nat, T # {}
               PROVE  \E x \in T : \A y \in T : x <= y
    BY DEF WellOrdered
  <2> DEFINE R == Sets!OpToRel(<, Nat)
  <2>1. \A x, y \in Nat : <<x, y>> \in R <=> x < y
    BY DEF Sets!OpToRel
  <2>2. Sets!IsWellFoundedOn(R, Nat)
    BY Sets!NatLessThanWellFounded
  <2> HIDE DEF R
  <2>3. PICK x \in T : \A y \in T : ~(<<y, x>> \in R)
    BY <2>2, Sets!WFMin
  <2>4. \A y \in T : x \in Nat /\ y \in Nat /\ ~(y < x)
    BY <2>1, <2>3
  <2> QED
    BY <2>4, NotLess
<1> QED
  BY <1>1, <1>2, <1>3, <1>4, <1>5, <1>6, <1>7, <1>8, <1>9 DEF Counting
-----------------------------------------------------------------------------
(* The theorems.                                                            *)

\* RingInv holds in every reachable state.
LEMMA RingInvHolds == CSpec => []RingInv
<1>1. CInit => RingInv
  BY InitRingInv, CountingHolds
<1>2. RingInv /\ [CNext]_cVars => RingInv'
  BY NextRingInv, CountingHolds
<1> QED
  BY <1>1, <1>2, PTL DEF CSpec

\* In every registry and whatever the hashes, a node that joins takes keys for
\* itself only, and a node that leaves gives up its own keys only, unless it
\* shared a point with another (Ring.Add and Ring.Remove).
THEOREM KeysMoveLittle == CSpec => MinimalMovement
<1>1. CSpec => []OwnersSound
  BY InitSound, StepSound, PTL DEF CSpec
<1>2. CSpec => [][Moves]_cVars
  BY <1>1, StepMoves, PTL DEF CSpec
<1> QED  BY <1>2 DEF MinimalMovement, Moves

\* The ring of a registry never has a point without an owner, or an owner that
\* is no member or has no virtual node at its point: RingSound, for any number of
\* nodes and virtual nodes and any hashes, collisions included.
THEOREM RingAlwaysSound == CSpec => []RingSound
<1>1. RingInv => RingSound
  BY DEF RingInv, RingOK, RingSound
<1> QED
  BY <1>1, RingInvHolds, PTL

\* A client that knows the nodes of the registry finds the owner the registry
\* finds (OwnersAgree): both rings are sound, and with no point shared a sound
\* ring is determined by its nodes.
THEOREM ClientsAgree == CSpec => []OwnersAgree
<1>1. RingInv => OwnersAgree
  BY AgreeByRing, CountingHolds
<1> QED
  BY <1>1, RingInvHolds, PTL

\* Replicas names the owner and then the next nearest nodes, each once and in
\* the order of their distance, for every ring that Add and Remove can make
\* (ReplicasAreNearest).
THEOREM ReplicasNearest == CSpec => []ReplicasAreNearest
<1>1. RingInv => ReplicasAreNearest
  BY NearestByRing, CountingHolds
<1> QED
  BY <1>1, RingInvHolds, PTL
=============================================================================
