------------------------------ MODULE Cluster -------------------------------
(***************************************************************************)
(* Consistent hashing (internal/hashring), the node registry built on it   *)
(* (internal/cluster) and the ring a ClusterClient builds for itself       *)
(* (pkg/client).                                                           *)
(*                                                                         *)
(* A key counts only by its hash, a point of the ring.  The table of the   *)
(* hashes of the virtual nodes is chosen at the start and never changes;   *)
(* it may have collisions, within a node and between nodes, since crc32    *)
(* may.  Addresses are left out.                                           *)
(***************************************************************************)
EXTENDS Sequencing

CONSTANTS
    Node,
    Self,               \* the node whose registry this is
    NoNode,             \* stands for none
    VNodes,             \* virtual nodes of a node, Ring.replicas
    Top,                \* the largest hash
    ReplicationFactor,
    FailAfter           \* in ticks; 0 never declares a node dead

ASSUME ClusterAssumption ==
    /\ Self \in Node
    /\ NoNode \notin Node
    /\ VNodes \in Nat \ {0}
    /\ Top \in Nat
    /\ ReplicationFactor \in Nat \ {0}
    /\ FailAfter \in Nat

VARIABLES
    hash,       \* of the virtual nodes, hashKey(vnodeKey(node, i))
    ring,       \* the registry's Ring
    age         \* Registry.nodes: time since lastSeen of each known node

cVars == <<hash, ring, age>>

Point == 0 .. Top

\* Sorting makes the order of a node's hashes immaterial: one order will do.
HashTable == {t \in [Node -> [1 .. VNodes -> Point]] :
                \A n \in Node, i \in 2 .. VNodes : t[n][i - 1] <= t[n][i]}

\* The points of the virtual nodes of n.
Spots(n) == {hash[n][i] : i \in 1 .. VNodes}

\* Two nodes with a point in common.
Clash(n, m) == n # m /\ Spots(n) \cap Spots(m) # {}

NoClash == \A n, m \in Node : ~Clash(n, m)
-----------------------------------------------------------------------------
(* A Ring: the sorted points, the owner of each, and the nodes.             *)

Empty == [points |-> <<>>, owners |-> [h \in {} |-> NoNode], nodes |-> {}]

\* h put into a sorted slice, behind the points that are not larger.
Inserted(s, h) ==
    InsertAt(s, Min({i \in DOMAIN s : s[i] > h} \cup {Len(s) + 1}), h)

\* sort.Slice: numbers have one ascending order, however it is arrived at.
Sorted(s) == FoldLeft(Inserted, <<>>, s)

\* Faulty: the slice is not sorted again.
RingAddUnsorted(r, n) ==
    IF n \in r.nodes
    THEN r
    ELSE [points |-> r.points \o hash[n],
          owners |-> [h \in DOMAIN r.owners \cup Spots(n) |->
                        IF h \in Spots(n) THEN n ELSE r.owners[h]],
          nodes |-> r.nodes \cup {n}]

\* Ring.Add of one node.  A point another node has is taken over.
RingAdd(r, n) ==
    IF n \in r.nodes
    THEN r
    ELSE [points |-> Sorted(r.points \o hash[n]),
          owners |-> [h \in DOMAIN r.owners \cup Spots(n) |->
                        IF h \in Spots(n) THEN n ELSE r.owners[h]],
          nodes |-> r.nodes \cup {n}]

\* The owners when every point of n is taken out, whoever owns it.
OwnersWithout(r, n) ==
    [h \in DOMAIN r.owners \ Spots(n) |-> r.owners[h]]

\* One turn of Remove's loop over the slice, and the loop.
Keep(owned, kept, h) == IF h \in owned THEN Append(kept, h) ELSE kept

Kept(s, owners) ==
    FoldLeft(LAMBDA kept, h : Keep(DOMAIN owners, kept, h), <<>>, s)

\* Faulty: the points stay in the slice.
RingRemoveOwners(r, n) ==
    IF n \notin r.nodes
    THEN r
    ELSE [r EXCEPT !.owners = OwnersWithout(r, n), !.nodes = @ \ {n}]

\* Ring.Remove.  A point taken over by another node goes with the rest.
RingRemove(r, n) ==
    IF n \notin r.nodes
    THEN r
    ELSE [points |-> Kept(r.points, OwnersWithout(r, n)),
          owners |-> OwnersWithout(r, n),
          nodes |-> r.nodes \ {n}]

\* Faulty: a point at h itself is passed over.
SearchAfter(r, h) ==
    LET after == {i \in DOMAIN r.points : r.points[i] > h}
    IN  IF after = {} THEN 1 ELSE CHOOSE i \in after : \A j \in after : i <= j

\* Ring.search: the index of the first point at or after h, or of the first.
Search(r, h) ==
    LET after == {i \in DOMAIN r.points : r.points[i] >= h}
    IN  IF after = {} THEN 1 ELSE CHOOSE i \in after : \A j \in after : i <= j

Get(r, h) ==
    IF r.points = <<>> THEN NoNode ELSE r.owners[r.points[Search(r, h)]]

\* The owners of the points met on a walk once around the ring from h.
Walk(r, h) ==
    LET len == Len(r.points)
    IN  [i \in 1 .. len |->
           r.owners[r.points[((Search(r, h) + i - 2) % len) + 1]]]

\* One turn of the loop of GetN, at a point of m.
Visit(most, out, m) ==
    IF Len(out) = most \/ m \in Range(out) THEN out ELSE Append(out, m)

\* Ring.GetN: walk around the ring and collect nodes not seen before.
GetN(r, h, n) ==
    LET most == IF n > Cardinality(r.nodes) THEN Cardinality(r.nodes) ELSE n
    IN  FoldLeft(LAMBDA out, m : Visit(most, out, m), <<>>, Walk(r, h))

\* NewCluster: the ring of a client that adds the nodes in this order, which
\* is the order of iteration over a map.  The code refuses a map without nodes.
NewCluster(order) == FoldLeft(RingAdd, Empty, order)

\* OwnerOf of a client with ring cc, for the hash of a key.
OwnerOf(cc, h) == Get(cc, h)
-----------------------------------------------------------------------------
(* The registry.                                                            *)

\* New: the registry knows itself.
CInit ==
    /\ hash \in HashTable
    /\ ring = RingAdd(Empty, Self)
    /\ age = [n \in {Self} |-> 0]

\* addLocked, as called by Add.
AddNode(n) ==
    /\ ring' = IF n \in DOMAIN age THEN ring ELSE RingAdd(ring, n)
    /\ age' = [m \in DOMAIN age \cup {n} |-> IF m = n THEN 0 ELSE age[m]]
    /\ UNCHANGED hash

\* Faulty: nobody asks whether the node is a member.
RemoveStranger(n) ==
    /\ ring' = [points |-> Kept(ring.points, OwnersWithout(ring, n)),
                owners |-> OwnersWithout(ring, n),
                nodes |-> ring.nodes \ {n}]
    /\ age' = [m \in DOMAIN age \ {n} |-> age[m]]
    /\ UNCHANGED hash

RemoveNode(n) ==
    /\ n \in DOMAIN age
    /\ ring' = RingRemove(ring, n)
    /\ age' = [m \in DOMAIN age \ {n} |-> age[m]]
    /\ UNCHANGED hash

Heartbeat(n) ==
    /\ n \in DOMAIN age
    /\ age' = [age EXCEPT ![n] = 0]
    /\ UNCHANGED <<hash, ring>>

\* Beyond FailAfter, more age makes no difference.
Tick ==
    /\ age' = [n \in DOMAIN age |->
                 IF age[n] > FailAfter THEN age[n] ELSE age[n] + 1]
    /\ UNCHANGED <<hash, ring>>

Alive(n) == FailAfter = 0 \/ n = Self \/ age[n] <= FailAfter

\* nodeView.
View(n) == [id |-> n,
            known |-> n \in DOMAIN age,
            alive |-> n \in DOMAIN age /\ Alive(n),
            self |-> n \in DOMAIN age /\ n = Self]

Owner(h) == View(Get(ring, h))

Replicas(h) ==
    LET ids == GetN(ring, h, ReplicationFactor)
    IN  [i \in DOMAIN ids |-> View(ids[i])]

CNext ==
    \/ \E n \in Node : AddNode(n) \/ RemoveNode(n) \/ Heartbeat(n)
    \/ Tick

CSpec == CInit /\ [][CNext]_cVars
-----------------------------------------------------------------------------
\* The distance from h clockwise to p.
Distance(h, p) == (p + Top + 1 - h) % (Top + 1)

\* By the definition of consistent hashing, n owns h: its is the nearest of
\* all points.
Owns(n, h) ==
    \E p \in DOMAIN ring.owners :
        /\ ring.owners[p] = n
        /\ \A q \in DOMAIN ring.owners : Distance(h, p) <= Distance(h, q)

\* The distance from h to the nearest point of n.
Reach(n, h) ==
    LET ds == {Distance(h, p) : p \in {q \in DOMAIN ring.owners :
                                         ring.owners[q] = n}}
    IN  CHOOSE d \in ds : \A e \in ds : d <= e

\* The table of the registry and its ring name the same nodes; the points in
\* the ring are those that have an owner; and the owner of a point is a member
\* that has a virtual node there.  No sequence of Add and Remove, and no
\* collision, leaves a point behind whose owner is gone.
RingSound ==
    /\ ring.nodes = DOMAIN age
    /\ Range(ring.points) = DOMAIN ring.owners
    /\ \A p \in DOMAIN ring.owners :
          ring.owners[p] \in ring.nodes /\ p \in Spots(ring.owners[p])

\* Replicas (GetN, search and the sorted slice) returns the owner, then the
\* nodes next nearest, each once and each known to the registry, and as many as
\* asked for or as have a point.
ReplicasAreNearest ==
    LET holders == {ring.owners[p] : p \in DOMAIN ring.owners}
    IN  \A h \in Point :
          LET rs == Replicas(h)
              ids == {rs[i].id : i \in DOMAIN rs}
          IN  /\ \A i \in DOMAIN rs : rs[i].known
              /\ Cardinality(ids) = Len(rs)
              /\ \/ Len(rs) = ReplicationFactor
                 \/ ids = holders
              /\ \A i \in DOMAIN rs :
                    \A m \in holders \ {rs[j].id : j \in 1 .. i} :
                        Reach(rs[i].id, h) < Reach(m, h)
              /\ \A n \in Node : Owns(n, h) <=> Owner(h).id = n
              /\ rs # <<>> => rs[1] = Owner(h)

\* A client that knows the same nodes routes every key as the registry does,
\* whatever the order its map gave the nodes in and whatever the registry has
\* been through, provided no two nodes collide.  With a collision it depends on
\* the order which of the two gets the point.
OwnersAgree ==
    NoClash => \A order \in SetToSeqs(ring.nodes) \ {<<>>} :
                  LET cc == NewCluster(order)
                  IN  \A h \in Point : OwnerOf(cc, h) = Owner(h).id

\* Add moves keys to the new node only, collisions or not; Remove moves the
\* keys of the node removed only, if it shares no point with another member;
\* and nothing else moves a key.
MinimalMovement ==
    [][\A n \in Node, h \in Point :
         /\ (Owns(n, h)' /\ ~Owns(n, h)) =>
               \/ n \notin ring.nodes /\ ring'.nodes = ring.nodes \cup {n}
               \/ \E m \in ring.nodes : ring'.nodes = ring.nodes \ {m}
         /\ (Owns(n, h) /\ ~Owns(n, h)') =>
               \/ n \notin ring'.nodes
               \/ \E m \in Node \ ring.nodes : ring'.nodes = ring.nodes \cup {m}
               \/ \E m \in ring.nodes : Clash(m, n) /\ m \notin ring'.nodes
      ]_cVars
=============================================================================
