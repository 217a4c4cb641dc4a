------------------------------ MODULE TxnProofs --------------------------------
(***************************************************************************)
(* NoFalseAbort and MissesOnlyInFlight, for any clients and keys and any   *)
(* number of writes.                                                       *)
(*                                                                         *)
(* Dispatched(k) counts the writes of k the Coordinator was told of.  For  *)
(* a key that a client watches, that number less the versions counted      *)
(* since lies between the number of writes when WATCH was called and, if   *)
(* the key is not "", when it returned (Seen): this is what EXEC relies    *)
(* on.  It has to be known already of the keys that WATCH is waiting for   *)
(* in Sync, in terms of the writes ahead of its marker in the stream       *)
(* (Marked), and it survives the other clients because the watchers of a   *)
(* key are never undercounted, so that its version is not taken away from  *)
(* under a watch (Counted).                                                *)
(***************************************************************************)
EXTENDS Txn, Counting, TLAPS

\* The provers have 20 seconds for a leaf, unless it says otherwise.
USE ZenonT(20)

\* The events that change k.
Hits(e, k) == e = Flush \/ e = Wrote(k)

Hit(e, k) == IF Hits(e, k) THEN 1 ELSE 0

\* How many of the first m events of s change k.
Count(s, k, m) == Cardinality({i \in 1 .. m : Hits(s[i], k)})

Dispatched(k) == written[k] - InFlight(k)

Event == {Flush} \cup {Wrote(k) : k \in Key} \cup {Marker(c) : c \in Client}

\* The keys that WATCH is about to add.
New(c) == tx[c].want \ DOMAIN tx[c].watched

Watching(k) == {c \in Client : k \in DOMAIN tx[c].watched}

Bounds == [called : Nat, returned : Nat]

\* A connection and its history.
TxnOK(t, s) ==
    /\ t \in [pc : {"ready", "sync", "synced", "exec", "run"}, multi : BOOLEAN,
              watched : UNION {[K -> Nat] : K \in SUBSET Key},
              queued : Seq(Key), want : SUBSET Key]
    /\ s \in UNION {[K -> Bounds] : K \in SUBSET Key}
    /\ DOMAIN s = DOMAIN t.watched \cup t.want
    /\ t.pc \notin {"sync", "synced"} => t.want = {}

Typed ==
    /\ stream \in Seq(Event)
    /\ versions \in [Key -> Nat] /\ watchers \in [Key -> Nat]
    /\ written \in [Key -> Nat]
    /\ execMu \in Client \cup {NoClient}
    /\ DOMAIN tx = Client /\ DOMAIN since = Client
    /\ \A c \in Client : TxnOK(tx[c], since[c])

\* A marker is of a client in Sync, and the writes done before that client
\* called WATCH are dispatched or ahead of the marker.
Marked ==
    \A c \in Client, i \in DOMAIN stream : stream[i] = Marker(c) =>
        /\ tx[c].pc = "sync"
        /\ \A j \in DOMAIN stream : stream[j] = Marker(c) => i = j
        /\ \A k \in New(c) :
              since[c][k].called <= Dispatched(k) + Count(stream, k, i)

Synced ==
    \A c \in Client : tx[c].pc = "synced" =>
        \A k \in New(c) : since[c][k].called <= Dispatched(k)

Counted ==
    \A k \in Key : IsFiniteSet(Watching(k)) /\ Cardinality(Watching(k)) <= watchers[k]

Between(c, k) ==
    LET before == Dispatched(k) - (versions[k] - tx[c].watched[k])
    IN  /\ tx[c].watched[k] <= versions[k]
        /\ since[c][k].called <= before
        /\ k # EmptyKey => before <= since[c][k].returned

Seen == \A c \in Client : \A k \in DOMAIN tx[c].watched : Between(c, k)

Inv == Typed /\ Marked /\ Synced /\ Counted /\ Seen
------------------------------------------------------------------------------
(* Counting.                                                                *)

LEMMA EventsDiffer ==
  /\ \A k \in Key, j \in Key : Wrote(k) = Wrote(j) => k = j
  /\ \A c \in Client, d \in Client : Marker(c) = Marker(d) => c = d
  /\ \A k \in Key, c \in Client : Marker(c) # Flush /\ Marker(c) # Wrote(k)
  /\ \A k \in Key : Wrote(k).op # "sync"
  /\ Flush.op # "sync"
  /\ \A c \in Client : Marker(c).op = "sync" /\ Marker(c).client = c
  BY DEF Wrote, Marker, Flush

LEMMA CountType ==
  ASSUME Counting, NEW s, NEW k, NEW m \in Nat
  PROVE  /\ IsFiniteSet({i \in 1 .. m : Hits(s[i], k)})
         /\ Count(s, k, m) \in Nat
<1> DEFINE S == {i \in 1 .. m : Hits(s[i], k)}
<1>1. IsFiniteSet(1 .. m)
  BY SMTT(20) DEF Counting, IntervalLaw
<1>2. S \subseteq 1 .. m
  OBVIOUS
<1>3. IsFiniteSet(S)
  <2> HIDE DEF S
  <2> QED
    BY <1>1, <1>2 DEF Counting, SubsetLaw
<1>4. Cardinality(S) \in Nat
  BY <1>3 DEF Counting, CardinalityLaw
<1> QED
  BY <1>3, <1>4 DEF Count

LEMMA CountNil ==
  ASSUME Counting
  PROVE  \A s, k : Count(s, k, 0) = 0
<1> SUFFICES ASSUME NEW s, NEW k PROVE Count(s, k, 0) = 0
  OBVIOUS
<1>1. {i \in 1 .. 0 : Hits(s[i], k)} = {}
  BY SMTT(20)
<1> QED
  BY <1>1 DEF Count, Counting, EmptyLaw

\* One more event.
LEMMA CountNext ==
  ASSUME Counting, NEW s, NEW k, NEW m \in Nat
  PROVE  Count(s, k, m + 1) = Count(s, k, m) + Hit(s[m + 1], k)
<1> DEFINE S == {i \in 1 .. m : Hits(s[i], k)}
           T == {i \in 1 .. m + 1 : Hits(s[i], k)}
           n == m + 1
<1>0. IsFiniteSet(S) /\ Cardinality(S) \in Nat
  BY CountType DEF Count
<1>1. CASE Hits(s[n], k)
  <2>1. T = S \cup {n} /\ n \notin S
    BY <1>1, SMTT(20)
  <2> HIDE DEF S, T, n
  <2>2. Cardinality(S \cup {n}) = Cardinality(S) + 1
    BY <1>0, <2>1 DEF Counting, AddLaw
  <2> QED
    BY <1>1, <2>1, <2>2 DEF Hit, Count, S, T, n
<1>2. CASE ~Hits(s[n], k)
  <2>1. T = S
    BY <1>2, SMTT(20)
  <2> QED
    BY <1>0, <1>2, <2>1, SMTT(20) DEF Hit, Count
<1> QED
  BY <1>1, <1>2

\* The event at the end of the stream comes after all others.
LEMMA CountAppend ==
  ASSUME Counting, NEW s \in Seq(Event), NEW e \in Event, NEW k
  PROVE  /\ \A m \in 0 .. Len(s) : Count(Append(s, e), k, m) = Count(s, k, m)
         /\ Count(Append(s, e), k, Len(s) + 1) = Count(s, k, Len(s)) + Hit(e, k)
<1> DEFINE t == Append(s, e)
           n == Len(s)
<1>1. n \in Nat /\ t[n + 1] = e /\ \A i \in 1 .. n : t[i] = s[i]
  BY SMTT(20)
<1> HIDE DEF t, n
<1>2. ASSUME NEW m \in 0 .. n PROVE Count(t, k, m) = Count(s, k, m)
  <2>1. \A i \in 1 .. m : t[i] = s[i]
    BY <1>1, SMTT(20)
  <2>2. {i \in 1 .. m : Hits(t[i], k)} = {i \in 1 .. m : Hits(s[i], k)}
    BY <2>1
  <2> QED
    BY <2>2 DEF Count
<1>3. n \in 0 .. n
  BY <1>1, SMTT(20)
<1>4. Count(t, k, n + 1) = Count(t, k, n) + Hit(t[n + 1], k)
  BY <1>1, CountNext
<1> QED
  BY <1>1, <1>2, <1>3, <1>4 DEF t, n

\* The event at the head of the stream came before all others.
LEMMA CountTail ==
  ASSUME Counting, NEW s \in Seq(Event), s # <<>>, NEW k, NEW m \in 0 .. Len(s) - 1
  PROVE  Count(s, k, m + 1) = Count(Tail(s), k, m) + Hit(s[1], k)
<1> DEFINE t == Tail(s)
           n == Len(s)
           X == {i \in 1 .. m : Hits(t[i], k)}
           Y == {i \in 2 .. m + 1 : Hits(s[i], k)}
           Z == {i \in 1 .. m + 1 : Hits(s[i], k)}
           f == [i \in X |-> i + 1]
<1>1. n \in Nat /\ n # 0
  BY SMTT(20)
<1>2. \A i \in 1 .. n - 1 : t[i] = s[i + 1]
  BY <1>1, SMTT(20)
<1>3. m \in Nat /\ m <= n - 1
  BY <1>1, SMTT(20)
<1> HIDE DEF t, n
<1>4. IsFiniteSet(X) /\ Cardinality(X) \in Nat
  BY <1>3, CountType DEF Count
<1>5. \A i \in X : i + 1 \in Y
  BY <1>1, <1>2, <1>3, SMTT(20)
<1>6. \A j \in Y : j - 1 \in X /\ (j - 1) + 1 = j
  BY <1>1, <1>2, <1>3, SMTT(20)
<1>7. \A i, j \in X : i + 1 = j + 1 => i = j
  BY <1>3, SMTT(20)
<1>8. Z = IF Hits(s[1], k) THEN Y \cup {1} ELSE Y
  BY <1>3, SMTT(20)
<1>9. 1 \notin Y
  BY SMTT(20)
<1> HIDE DEF X, Y, Z
<1>10. /\ f \in [X -> Y]
       /\ \A i, j \in X : f[i] = f[j] => i = j
       /\ \A j \in Y : \E i \in X : f[i] = j
  <2>1. f \in [X -> Y]
    BY <1>5
  <2>2. \A i, j \in X : f[i] = f[j] => i = j
    BY <1>7
  <2>3. \A j \in Y : \E i \in X : f[i] = j
    BY <1>6
  <2> HIDE DEF f
  <2> QED
    BY <2>1, <2>2, <2>3
<1>12. IsFiniteSet(Y) /\ Cardinality(Y) = Cardinality(X)
  BY <1>4, <1>10 DEF Counting, BijectionLaw
<1>15. Count(s, k, m + 1) = Cardinality(Z) /\ Count(t, k, m) = Cardinality(X)
  BY DEF Count, X, Z
<1>13. CASE Hits(s[1], k)
  <2>1. Cardinality(Y \cup {1}) = Cardinality(Y) + 1
    BY <1>9, <1>12 DEF Counting, AddLaw
  <2> QED
    BY <1>8, <1>12, <1>13, <1>15, <2>1 DEF Hit, t
<1>14. CASE ~Hits(s[1], k)
  BY <1>4, <1>8, <1>12, <1>14, <1>15, SMTT(20) DEF Hit, t
<1> QED
  BY <1>13, <1>14

\* InFlight, of any stream.
LEMMA InFlightIs ==
  ASSUME Counting, NEW s \in Seq(Event), NEW k
  PROVE  /\ Len(s) \in Nat /\ DOMAIN s = 1 .. Len(s)
         /\ Count(s, k, Len(s)) \in Nat
         /\ Cardinality({i \in DOMAIN s : s[i] = Flush \/ s[i] = Wrote(k)}) =
               Count(s, k, Len(s))
<1>1. Len(s) \in Nat /\ DOMAIN s = 1 .. Len(s)
  BY SMTT(20)
<1>2. Count(s, k, Len(s)) \in Nat
  BY <1>1, CountType
<1> QED
  BY <1>1, <1>2 DEF Count, Hits

\* A write adds to written what it adds to the stream.
LEMMA SendEffect ==
  ASSUME Counting, Typed, NEW e \in Event, stream' = Append(stream, e), NEW k \in Key
  PROVE  /\ InFlight(k)' = InFlight(k) + Hit(e, k)
         /\ InFlight(k) = Count(stream, k, Len(stream)) /\ InFlight(k) \in Nat
         /\ stream' \in Seq(Event)
         /\ Len(stream) \in Nat /\ DOMAIN stream = 1 .. Len(stream)
         /\ DOMAIN stream' = 1 .. Len(stream) + 1
         /\ stream'[Len(stream) + 1] = e
         /\ \A i \in 1 .. Len(stream) :
               stream'[i] = stream[i] /\ Count(stream', k, i) = Count(stream, k, i)
         /\ Count(stream', k, Len(stream) + 1) = InFlight(k) + Hit(e, k)
<1>0. stream \in Seq(Event)
  BY DEF Typed
<1>1. /\ stream' \in Seq(Event) /\ Len(stream') = Len(stream) + 1
      /\ stream'[Len(stream) + 1] = e
      /\ \A i \in 1 .. Len(stream) : stream'[i] = stream[i]
  BY <1>0, SMTT(20)
<1>2. /\ Len(stream) \in Nat /\ DOMAIN stream = 1 .. Len(stream)
      /\ InFlight(k) = Count(stream, k, Len(stream)) /\ InFlight(k) \in Nat
  BY <1>0, InFlightIs DEF InFlight
<1>3. /\ DOMAIN stream' = 1 .. Len(stream')
      /\ InFlight(k)' = Count(stream', k, Len(stream'))
  BY <1>1, InFlightIs DEF InFlight
<1>4. /\ \A m \in 0 .. Len(stream) : Count(stream', k, m) = Count(stream, k, m)
      /\ Count(stream', k, Len(stream) + 1) = Count(stream, k, Len(stream)) + Hit(e, k)
  BY <1>0, CountAppend
<1>5. \A i \in 1 .. Len(stream) : i \in 0 .. Len(stream)
  BY <1>2, SMTT(20)
<1> QED
  BY <1>1, <1>2, <1>3, <1>4, <1>5

\* Dispatching takes from the stream what it adds to the versions.
LEMMA DispatchEffect ==
  ASSUME Counting, Typed, stream # <<>>, stream' = Tail(stream), NEW k \in Key
  PROVE  /\ InFlight(k) = InFlight(k)' + Hit(stream[1], k)
         /\ InFlight(k)' \in Nat
         /\ stream[1] \in Event /\ stream[1] = Head(stream) /\ 1 \in DOMAIN stream
         /\ stream' \in Seq(Event)
         /\ \A i \in DOMAIN stream' :
               /\ i + 1 \in DOMAIN stream /\ stream'[i] = stream[i + 1] /\ i # 0 /\ i \in Nat
               /\ Count(stream, k, i + 1) = Count(stream', k, i) + Hit(stream[1], k)
         /\ Count(stream, k, 1) = Hit(stream[1], k)
<1>0. stream \in Seq(Event)
  BY DEF Typed
<1>1. /\ stream' \in Seq(Event) /\ Len(stream') = Len(stream) - 1
      /\ \A i \in 1 .. Len(stream') : stream'[i] = stream[i + 1]
      /\ Len(stream) \in Nat /\ Len(stream) # 0
  BY <1>0, SMTT(20)
<1>2. /\ DOMAIN stream = 1 .. Len(stream)
      /\ InFlight(k) = Count(stream, k, Len(stream))
  BY <1>0, InFlightIs DEF InFlight
<1>3. /\ DOMAIN stream' = 1 .. Len(stream')
      /\ InFlight(k)' = Count(stream', k, Len(stream'))
      /\ InFlight(k)' \in Nat
  BY <1>1, InFlightIs DEF InFlight
<1>4. \A m \in 0 .. Len(stream) - 1 :
         Count(stream, k, m + 1) = Count(stream', k, m) + Hit(stream[1], k)
  BY <1>0, CountTail
<1>5. 1 \in DOMAIN stream /\ stream[1] \in Event /\ stream[1] = Head(stream)
  BY <1>0, <1>1, <1>2, SMTT(20)
<1>6. InFlight(k) = InFlight(k)' + Hit(stream[1], k)
  <2>1. Len(stream) - 1 \in 0 .. Len(stream) - 1 /\ (Len(stream) - 1) + 1 = Len(stream)
    BY <1>1, SMTT(20)
  <2> QED
    BY <1>1, <1>2, <1>3, <1>4, <2>1
<1>7. ASSUME NEW i \in DOMAIN stream'
      PROVE  i \in 0 .. Len(stream) - 1 /\ i \in 1 .. Len(stream') /\ i + 1 \in DOMAIN stream /\ i # 0 /\ i \in Nat
  BY <1>1, <1>2, <1>3, SMTT(20)
<1>8. Count(stream, k, 1) = Hit(stream[1], k)
  <2>1. Count(stream, k, 0 + 1) = Count(stream, k, 0) + Hit(stream[0 + 1], k)
    BY CountNext
  <2>2. Hit(stream[1], k) \in Nat
    BY DEF Hit
  <2> QED
    BY <2>1, <2>2, CountNil, SMTT(20)
<1> QED
  BY <1>1, <1>3, <1>4, <1>5, <1>6, <1>7, <1>8
------------------------------------------------------------------------------
(* The steps.                                                               *)

LEMMA TxnType ==
  ASSUME NEW t, NEW s, TxnOK(t, s)
  PROVE  /\ DOMAIN t.watched \subseteq Key /\ t.want \subseteq Key
         /\ DOMAIN s = DOMAIN t.watched \cup t.want
         /\ \A k \in DOMAIN t.watched : t.watched[k] \in Nat
         /\ \A k \in DOMAIN s : s[k].called \in Nat /\ s[k].returned \in Nat
<1>1. PICK K \in SUBSET Key : t.watched \in [K -> Nat]
  BY DEF TxnOK
<1>2. PICK L \in SUBSET Key : s \in [L -> Bounds]
  BY DEF TxnOK
<1>3. t.want \subseteq Key /\ DOMAIN s = DOMAIN t.watched \cup t.want
  BY DEF TxnOK
<1> QED
  BY <1>1, <1>2, <1>3 DEF Bounds

\* A key that is watched has a watcher, and keeps it when another client
\* leaves.
LEMMA Watched ==
  ASSUME Counting, NEW W, IsFiniteSet(W), NEW c \in W
  PROVE  /\ Cardinality(W) \in Nat /\ Cardinality(W) >= 1
         /\ IsFiniteSet(W \ {c}) /\ Cardinality(W \ {c}) = Cardinality(W) - 1
         /\ \A d \in W : d # c => Cardinality(W) >= 2
<1> DEFINE V == W \ {c}
<1>1. Cardinality(W) \in Nat
  BY DEF Counting, CardinalityLaw
<1>2. IsFiniteSet(V) /\ Cardinality(V) = Cardinality(W) - 1
  BY DEF Counting, RemoveLaw
<1>3. Cardinality(V) \in Nat
  BY <1>2 DEF Counting, CardinalityLaw
<1>4. ASSUME NEW d \in W, d # c PROVE Cardinality(V) # 0
  <2>1. V # {}
    BY <1>4
  <2> HIDE DEF V
  <2> QED
    BY <1>2, <2>1 DEF Counting, EmptyLaw
<1> QED
  BY <1>1, <1>2, <1>3, <1>4, SMTT(20)

LEMMA FreshOK == TxnOK(Fresh, None)
<1>1. None \in [{} -> Nat] /\ None \in [{} -> Bounds] /\ DOMAIN None = {}
  BY DEF None
<1>2. {} \in SUBSET Key /\ <<>> \in Seq(Key)
  BY SMTT(20)
<1>3. None \in UNION {[K -> Nat] : K \in SUBSET Key}
  BY <1>1, <1>2
<1>4. None \in UNION {[K -> Bounds] : K \in SUBSET Key}
  BY <1>1, <1>2
<1> HIDE DEF None
<1> QED
  BY <1>1, <1>2, <1>3, <1>4 DEF TxnOK, Fresh

LEMMA InitKeepsInv ==
  ASSUME Counting
  PROVE  Init => Inv
<1> SUFFICES ASSUME Init PROVE Inv
  OBVIOUS
<1> USE DEF Init
<1>1. \A c \in Client : tx[c] = Fresh /\ since[c] = None
  OBVIOUS
<1>3. Typed
  BY <1>1, FreshOK, SMTT(20) DEF Typed
<1>4. Marked
  <2>1. DOMAIN stream = {}
    BY SMTT(20)
  <2> QED
    BY <2>1 DEF Marked
<1>5. \A c \in Client : DOMAIN tx[c].watched = {} /\ tx[c].pc = "ready"
  BY <1>1 DEF Fresh, None
<1>6. Counted
  <2>1. \A k \in Key : Watching(k) = {} /\ watchers[k] = 0
    BY <1>5 DEF Watching
  <2>2. IsFiniteSet({}) /\ Cardinality({}) = 0
    BY DEF Counting, EmptyLaw
  <2> HIDE DEF Init
  <2> QED
    BY <2>1, <2>2, SMTT(20) DEF Counted
<1> QED
  BY <1>3, <1>4, <1>5, <1>6 DEF Inv, Synced, Seen

\* A step of one client that concerns neither keys nor events.
LEMMA MoveKeepsInv ==
  ASSUME Inv, NEW c \in Client,
         UNCHANGED <<stream, versions, watchers, written, since>>,
         execMu' \in Client \cup {NoClient},
         DOMAIN tx' = Client, \A d \in Client : d # c => tx'[d] = tx[d],
         TxnOK(tx'[c], since[c]), tx'[c].watched = tx[c].watched,
         tx'[c].want = tx[c].want, tx[c].pc # "sync", tx'[c].pc # "synced"
  PROVE  Inv'
<1>1. Typed'
  <2>1. \A d \in Client : TxnOK(tx'[d], since'[d])
    BY DEF Inv, Typed
  <2> QED
    BY <2>1 DEF Inv, Typed
<1>2. /\ \A d \in Client : tx'[d].watched = tx[d].watched /\ tx'[d].want = tx[d].want
      /\ \A d \in Client : tx'[d].pc = "synced" => tx[d].pc = "synced"
      /\ \A d \in Client : tx[d].pc = "sync" => tx'[d].pc = "sync"
  OBVIOUS
<1>3. \A d \in Client : New(d)' = New(d)
  BY <1>2 DEF New
<1>4. \A k : Watching(k)' = Watching(k)
  BY <1>2 DEF Watching
<1>5. \A k : Dispatched(k)' = Dispatched(k)
  BY DEF Dispatched, InFlight
<1>6. Marked'
  BY <1>2, <1>3, <1>5, SMTT(20) DEF Inv, Marked
<1>7. Synced'
  BY <1>2, <1>3, <1>5 DEF Inv, Synced
<1>8. Counted'
  BY <1>4 DEF Inv, Counted
<1>9. Seen'
  BY <1>2, <1>5 DEF Inv, Seen, Between
<1> QED
  BY <1>1, <1>6, <1>7, <1>8, <1>9 DEF Inv

\* A write: it is in flight now, and the Coordinator knows as much as before.
LEMMA SendKeepsInv ==
  ASSUME Counting, Inv, NEW e \in Event, \A c \in Client : e # Marker(c),
         stream' = Append(stream, e),
         written' = [k \in Key |-> written[k] + Hit(e, k)],
         UNCHANGED <<versions, watchers, execMu, since>>,
         DOMAIN tx' = Client,
         \A c \in Client : /\ TxnOK(tx'[c], since[c]) /\ tx'[c].pc = tx[c].pc
                           /\ tx'[c].watched = tx[c].watched
                           /\ tx'[c].want = tx[c].want
  PROVE  Inv'
<1>0. Typed /\ written \in [Key -> Nat]
  BY DEF Inv, Typed
<1>1. ASSUME NEW k \in Key
      PROVE  Dispatched(k)' = Dispatched(k) /\ written'[k] \in Nat
  <2>1. InFlight(k)' = InFlight(k) + Hit(e, k) /\ InFlight(k) \in Nat
    BY <1>0, SendEffect
  <2>2. written'[k] = written[k] + Hit(e, k) /\ written[k] \in Nat
    BY <1>0
  <2>3. Hit(e, k) \in Nat
    BY DEF Hit
  <2> QED
    BY <2>1, <2>2, <2>3, SMTT(20) DEF Dispatched
<1>2. Typed'
  <2>1. stream' \in Seq(Event)
    BY <1>0, SMTT(20) DEF Typed
  <2>2. written' \in [Key -> Nat]
    BY <1>1
  <2> QED
    BY <2>1, <2>2 DEF Inv, Typed
<1>3. \A c \in Client : New(c)' = New(c) /\ New(c) \subseteq Key
  BY <1>0, TxnType DEF New, Typed
<1>4. \A k : Watching(k)' = Watching(k)
  BY DEF Watching
<1>5. Marked'
  <2> SUFFICES ASSUME NEW c \in Client, NEW i \in DOMAIN stream', stream'[i] = Marker(c)
               PROVE  /\ tx'[c].pc = "sync"
                      /\ \A j \in DOMAIN stream' : stream'[j] = Marker(c) => i = j
                      /\ \A k \in New(c)' :
                           since'[c][k].called <= Dispatched(k)' + Count(stream', k, i)
    BY DEF Marked
  <2>1. ASSUME NEW j \in DOMAIN stream', stream'[j] = Marker(c)
        PROVE  j \in DOMAIN stream /\ stream[j] = Marker(c)
    <3>1. /\ Len(stream) \in Nat /\ DOMAIN stream = 1 .. Len(stream)
          /\ DOMAIN stream' = 1 .. Len(stream) + 1
          /\ stream'[Len(stream) + 1] = e
          /\ \A l \in 1 .. Len(stream) : stream'[l] = stream[l]
      BY <1>0, <1>2, SMTT(20) DEF Typed
    <3>2. j # Len(stream) + 1
      BY <2>1, <3>1
    <3>3. j \in 1 .. Len(stream)
      BY <3>1, <3>2, SMTT(20)
    <3> QED
      BY <2>1, <3>1, <3>3
  <2>2. i \in DOMAIN stream /\ stream[i] = Marker(c)
    BY <2>1
  <2>3. /\ tx[c].pc = "sync"
        /\ \A j \in DOMAIN stream : stream[j] = Marker(c) => i = j
        /\ \A k \in New(c) : since[c][k].called <= Dispatched(k) + Count(stream, k, i)
    BY <2>2 DEF Inv, Marked
  <2>4. ASSUME NEW k \in New(c)' PROVE Count(stream', k, i) = Count(stream, k, i)
    BY <1>0, <1>3, <2>2, SendEffect
  <2> QED
    BY <1>1, <1>3, <2>1, <2>3, <2>4
<1>6. Synced'
  BY <1>1, <1>3 DEF Inv, Synced
<1>7. Counted'
  BY <1>4 DEF Inv, Counted
<1>8. Seen'
  <2>1. \A c \in Client : DOMAIN tx[c].watched \subseteq Key
    BY <1>0, TxnType DEF Typed
  <2> QED
    BY <1>1, <2>1, ZenonT(60) DEF Inv, Seen, Between
<1> QED
  BY <1>2, <1>5, <1>6, <1>7, <1>8 DEF Inv

\* The dispatcher: what it tells the Coordinator of a watched key is counted.
LEMMA DispatchKeepsInv ==
  ASSUME Counting
  PROVE  Inv /\ Dispatch => Inv'
<1> SUFFICES ASSUME Inv, Dispatch PROVE Inv'
  OBVIOUS
<1> DEFINE e == stream[1]
<1>0. /\ Typed /\ versions \in [Key -> Nat] /\ watchers \in [Key -> Nat]
      /\ written \in [Key -> Nat] /\ DOMAIN tx = Client
  BY DEF Inv, Typed
<1>1. /\ stream # <<>> /\ stream' = Tail(stream) /\ stream \in Seq(Event)
      /\ UNCHANGED <<watchers, execMu, written, since>>
  BY <1>0 DEF Dispatch, Typed
<1>2. /\ e \in Event /\ e = Head(stream) /\ 1 \in DOMAIN stream
      /\ stream' \in Seq(Event)
      /\ \A i \in DOMAIN stream' :
            i + 1 \in DOMAIN stream /\ stream'[i] = stream[i + 1] /\ i # 0 /\ i \in Nat
  <2>1. /\ stream' \in Seq(Event) /\ Len(stream') = Len(stream) - 1
        /\ \A i \in 1 .. Len(stream') : stream'[i] = stream[i + 1]
        /\ Len(stream) \in Nat /\ Len(stream) # 0
    BY <1>1, SMTT(20)
  <2>2. DOMAIN stream = 1 .. Len(stream) /\ DOMAIN stream' = 1 .. Len(stream')
    BY <1>1, <2>1, SMTT(20)
  <2>3. 1 \in DOMAIN stream /\ e \in Event /\ e = Head(stream)
    BY <1>1, <2>1, <2>2, SMTT(20)
  <2> QED
    BY <2>1, <2>2, <2>3, SMTT(20)
<1> HIDE DEF e
<1>3. ASSUME NEW k \in Key
      PROVE  /\ Dispatched(k)' = Dispatched(k) + Hit(e, k) /\ Dispatched(k) \in Int
             /\ \A i \in DOMAIN stream' :
                  Dispatched(k)' + Count(stream', k, i) =
                  Dispatched(k) + Count(stream, k, i + 1)
             /\ Count(stream, k, 1) = Hit(e, k)
  <2>1. /\ InFlight(k) = InFlight(k)' + Hit(e, k) /\ InFlight(k)' \in Nat
        /\ \A i \in DOMAIN stream' :
              i \in Nat /\ Count(stream, k, i + 1) = Count(stream', k, i) + Hit(e, k)
        /\ Count(stream, k, 1) = Hit(e, k)
    BY <1>0, <1>1, DispatchEffect DEF e
  <2>2. Hit(e, k) \in Nat
    BY DEF Hit
  <2>3. written[k] \in Nat /\ written'[k] = written[k]
    BY <1>0, <1>1
  <2>4. \A i \in DOMAIN stream' : Count(stream', k, i) \in Nat
    BY <2>1, CountType
  <2> QED
    BY <2>1, <2>2, <2>3, <2>4, SMTT(20) DEF Dispatched
<1>4. \A c \in Client : DOMAIN tx[c].watched \subseteq Key /\ New(c) \subseteq Key
  BY <1>0, TxnType DEF Typed, New
<1>5. CASE \E c \in Client : e = Marker(c)
  <2>1. PICK c \in Client : e = Marker(c)
    BY <1>5
  <2>2. tx' = [tx EXCEPT ![c].pc = "synced"] /\ versions' = versions
    BY <1>2, <2>1, EventsDiffer DEF Dispatch
  <2>3. \A k \in Key : Hit(e, k) = 0
    BY <2>1, EventsDiffer DEF Hit, Hits
  <2>4. /\ DOMAIN tx' = Client /\ \A d \in Client : d # c => tx'[d] = tx[d]
        /\ tx'[c] = [tx[c] EXCEPT !.pc = "synced"]
    BY <1>0, <2>2
  <2>5. tx[c].pc = "sync"
    BY <1>2, <2>1 DEF Inv, Marked, e
  <2>6. TxnOK(tx'[c], since[c]) /\ tx'[c].pc = "synced"
        /\ tx'[c].watched = tx[c].watched /\ tx'[c].want = tx[c].want
    <3>1. TxnOK(tx[c], since[c])
      BY <1>0 DEF Typed
    <3> QED
      BY <2>4, <2>5, <3>1 DEF TxnOK
  <2>7. Typed'
    BY <1>0, <1>1, <1>2, <2>2, <2>4, <2>6 DEF Typed
  <2>8. \A d \in Client : tx'[d].watched = tx[d].watched /\ tx'[d].want = tx[d].want
    BY <2>4, <2>6
  <2>9. \A d \in Client : New(d)' = New(d)
    BY <2>8 DEF New
  <2>10. \A k \in Key : Dispatched(k)' = Dispatched(k)
    BY <1>3, <2>3, SMTT(20)
  <2>11. Marked'
    <3> SUFFICES ASSUME NEW d \in Client, NEW i \in DOMAIN stream', stream'[i] = Marker(d)
                 PROVE  /\ tx'[d].pc = "sync"
                        /\ \A j \in DOMAIN stream' : stream'[j] = Marker(d) => i = j
                        /\ \A k \in New(d)' :
                             since'[d][k].called <= Dispatched(k)' + Count(stream', k, i)
      BY DEF Marked
    <3>1. i + 1 \in DOMAIN stream /\ stream[i + 1] = Marker(d) /\ i + 1 # 1
      BY <1>2, SMTT(20)
    <3>2. /\ tx[d].pc = "sync"
          /\ \A j \in DOMAIN stream : stream[j] = Marker(d) => i + 1 = j
          /\ \A k \in New(d) : since[d][k].called <= Dispatched(k) + Count(stream, k, i + 1)
      BY <3>1 DEF Inv, Marked
    <3>3. d # c
      BY <1>2, <2>1, <3>1, <3>2 DEF e
    <3>4. ASSUME NEW j \in DOMAIN stream', stream'[j] = Marker(d) PROVE i = j
      <4>1. j + 1 \in DOMAIN stream /\ stream[j + 1] = Marker(d) /\ j \in Nat /\ i \in Nat
        BY <1>2, <3>4
      <4>2. i + 1 = j + 1
        BY <3>2, <4>1
      <4> QED
        BY <4>1, <4>2, SMTT(20)
    <3>5. ASSUME NEW k \in New(d)'
          PROVE  since'[d][k].called <= Dispatched(k)' + Count(stream', k, i)
      <4>1. k \in New(d) /\ k \in Key
        BY <1>4, <2>9
      <4> QED
        BY <1>1, <1>3, <3>2, <4>1
    <3> QED
      BY <2>4, <3>2, <3>3, <3>4, <3>5
  <2>12. Synced'
    <3> SUFFICES ASSUME NEW d \in Client, tx'[d].pc = "synced", NEW k \in New(d)'
                 PROVE  since'[d][k].called <= Dispatched(k)'
      BY DEF Synced
    <3>1. k \in New(d) /\ k \in Key
      BY <1>4, <2>9
    <3>2. CASE d = c
      <4>1. since[c][k].called <= Dispatched(k) + Count(stream, k, 1)
        BY <1>2, <2>1, <3>1, <3>2 DEF Inv, Marked, e
      <4>2. Count(stream, k, 1) = 0 /\ Dispatched(k) \in Int
        BY <1>3, <2>3, <3>1
      <4> QED
        BY <1>1, <2>10, <3>1, <3>2, <4>1, <4>2, SMTT(20)
    <3>3. CASE d # c
      BY <1>1, <2>4, <2>10, <3>1, <3>3, SMTT(20) DEF Inv, Synced
    <3> QED
      BY <3>2, <3>3
  <2>13. Counted'
    <3>1. \A k : Watching(k)' = Watching(k)
      BY <2>8 DEF Watching
    <3> QED
      BY <1>1, <3>1 DEF Inv, Counted
  <2>14. Seen'
    BY <1>1, <1>4, <2>2, <2>8, <2>10 DEF Inv, Seen, Between
  <2> QED
    BY <2>7, <2>11, <2>12, <2>13, <2>14 DEF Inv
<1>6. CASE \A c \in Client : e # Marker(c)
  <2>1. e.op # "sync"
    BY <1>2, <1>6, EventsDiffer DEF Event
  <2>2. /\ tx' = tx
        /\ versions' = [k \in Key |-> IF watchers[k] > 0
                                         /\ (e = Flush \/ (e = Wrote(k) /\ k # EmptyKey))
                                      THEN versions[k] + 1 ELSE versions[k]]
    BY <1>2, <2>1 DEF Dispatch, OnEvent
  <2>3. \A k \in Key : /\ versions'[k] \in Nat /\ versions[k] \in Nat
                       /\ versions[k] <= versions'[k]
                       /\ versions'[k] <= versions[k] + Hit(e, k)
                       /\ watchers[k] > 0 /\ k # EmptyKey =>
                             versions'[k] = versions[k] + Hit(e, k)
    BY <1>0, <2>2, SMTT(20) DEF Hit, Hits
  <2>4. Typed'
    <3>1. versions' \in [Key -> Nat]
      BY <2>2, <2>3
    <3> QED
      BY <1>0, <1>1, <1>2, <2>2, <3>1 DEF Typed
  <2>5. \A d \in Client : New(d)' = New(d)
    BY <2>2 DEF New
  <2>6. Marked'
    <3> SUFFICES ASSUME NEW d \in Client, NEW i \in DOMAIN stream', stream'[i] = Marker(d)
                 PROVE  /\ tx'[d].pc = "sync"
                        /\ \A j \in DOMAIN stream' : stream'[j] = Marker(d) => i = j
                        /\ \A k \in New(d)' :
                             since'[d][k].called <= Dispatched(k)' + Count(stream', k, i)
      BY DEF Marked
    <3>1. i + 1 \in DOMAIN stream /\ stream[i + 1] = Marker(d) /\ i + 1 # 1
      BY <1>2, SMTT(20)
    <3>2. /\ tx[d].pc = "sync"
          /\ \A j \in DOMAIN stream : stream[j] = Marker(d) => i + 1 = j
          /\ \A k \in New(d) : since[d][k].called <= Dispatched(k) + Count(stream, k, i + 1)
      BY <3>1 DEF Inv, Marked
    <3>4. ASSUME NEW j \in DOMAIN stream', stream'[j] = Marker(d) PROVE i = j
      <4>1. j + 1 \in DOMAIN stream /\ stream[j + 1] = Marker(d) /\ j \in Nat /\ i \in Nat
        BY <1>2, <3>4
      <4>2. i + 1 = j + 1
        BY <3>2, <4>1
      <4> QED
        BY <4>1, <4>2, SMTT(20)
    <3>5. ASSUME NEW k \in New(d)'
          PROVE  since'[d][k].called <= Dispatched(k)' + Count(stream', k, i)
      <4>1. k \in New(d) /\ k \in Key
        BY <1>4, <2>5
      <4> QED
        BY <1>1, <1>3, <3>2, <4>1
    <3> QED
      BY <2>2, <3>2, <3>4, <3>5
  <2>7. Synced'
    <3> SUFFICES ASSUME NEW d \in Client, tx'[d].pc = "synced", NEW k \in New(d)'
                 PROVE  since'[d][k].called <= Dispatched(k)'
      BY DEF Synced
    <3>1. k \in New(d) /\ k \in Key
      BY <1>4, <2>5
    <3>2. since[d][k].called <= Dispatched(k)
      BY <2>2, <3>1 DEF Inv, Synced
    <3>3. since[d][k].called \in Nat
      <4>1. TxnOK(tx[d], since[d])
        BY <1>0 DEF Typed
      <4>2. /\ DOMAIN since[d] = DOMAIN tx[d].watched \cup tx[d].want
            /\ \A j \in DOMAIN since[d] : since[d][j].called \in Nat
        BY <4>1, TxnType
      <4>3. k \in tx[d].want
        BY <3>1 DEF New
      <4> QED
        BY <4>2, <4>3
    <3>4. Dispatched(k)' = Dispatched(k) + Hit(e, k) /\ Dispatched(k) \in Int
      BY <1>3, <3>1
    <3> QED
      BY <1>1, <3>2, <3>3, <3>4, SMTT(20) DEF Hit
  <2>8. Counted'
    <3>1. \A k : Watching(k)' = Watching(k)
      BY <2>2 DEF Watching
    <3> QED
      BY <1>1, <3>1 DEF Inv, Counted
  <2>9. Seen'
    <3> SUFFICES ASSUME NEW d \in Client, NEW k \in DOMAIN tx'[d].watched
                 PROVE  Between(d, k)'
      BY DEF Seen
    <3>1. k \in DOMAIN tx[d].watched /\ k \in Key
      BY <1>4, <2>2
    <3>2. d \in Watching(k)
      BY <3>1 DEF Watching
    <3>3. watchers[k] > 0
      <4>1. IsFiniteSet(Watching(k)) /\ Cardinality(Watching(k)) <= watchers[k]
        BY <3>1 DEF Inv, Counted
      <4>2. Cardinality(Watching(k)) \in Nat /\ Cardinality(Watching(k)) >= 1
        BY <3>2, <4>1, Watched
      <4> QED
        BY <1>0, <3>1, <4>1, <4>2, SMTT(20)
    <3>4. Between(d, k)
      BY <3>1 DEF Inv, Seen
    <3>5. /\ versions[k] \in Nat /\ versions'[k] \in Nat
          /\ versions[k] <= versions'[k] /\ versions'[k] <= versions[k] + Hit(e, k)
          /\ k # EmptyKey => versions'[k] = versions[k] + Hit(e, k)
          /\ Dispatched(k)' = Dispatched(k) + Hit(e, k) /\ Dispatched(k) \in Int
      BY <1>3, <2>3, <3>1, <3>3
    <3>6. /\ tx[d].watched[k] \in Nat /\ since[d][k].called \in Nat
          /\ since[d][k].returned \in Nat
      BY <1>0, <3>1, TxnType DEF Typed
    <3>7. Hit(e, k) \in Nat
      BY DEF Hit
    <3>8. /\ tx'[d].watched[k] = tx[d].watched[k] /\ since'[d][k] = since[d][k]
      BY <1>1, <2>2
    <3> QED
      BY <3>4, <3>5, <3>6, <3>7, <3>8, SMTT(20) DEF Between
  <2> QED
    BY <2>4, <2>6, <2>7, <2>8, <2>9 DEF Inv
<1> QED
  BY <1>5, <1>6

LEMMA WatchKeepsInv ==
  ASSUME Counting, Inv, NEW c \in Client, NEW S \in SUBSET Key, Watch(c, S)
  PROVE  Inv'
<1> DEFINE e == Marker(c)
           old == since[c]
           new == [k \in DOMAIN old \cup S |->
                     IF k \in DOMAIN old THEN old[k]
                     ELSE [called |-> written[k], returned |-> written[k]]]
<1>0. /\ Typed /\ written \in [Key -> Nat] /\ DOMAIN tx = Client /\ DOMAIN since = Client
      /\ TxnOK(tx[c], since[c])
  BY DEF Inv, Typed
<1>1. /\ tx[c].pc = "ready" /\ stream' = Append(stream, e)
      /\ tx' = [tx EXCEPT ![c].pc = "sync", ![c].want = S]
      /\ since' = [since EXCEPT ![c] = new]
      /\ UNCHANGED <<versions, watchers, execMu, written>>
  BY DEF Watch, Ready
<1>2. e \in Event /\ \A k \in Key : Hit(e, k) = 0
  BY EventsDiffer DEF Event, Hit, Hits
<1>3. /\ DOMAIN tx' = Client /\ DOMAIN since' = Client
      /\ tx'[c] = [tx[c] EXCEPT !.pc = "sync", !.want = S] /\ since'[c] = new
      /\ \A d \in Client : d # c => tx'[d] = tx[d] /\ since'[d] = since[d]
  BY <1>0, <1>1
<1> HIDE DEF e
<1>4. /\ DOMAIN old = DOMAIN tx[c].watched /\ DOMAIN old \subseteq Key
      /\ \A k \in DOMAIN old : old[k] \in Bounds
  <2>1. tx[c].want = {} /\ DOMAIN old = DOMAIN tx[c].watched \cup tx[c].want
    BY <1>0, <1>1 DEF TxnOK
  <2>2. PICK L \in SUBSET Key : old \in [L -> Bounds]
    BY <1>0 DEF TxnOK
  <2> QED
    BY <2>1, <2>2
<1>5. /\ tx'[c].pc = "sync" /\ tx'[c].watched = tx[c].watched /\ tx'[c].want = S
      /\ TxnOK(tx'[c], since'[c])
  <2>1. \A k \in DOMAIN old \cup S : new[k] \in Bounds
    BY <1>0, <1>4 DEF Bounds
  <2>2. new \in [DOMAIN old \cup S -> Bounds] /\ DOMAIN old \cup S \in SUBSET Key
    BY <1>4, <2>1
  <2>3. DOMAIN new = DOMAIN old \cup S
    OBVIOUS
  <2> HIDE DEF old, new
  <2>4. new \in UNION {[K -> Bounds] : K \in SUBSET Key}
    BY <2>2
  <2> QED
    BY <1>0, <1>3, <1>4, <2>3, <2>4 DEF TxnOK
<1>6. /\ \A k \in DOMAIN old : since'[c][k] = old[k]
      /\ \A k \in S \ DOMAIN old : since'[c][k].called = written[k]
  BY <1>3, SMTT(20)
<1> HIDE DEF old, new
<1>7. Typed'
  <2>1. stream' \in Seq(Event)
    BY <1>0, <1>1, <1>2, SMTT(20) DEF Typed
  <2> QED
    BY <1>0, <1>1, <1>3, <1>5, <2>1 DEF Typed
<1>8. \A k \in Key : Dispatched(k)' = Dispatched(k) /\ written[k] = Dispatched(k) + InFlight(k)
  <2> SUFFICES ASSUME NEW k \in Key
               PROVE  Dispatched(k)' = Dispatched(k) /\ written[k] = Dispatched(k) + InFlight(k)
    OBVIOUS
  <2>1. InFlight(k)' = InFlight(k) + Hit(e, k) /\ InFlight(k) \in Nat
    BY <1>0, <1>1, <1>2, SendEffect
  <2>2. Hit(e, k) = 0 /\ written[k] \in Nat
    BY <1>0, <1>2
  <2> QED
    BY <1>1, <2>1, <2>2, SMTT(20) DEF Dispatched
<1>9. \A d \in Client : d # c => New(d)' = New(d)
  BY <1>3 DEF New
<1>10. New(c)' = S \ DOMAIN old
  BY <1>4, <1>5 DEF New
<1>11. \A d \in Client : New(d)' \subseteq Key /\ DOMAIN tx'[d].watched \subseteq Key
  BY <1>7, TxnType DEF Typed, New
<1>12. Marked'
  <2> SUFFICES ASSUME NEW d \in Client, NEW i \in DOMAIN stream', stream'[i] = Marker(d)
               PROVE  /\ tx'[d].pc = "sync"
                      /\ \A j \in DOMAIN stream' : stream'[j] = Marker(d) => i = j
                      /\ \A k \in New(d)' :
                           since'[d][k].called <= Dispatched(k)' + Count(stream', k, i)
    BY DEF Marked
  <2>1. /\ Len(stream) \in Nat /\ DOMAIN stream = 1 .. Len(stream)
        /\ DOMAIN stream' = 1 .. Len(stream) + 1
        /\ stream'[Len(stream) + 1] = e
        /\ \A l \in 1 .. Len(stream) : stream'[l] = stream[l]
    BY <1>0, <1>1, <1>2, <1>7, SMTT(20) DEF Typed
  <2>2. CASE d = c
    <3>1. \A l \in 1 .. Len(stream) : stream'[l] # Marker(c)
      BY <1>1, <2>1 DEF Inv, Marked
    <3>2. i = Len(stream) + 1 /\ \A j \in DOMAIN stream' : stream'[j] = Marker(d) => j = Len(stream) + 1
      BY <2>1, <2>2, <3>1, SMTT(20)
    <3>3. ASSUME NEW k \in New(d)'
          PROVE  since'[d][k].called <= Dispatched(k)' + Count(stream', k, i)
      <4>1. k \in Key /\ k \in S \ DOMAIN old
        BY <1>10, <1>11, <2>2
      <4>2. Count(stream', k, Len(stream) + 1) = InFlight(k) + Hit(e, k) /\ InFlight(k) \in Nat
        BY <1>0, <1>1, <1>2, <4>1, SendEffect
      <4>3. since'[d][k].called = written[k] /\ written[k] \in Nat /\ Hit(e, k) = 0
        BY <1>0, <1>2, <1>6, <2>2, <4>1
      <4>4. Dispatched(k)' + Count(stream', k, i) = written[k]
        BY <1>8, <3>2, <4>1, <4>2, <4>3, SMTT(20)
      <4> QED
        BY <4>3, <4>4, SMTT(20)
    <3> QED
      BY <1>5, <2>2, <3>2, <3>3
  <2>3. CASE d # c
    <3>1. e # Marker(d)
      BY <2>3, EventsDiffer DEF e
    <3>2. ASSUME NEW j \in DOMAIN stream', stream'[j] = Marker(d)
          PROVE  j \in DOMAIN stream /\ stream[j] = Marker(d)
      <4>1. j # Len(stream) + 1
        BY <2>1, <3>1, <3>2
      <4>2. j \in 1 .. Len(stream)
        BY <2>1, <4>1, SMTT(20)
      <4> QED
        BY <2>1, <3>2, <4>2
    <3>3. /\ i \in DOMAIN stream /\ stream[i] = Marker(d)
      BY <3>2
    <3>4. /\ tx[d].pc = "sync"
          /\ \A j \in DOMAIN stream : stream[j] = Marker(d) => i = j
          /\ \A k \in New(d) : since[d][k].called <= Dispatched(k) + Count(stream, k, i)
      BY <3>3 DEF Inv, Marked
    <3>5. ASSUME NEW k \in New(d)' PROVE Count(stream', k, i) = Count(stream, k, i) /\ k \in Key
      BY <1>0, <1>1, <1>2, <1>11, <3>3, SendEffect
    <3> QED
      BY <1>3, <1>8, <1>9, <2>3, <3>2, <3>4, <3>5
  <2> QED
    BY <2>2, <2>3
<1>13. Synced'
  <2> SUFFICES ASSUME NEW d \in Client, tx'[d].pc = "synced", NEW k \in New(d)'
               PROVE  since'[d][k].called <= Dispatched(k)'
    BY DEF Synced
  <2>1. d # c
    BY <1>5
  <2>2. k \in New(d) /\ k \in Key
    BY <1>9, <1>11, <2>1
  <2>3. since[d][k].called <= Dispatched(k)
    BY <1>3, <2>1, <2>2 DEF Inv, Synced
  <2> QED
    BY <1>3, <1>8, <2>1, <2>2, <2>3
<1>14. \A d \in Client : tx'[d].watched = tx[d].watched
  BY <1>3, <1>5
<1>15. Counted'
  <2>1. \A k : Watching(k)' = Watching(k)
    BY <1>14 DEF Watching
  <2> QED
    BY <1>1, <2>1 DEF Inv, Counted
<1>16. Seen'
  <2> SUFFICES ASSUME NEW d \in Client, NEW k \in DOMAIN tx'[d].watched
               PROVE  Between(d, k)'
    BY DEF Seen
  <2>1. k \in DOMAIN tx[d].watched /\ k \in Key
    BY <1>11, <1>14
  <2>2. Between(d, k)
    BY <2>1 DEF Inv, Seen
  <2>3. since'[d][k] = since[d][k]
    BY <1>3, <1>4, <1>6, <2>1 DEF old
  <2>4. Dispatched(k)' = Dispatched(k) /\ tx'[d].watched[k] = tx[d].watched[k] /\ versions'[k] = versions[k]
    BY <1>1, <1>8, <1>14, <2>1
  <2> QED
    BY <2>2, <2>3, <2>4 DEF Between
<1> QED
  BY <1>7, <1>12, <1>13, <1>15, <1>16 DEF Inv

\* The keys WATCH adds have no version counted yet.
LEMMA WatchLockedKeepsInv ==
  ASSUME Counting, Inv, NEW c \in Client, WatchLocked(c)
  PROVE  Inv'
<1> DEFINE new == New(c)
           W == tx[c].watched
           V == [k \in DOMAIN W \cup new |-> IF k \in new THEN versions[k] ELSE W[k]]
           B == [k \in DOMAIN since[c] |->
                   IF k \in new THEN [called |-> since[c][k].called, returned |-> written[k]]
                                ELSE since[c][k]]
<1>0. /\ Typed /\ written \in [Key -> Nat] /\ versions \in [Key -> Nat]
      /\ watchers \in [Key -> Nat] /\ DOMAIN tx = Client /\ DOMAIN since = Client
      /\ TxnOK(tx[c], since[c])
  BY DEF Inv, Typed
<1>1. /\ tx[c].pc = "synced"
      /\ watchers' = [k \in Key |-> IF k \in new THEN watchers[k] + 1 ELSE watchers[k]]
      /\ tx' = [tx EXCEPT ![c].pc = "ready", ![c].want = {}, ![c].watched = V]
      /\ since' = [since EXCEPT ![c] = B]
      /\ UNCHANGED <<stream, versions, execMu, written>>
  BY DEF WatchLocked, New
<1>2. /\ DOMAIN tx' = Client /\ DOMAIN since' = Client
      /\ tx'[c] = [tx[c] EXCEPT !.pc = "ready", !.want = {}, !.watched = V]
      /\ since'[c] = B
      /\ \A d \in Client : d # c => tx'[d] = tx[d] /\ since'[d] = since[d]
  BY <1>0, <1>1
<1>3. /\ DOMAIN W \subseteq Key /\ new \subseteq Key /\ new \cap DOMAIN W = {}
      /\ DOMAIN since[c] = DOMAIN W \cup new
      /\ \A k \in DOMAIN W : W[k] \in Nat
      /\ \A k \in DOMAIN since[c] :
            since[c][k] \in Bounds /\ since[c][k].called \in Nat /\ since[c][k].returned \in Nat
  <2>1. PICK L \in SUBSET Key : since[c] \in [L -> Bounds]
    BY <1>0 DEF TxnOK
  <2>2. \A k \in DOMAIN since[c] : since[c][k] \in Bounds
    BY <2>1
  <2> QED
    BY <1>0, <2>2, TxnType DEF New
<1> HIDE DEF new, W
<1>4. /\ DOMAIN V = DOMAIN W \cup new /\ DOMAIN B = DOMAIN W \cup new
      /\ \A k \in new : V[k] = versions[k] /\ B[k].called = since[c][k].called /\ B[k].returned = written[k]
      /\ \A k \in DOMAIN W : V[k] = W[k] /\ B[k] = since[c][k]
      /\ \A k \in DOMAIN W \cup new : V[k] \in Nat /\ B[k] \in Bounds
  BY <1>0, <1>3 DEF Bounds
<1>5. V \in [DOMAIN V -> Nat] /\ B \in [DOMAIN B -> Bounds]
  BY <1>4
<1> HIDE DEF V, B
<1>6. /\ tx'[c].pc = "ready" /\ tx'[c].watched = V /\ tx'[c].want = {}
      /\ TxnOK(tx'[c], since'[c])
  <2>1. V \in UNION {[K -> Nat] : K \in SUBSET Key}
    BY <1>3, <1>4, <1>5
  <2>2. B \in UNION {[K -> Bounds] : K \in SUBSET Key}
    BY <1>3, <1>4, <1>5
  <2> QED
    BY <1>0, <1>2, <1>4, <2>1, <2>2 DEF TxnOK
<1>7. Typed'
  <2>1. watchers' \in [Key -> Nat]
    BY <1>0, <1>1, SMTT(20)
  <2> QED
    BY <1>0, <1>1, <1>2, <1>6, <2>1 DEF Typed
<1>8. \A k : Dispatched(k)' = Dispatched(k)
  BY <1>1 DEF Dispatched, InFlight
<1>9. \A d \in Client : d # c => New(d)' = New(d)
  BY <1>2 DEF New
<1>10. Marked'
  <2> SUFFICES ASSUME NEW d \in Client, NEW i \in DOMAIN stream, stream[i] = Marker(d)
               PROVE  /\ tx'[d].pc = "sync"
                      /\ \A j \in DOMAIN stream : stream[j] = Marker(d) => i = j
                      /\ \A k \in New(d)' :
                           since'[d][k].called <= Dispatched(k)' + Count(stream, k, i)
    BY <1>1, ZenonT(60) DEF Marked
  <2>1. /\ tx[d].pc = "sync"
        /\ \A j \in DOMAIN stream : stream[j] = Marker(d) => i = j
        /\ \A k \in New(d) : since[d][k].called <= Dispatched(k) + Count(stream, k, i)
    BY DEF Inv, Marked
  <2>2. d # c
    BY <1>1, <2>1
  <2> QED
    BY <1>2, <1>8, <1>9, <2>1, <2>2
<1>11. Synced'
  <2> SUFFICES ASSUME NEW d \in Client, tx'[d].pc = "synced", NEW k \in New(d)'
               PROVE  since'[d][k].called <= Dispatched(k)'
    BY DEF Synced
  <2>1. d # c
    BY <1>6
  <2> QED
    BY <1>2, <1>8, <1>9, <2>1 DEF Inv, Synced
<1>12. Counted'
  <2> SUFFICES ASSUME NEW k \in Key
               PROVE  IsFiniteSet(Watching(k)') /\ Cardinality(Watching(k)') <= watchers'[k]
    BY DEF Counted
  <2>0. IsFiniteSet(Watching(k)) /\ Cardinality(Watching(k)) <= watchers[k]
    BY DEF Inv, Counted
  <2>1. Cardinality(Watching(k)) \in Nat /\ watchers[k] \in Nat
    BY <1>0, <2>0 DEF Counting, CardinalityLaw
  <2>2. CASE k \in new
    <3>1. Watching(k)' = Watching(k) \cup {c}
      BY <1>2, <1>4, <1>6, <2>2 DEF Watching
    <3>2. c \notin Watching(k)
      BY <1>3, <2>2 DEF Watching, W
    <3>3. /\ IsFiniteSet(Watching(k) \cup {c})
          /\ Cardinality(Watching(k) \cup {c}) = Cardinality(Watching(k)) + 1
      <4> DEFINE X == Watching(k)
      <4>1. c \notin X /\ IsFiniteSet(X)
        BY <2>0, <3>2
      <4> HIDE DEF X
      <4>2. IsFiniteSet(X \cup {c}) /\ Cardinality(X \cup {c}) = Cardinality(X) + 1
        BY <4>1 DEF Counting, AddLaw
      <4> QED
        BY <4>2 DEF X
    <3>4. watchers'[k] = watchers[k] + 1
      BY <1>1, <2>2
    <3> QED
      BY <2>0, <2>1, <3>1, <3>3, <3>4, SMTT(20)
  <2>3. CASE k \notin new
    <3>1. Watching(k)' = Watching(k)
      BY <1>2, <1>4, <1>6, <2>3 DEF Watching, W
    <3>2. watchers'[k] = watchers[k]
      BY <1>1, <2>3
    <3> QED
      BY <2>0, <3>1, <3>2
  <2> QED
    BY <2>2, <2>3
<1>13. Seen'
  <2> SUFFICES ASSUME NEW d \in Client, NEW k \in DOMAIN tx'[d].watched
               PROVE  Between(d, k)'
    BY DEF Seen
  <2>1. CASE d # c
    <3>1. Between(d, k)
      BY <1>2, <2>1 DEF Inv, Seen
    <3> QED
      BY <1>1, <1>2, <1>8, <2>1, <3>1 DEF Between
  <2>2. CASE d = c /\ k \in DOMAIN W
    <3>1. Between(c, k)
      BY <2>2 DEF Inv, Seen, W
    <3>2. tx'[c].watched[k] = tx[c].watched[k] /\ since'[c][k] = since[c][k]
      BY <1>2, <1>4, <1>6, <2>2 DEF W
    <3> QED
      BY <1>1, <1>8, <2>2, <3>1, <3>2 DEF Between
  <2>3. CASE d = c /\ k \in new
    <3>1. k \in Key /\ k \in DOMAIN since[c]
      BY <1>3, <2>3
    <3>2. since[c][k].called <= Dispatched(k)
      BY <1>1, <2>3 DEF Inv, Synced, new
    <3>3. /\ tx'[c].watched[k] = versions[k] /\ since'[c][k].called = since[c][k].called
          /\ since'[c][k].returned = written[k] /\ versions'[k] = versions[k]
      BY <1>1, <1>2, <1>4, <1>6, <2>3, SMTT(20)
    <3>4. InFlight(k) \in Nat
      BY <1>0, InFlightIs DEF InFlight, Typed
    <3>5. /\ versions[k] \in Nat /\ written[k] \in Nat /\ Dispatched(k) <= written[k]
          /\ Dispatched(k) \in Int
      BY <1>0, <3>1, <3>4, SMTT(20) DEF Dispatched
    <3> QED
      BY <1>3, <1>8, <2>3, <3>1, <3>2, <3>3, <3>5, SMTT(20) DEF Between
  <2> QED
    BY <1>4, <1>6, <2>1, <2>2, <2>3
<1> QED
  BY <1>7, <1>10, <1>11, <1>12, <1>13 DEF Inv

\* The end of a transaction: the others keep what they know.
LEMMA EndKeepsInv ==
  ASSUME Counting, Inv, NEW c \in Client, tx[c].pc # "sync",
         UNCHANGED <<stream, written>>,
         execMu' \in Client \cup {NoClient},
         tx' = [tx EXCEPT ![c] = Fresh], since' = [since EXCEPT ![c] = None],
         versions' \in [Key -> Nat], watchers' \in [Key -> Nat],
         \A k \in Key : Cardinality(Watching(k) \ {c}) <= watchers'[k],
         \A k \in Key : \A d \in Watching(k) : d # c => versions'[k] = versions[k]
  PROVE  Inv'
<1>0. Typed /\ DOMAIN tx = Client /\ DOMAIN since = Client
  BY DEF Inv, Typed
<1>1. /\ DOMAIN tx' = Client /\ DOMAIN since' = Client
      /\ tx'[c] = Fresh /\ since'[c] = None
      /\ \A d \in Client : d # c => tx'[d] = tx[d] /\ since'[d] = since[d]
  BY <1>0
<1>2. Fresh.pc = "ready" /\ DOMAIN Fresh.watched = {} /\ Fresh.want = {}
  BY DEF Fresh, None
<1>3. Typed'
  BY <1>0, <1>1, FreshOK DEF Typed
<1>4. \A k : Dispatched(k)' = Dispatched(k)
  BY DEF Dispatched, InFlight
<1>5. \A d \in Client : d # c => New(d)' = New(d)
  BY <1>1 DEF New
<1>6. Marked'
  <2> SUFFICES ASSUME NEW d \in Client, NEW i \in DOMAIN stream, stream[i] = Marker(d)
               PROVE  /\ tx'[d].pc = "sync"
                      /\ \A j \in DOMAIN stream : stream[j] = Marker(d) => i = j
                      /\ \A k \in New(d)' :
                           since'[d][k].called <= Dispatched(k)' + Count(stream, k, i)
    BY DEF Marked
  <2>1. /\ tx[d].pc = "sync"
        /\ \A j \in DOMAIN stream : stream[j] = Marker(d) => i = j
        /\ \A k \in New(d) : since[d][k].called <= Dispatched(k) + Count(stream, k, i)
    BY DEF Inv, Marked
  <2>2. d # c
    BY <2>1
  <2> QED
    BY <1>1, <1>4, <1>5, <2>1, <2>2
<1>7. Synced'
  <2> SUFFICES ASSUME NEW d \in Client, tx'[d].pc = "synced", NEW k \in New(d)'
               PROVE  since'[d][k].called <= Dispatched(k)'
    BY DEF Synced
  <2>1. d # c
    BY <1>1, <1>2
  <2> QED
    BY <1>1, <1>4, <1>5, <2>1 DEF Inv, Synced
<1>8. Counted'
  <2> SUFFICES ASSUME NEW k \in Key
               PROVE  IsFiniteSet(Watching(k)') /\ Cardinality(Watching(k)') <= watchers'[k]
    BY DEF Counted
  <2>1. Watching(k)' = Watching(k) \ {c}
    BY <1>1, <1>2 DEF Watching
  <2>2. IsFiniteSet(Watching(k) \ {c})
    <3> DEFINE X == Watching(k)
               Y == X \ {c}
    <3>1. IsFiniteSet(X) /\ Y \subseteq X
      BY DEF Inv, Counted
    <3> HIDE DEF X, Y
    <3>2. IsFiniteSet(Y)
      BY <3>1 DEF Counting, SubsetLaw
    <3> QED
      BY <3>2 DEF X, Y
  <2> QED
    BY <2>1, <2>2
<1>9. Seen'
  <2> SUFFICES ASSUME NEW d \in Client, NEW k \in DOMAIN tx'[d].watched
               PROVE  Between(d, k)'
    BY DEF Seen
  <2>1. d # c
    BY <1>1, <1>2
  <2>2. k \in DOMAIN tx[d].watched /\ Between(d, k)
    BY <1>1, <2>1 DEF Inv, Seen
  <2>3. k \in Key
    BY <1>0, <2>2, TxnType DEF Typed
  <2>4. versions'[k] = versions[k]
    BY <2>1, <2>2, <2>3 DEF Watching
  <2> QED
    BY <1>1, <1>4, <2>1, <2>2, <2>4 DEF Between
<1> QED
  BY <1>3, <1>6, <1>7, <1>8, <1>9 DEF Inv

\* release takes away one watcher, and the version only with the last.
LEMMA ReleaseKeepsInv ==
  ASSUME Counting, Inv, NEW c \in Client, Release(c), tx[c].pc # "sync",
         UNCHANGED <<stream, written>>, execMu' \in Client \cup {NoClient}
  PROVE  Inv'
<1> DEFINE mine == {k \in DOMAIN tx[c].watched : watchers[k] > 0}
<1>0. /\ Typed /\ watchers \in [Key -> Nat] /\ versions \in [Key -> Nat]
      /\ DOMAIN tx[c].watched \subseteq Key
  BY TxnType DEF Inv, Typed
<1>1. /\ watchers' = [k \in Key |-> IF k \in mine THEN watchers[k] - 1 ELSE watchers[k]]
      /\ \A k \in Key : versions'[k] =
            IF k \in mine /\ watchers'[k] = 0 THEN 0 ELSE versions[k]
      /\ versions' \in [Key -> Nat]
      /\ tx' = [tx EXCEPT ![c] = Fresh] /\ since' = [since EXCEPT ![c] = None]
  BY <1>0 DEF Release
<1>2. watchers' \in [Key -> Nat]
  BY <1>0, <1>1, SMTT(20)
<1>3. ASSUME NEW k \in Key
      PROVE  /\ IsFiniteSet(Watching(k)) /\ Cardinality(Watching(k)) <= watchers[k]
             /\ watchers[k] \in Nat /\ Cardinality(Watching(k)) \in Nat
  BY <1>0 DEF Inv, Counted, Counting, CardinalityLaw
<1>4. ASSUME NEW k \in Key PROVE Cardinality(Watching(k) \ {c}) <= watchers'[k]
  <2>1. CASE c \in Watching(k)
    <3>1. Cardinality(Watching(k) \ {c}) = Cardinality(Watching(k)) - 1
          /\ Cardinality(Watching(k)) >= 1
      BY <1>3, <2>1, Watched
    <3>2. watchers'[k] = watchers[k] - 1
      BY <1>1, <1>3, <2>1, <3>1, SMTT(20) DEF Watching
    <3> QED
      BY <1>3, <3>1, <3>2, SMTT(20)
  <2>2. CASE c \notin Watching(k)
    <3>1. Watching(k) \ {c} = Watching(k)
      BY <2>2
    <3>2. watchers'[k] = watchers[k]
      BY <1>1, <2>2 DEF Watching
    <3> QED
      BY <1>3, <3>1, <3>2
  <2> QED
    BY <2>1, <2>2
<1>5. ASSUME NEW k \in Key, NEW d \in Watching(k), d # c PROVE versions'[k] = versions[k]
  <2>1. CASE k \in mine
    <3>1. c \in Watching(k)
      BY <2>1 DEF Watching
    <3>2. Cardinality(Watching(k)) >= 2
      BY <1>3, <1>5, <3>1, Watched
    <3>3. watchers'[k] # 0
      BY <1>1, <1>3, <2>1, <3>2, SMTT(20)
    <3> QED
      BY <1>1, <3>3
  <2>2. CASE k \notin mine
    BY <1>1, <2>2
  <2> QED
    BY <2>1, <2>2
<1> HIDE DEF mine
<1> QED
  BY <1>1, <1>2, <1>4, <1>5, EndKeepsInv

\* Send adds Hit to written.
LEMMA SendIs ==
  ASSUME Typed, NEW e, NEW S \in SUBSET Key, Send(e, S),
         e \in {Flush} \cup {Wrote(k) : k \in Key}, \A k \in Key : k \in S <=> Hits(e, k)
  PROVE  /\ e \in Event /\ \A c \in Client : e # Marker(c)
         /\ stream' = Append(stream, e)
         /\ written' = [k \in Key |-> written[k] + Hit(e, k)]
<1>1. e \in Event /\ \A c \in Client : e # Marker(c)
  BY EventsDiffer, SMTT(20) DEF Event
<1>2. \A k \in Key : (IF k \in S THEN written[k] + 1 ELSE written[k]) = written[k] + Hit(e, k)
  BY SMTT(20) DEF Hit, Typed
<1> QED
  BY <1>1, <1>2 DEF Send

LEMMA NextKeepsInv ==
  ASSUME Counting
  PROVE  Inv /\ [Next]_vars => Inv'
<1> SUFFICES ASSUME Inv, [Next]_vars PROVE Inv'
  OBVIOUS
<1>0. /\ Typed /\ DOMAIN tx = Client /\ execMu \in Client \cup {NoClient}
      /\ \A c \in Client : TxnOK(tx[c], since[c])
  BY DEF Inv, Typed
<1>1. CASE Dispatch
  BY <1>1, DispatchKeepsInv
<1>2. ASSUME NEW c \in Client, NEW k \in Key, Write(c, k) PROVE Inv'
  <2>1. Send(Wrote(k), {k}) /\ UNCHANGED <<versions, watchers, tx, execMu, since>>
    BY <1>2 DEF Write
  <2>2. \A j \in Key : j \in {k} <=> Hits(Wrote(k), j)
    BY EventsDiffer DEF Hits, Wrote, Flush
  <2>3. /\ Wrote(k) \in Event /\ \A d \in Client : Wrote(k) # Marker(d)
        /\ stream' = Append(stream, Wrote(k))
        /\ written' = [j \in Key |-> written[j] + Hit(Wrote(k), j)]
    BY <1>0, <2>1, <2>2, SendIs
  <2> QED
    BY <1>0, <2>1, <2>3, SendKeepsInv
<1>3. ASSUME NEW c \in Client, FlushAll(c) PROVE Inv'
  <2>1. Send(Flush, Key) /\ UNCHANGED <<versions, watchers, tx, execMu, since>>
    BY <1>3 DEF FlushAll
  <2>2. \A j \in Key : j \in Key <=> Hits(Flush, j)
    BY DEF Hits
  <2>3. /\ Flush \in Event /\ \A d \in Client : Flush # Marker(d)
        /\ stream' = Append(stream, Flush)
        /\ written' = [j \in Key |-> written[j] + Hit(Flush, j)]
    BY <1>0, <2>1, <2>2, SendIs
  <2> QED
    BY <1>0, <2>1, <2>3, SendKeepsInv
<1>4. ASSUME NEW c \in Client, ExecCommand(c) PROVE Inv'
  <2> DEFINE k == Head(tx[c].queued)
  <2>0. tx[c].queued \in Seq(Key) /\ tx[c].queued # <<>>
    BY <1>0, <1>4 DEF ExecCommand, TxnOK
  <2>1. k \in Key /\ Tail(tx[c].queued) \in Seq(Key)
    BY <2>0, SMTT(20)
  <2>2. /\ Send(Wrote(k), {k}) /\ UNCHANGED <<versions, watchers, execMu, since>>
        /\ tx' = [tx EXCEPT ![c].queued = Tail(tx[c].queued)]
    BY <1>4 DEF ExecCommand
  <2>3. /\ DOMAIN tx' = Client /\ \A d \in Client : d # c => tx'[d] = tx[d]
        /\ tx'[c] = [tx[c] EXCEPT !.queued = Tail(tx[c].queued)]
    BY <1>0, <2>2
  <2>4. /\ TxnOK(tx'[c], since[c]) /\ tx'[c].pc = tx[c].pc
        /\ tx'[c].watched = tx[c].watched /\ tx'[c].want = tx[c].want
    BY <1>0, <2>1, <2>3 DEF TxnOK
  <2> HIDE DEF k
  <2>5. \A j \in Key : j \in {k} <=> Hits(Wrote(k), j)
    BY <2>1, EventsDiffer DEF Hits, Wrote, Flush
  <2>6. /\ Wrote(k) \in Event /\ \A d \in Client : Wrote(k) # Marker(d)
        /\ stream' = Append(stream, Wrote(k))
        /\ written' = [j \in Key |-> written[j] + Hit(Wrote(k), j)]
    BY <1>0, <2>1, <2>2, <2>5, SendIs
  <2>7. \A d \in Client : /\ TxnOK(tx'[d], since[d]) /\ tx'[d].pc = tx[d].pc
                          /\ tx'[d].watched = tx[d].watched
                          /\ tx'[d].want = tx[d].want
    BY <1>0, <2>3, <2>4
  <2> QED
    BY <2>2, <2>3, <2>6, <2>7, SendKeepsInv
<1>5. ASSUME NEW c \in Client, NEW S \in SUBSET Key, Watch(c, S) PROVE Inv'
  BY <1>5, WatchKeepsInv
<1>6. ASSUME NEW c \in Client, WatchLocked(c) PROVE Inv'
  BY <1>6, WatchLockedKeepsInv
<1>7. ASSUME NEW c \in Client, Multi(c) PROVE Inv'
  <2>1. /\ tx[c].pc = "ready" /\ tx' = [tx EXCEPT ![c].multi = TRUE]
        /\ UNCHANGED <<stream, versions, watchers, written, since>> /\ execMu' = execMu
    BY <1>7 DEF Multi, Ready
  <2>2. /\ DOMAIN tx' = Client /\ \A d \in Client : d # c => tx'[d] = tx[d]
        /\ tx'[c] = [tx[c] EXCEPT !.multi = TRUE]
    BY <1>0, <2>1
  <2>3. /\ TxnOK(tx'[c], since[c]) /\ tx'[c].watched = tx[c].watched
        /\ tx'[c].want = tx[c].want /\ tx'[c].pc = "ready"
    <3>1. PICK b \in BOOLEAN : b = TRUE
      OBVIOUS
    <3>2. tx'[c] = [tx[c] EXCEPT !.multi = b]
      BY <2>2, <3>1
    <3> QED
      BY <1>0, <2>1, <3>2 DEF TxnOK
  <2> QED
    BY <1>0, <2>1, <2>2, <2>3, MoveKeepsInv
<1>8. ASSUME NEW c \in Client, NEW k \in Key, Queue(c, k) PROVE Inv'
  <2>1. /\ tx[c].pc = "ready" /\ tx' = [tx EXCEPT ![c].queued = Append(tx[c].queued, k)]
        /\ UNCHANGED <<stream, versions, watchers, written, since>> /\ execMu' = execMu
    BY <1>8 DEF Queue, Ready
  <2>2. /\ DOMAIN tx' = Client /\ \A d \in Client : d # c => tx'[d] = tx[d]
        /\ tx'[c] = [tx[c] EXCEPT !.queued = Append(tx[c].queued, k)]
    BY <1>0, <2>1
  <2>3. Append(tx[c].queued, k) \in Seq(Key)
    BY <1>0, SMTT(20) DEF TxnOK
  <2>4. /\ TxnOK(tx'[c], since[c]) /\ tx'[c].watched = tx[c].watched
        /\ tx'[c].want = tx[c].want /\ tx'[c].pc = "ready"
    BY <1>0, <2>1, <2>2, <2>3 DEF TxnOK
  <2> QED
    BY <1>0, <2>1, <2>2, <2>4, MoveKeepsInv
<1>9. ASSUME NEW c \in Client, Exec(c) PROVE Inv'
  <2>1. /\ tx[c].pc = "ready" /\ tx' = [tx EXCEPT ![c].pc = "exec"]
        /\ UNCHANGED <<stream, versions, watchers, written, since>> /\ execMu' = execMu
    BY <1>9 DEF Exec, Ready
  <2>2. /\ DOMAIN tx' = Client /\ \A d \in Client : d # c => tx'[d] = tx[d]
        /\ tx'[c] = [tx[c] EXCEPT !.pc = "exec"]
    BY <1>0, <2>1
  <2>3. /\ TxnOK(tx'[c], since[c]) /\ tx'[c].watched = tx[c].watched
        /\ tx'[c].want = tx[c].want /\ tx'[c].pc = "exec"
    BY <1>0, <2>1, <2>2 DEF TxnOK
  <2> QED
    BY <1>0, <2>1, <2>2, <2>3, MoveKeepsInv
<1>10. ASSUME NEW c \in Client, ExecCheck(c) PROVE Inv'
  <2>1. CASE Changed(c)
    <3>1. /\ Release(c) /\ tx[c].pc = "exec" /\ execMu' = execMu
          /\ UNCHANGED <<stream, written>>
      BY <1>10, <2>1 DEF ExecCheck
    <3> QED
      BY <1>0, <3>1, ReleaseKeepsInv
  <2>2. CASE ~Changed(c)
    <3>1. /\ tx[c].pc = "exec" /\ tx' = [tx EXCEPT ![c].pc = "run"]
          /\ UNCHANGED <<stream, versions, watchers, written, since>> /\ execMu' = c
      BY <1>10, <2>2 DEF ExecCheck
    <3>2. /\ DOMAIN tx' = Client /\ \A d \in Client : d # c => tx'[d] = tx[d]
          /\ tx'[c] = [tx[c] EXCEPT !.pc = "run"]
      BY <1>0, <3>1
    <3>3. /\ TxnOK(tx'[c], since[c]) /\ tx'[c].watched = tx[c].watched
          /\ tx'[c].want = tx[c].want /\ tx'[c].pc = "run"
      BY <1>0, <3>1, <3>2, ZenonT(60) DEF TxnOK
    <3> QED
      BY <3>1, <3>2, <3>3, MoveKeepsInv
  <2> QED
    BY <2>1, <2>2
<1>11. ASSUME NEW c \in Client, ExecReturn(c) PROVE Inv'
  <2>1. /\ Release(c) /\ tx[c].pc = "run" /\ execMu' = NoClient
        /\ UNCHANGED <<stream, written>>
    BY <1>11 DEF ExecReturn
  <2> QED
    BY <2>1, ReleaseKeepsInv
<1>12. ASSUME NEW c \in Client, Discard(c) PROVE Inv'
  <2>1. /\ Release(c) /\ tx[c].pc = "ready" /\ execMu' = execMu
        /\ UNCHANGED <<stream, written>>
    BY <1>12 DEF Discard, Ready
  <2> QED
    BY <1>0, <2>1, ReleaseKeepsInv
<1>13. ASSUME NEW c \in Client, Disconnect(c) PROVE Inv'
  <2>1. /\ tx[c].pc = "ready" /\ execMu' = execMu
        /\ tx' = [tx EXCEPT ![c] = Fresh] /\ since' = [since EXCEPT ![c] = None]
        /\ UNCHANGED <<stream, versions, watchers, written>>
    BY <1>13 DEF Disconnect, Ready
  <2>2. versions' \in [Key -> Nat] /\ watchers' \in [Key -> Nat]
    BY <1>0, <2>1 DEF Typed
  <2>3. ASSUME NEW k \in Key PROVE Cardinality(Watching(k) \ {c}) <= watchers'[k]
    <3>1. /\ IsFiniteSet(Watching(k)) /\ Cardinality(Watching(k)) <= watchers[k]
          /\ watchers[k] \in Nat /\ Cardinality(Watching(k)) \in Nat
      BY <1>0 DEF Inv, Counted, Typed, Counting, CardinalityLaw
    <3>2. CASE c \in Watching(k)
      <4>1. Cardinality(Watching(k) \ {c}) = Cardinality(Watching(k)) - 1
        BY <3>1, <3>2, Watched
      <4> QED
        BY <2>1, <3>1, <4>1, SMTT(20)
    <3>3. CASE c \notin Watching(k)
      <4>1. Watching(k) \ {c} = Watching(k)
        BY <3>3
      <4> QED
        BY <2>1, <3>1, <4>1
    <3> QED
      BY <3>2, <3>3
  <2>4. \A k \in Key : \A d \in Watching(k) : d # c => versions'[k] = versions[k]
    BY <2>1
  <2> QED
    BY <1>0, <2>1, <2>2, <2>3, <2>4, EndKeepsInv
<1>14. CASE UNCHANGED vars
  <2>1. UNCHANGED <<stream, versions, watchers, tx, execMu, written, since>>
    BY <1>14 DEF vars
  <2>2. /\ Typed' /\ \A k : Dispatched(k)' = Dispatched(k) /\ Watching(k)' = Watching(k)
        /\ \A c : New(c)' = New(c)
    BY <1>0, <2>1 DEF Typed, Dispatched, InFlight, Watching, New
  <2>3. Marked' /\ Synced' /\ Counted' /\ Seen'
    BY <2>1, <2>2 DEF Inv, Marked, Synced, Counted, Seen, Between
  <2> QED
    BY <2>2, <2>3 DEF Inv
<1> QED
  BY <1>1, <1>2, <1>3, <1>4, <1>5, <1>6, <1>7, <1>8, <1>9, <1>10, <1>11, <1>12,
     <1>13, <1>14 DEF Next, Running
------------------------------------------------------------------------------
(* What EXEC may rely on.                                                   *)

\* ExecCheck is the only step that ends an EXEC or lets it go ahead.
LEMMA OnlyCheckDecides ==
  ASSUME Inv, [Next]_vars, NEW c \in Client, tx[c].pc = "exec", tx'[c].pc # "exec"
  PROVE  /\ ExecCheck(c)
         /\ tx'[c].pc = "ready" => Changed(c)
         /\ tx'[c].pc = "run" => ~Changed(c)
<1>0. DOMAIN tx = Client
  BY DEF Inv, Typed
<1>1. ASSUME NEW d \in Client, d # c, NEW v, tx' = [tx EXCEPT ![d] = v] PROVE FALSE
  BY <1>0, <1>1
<1>2. CASE Dispatch
  <2>1. /\ stream # <<>> /\ stream' = Tail(stream)
    BY <1>2 DEF Dispatch
  <2>2. /\ stream[1] \in Event /\ stream[1] = Head(stream) /\ 1 \in DOMAIN stream
    <3>1. stream \in Seq(Event)
      BY DEF Inv, Typed
    <3> QED
      BY <2>1, <3>1, SMTT(20)
  <2>3. Head(stream).op = "sync"
    BY <1>2 DEF Dispatch
  <2>4. PICK d \in Client : stream[1] = Marker(d)
    BY <2>2, <2>3, EventsDiffer, SMTT(20) DEF Event
  <2>5. tx[d].pc = "sync"
    BY <2>2, <2>4 DEF Inv, Marked
  <2>6. tx' = [tx EXCEPT ![d].pc = "synced"] /\ d # c
    BY <1>2, <2>2, <2>4, <2>5, EventsDiffer, SMTT(20) DEF Dispatch
  <2> QED
    BY <1>0, <2>6
<1>3. ASSUME NEW d \in Client, NEW k \in Key, Write(d, k) \/ Queue(d, k) PROVE FALSE
  BY <1>0, <1>3 DEF Write, Queue, Ready
<1>4. ASSUME NEW d \in Client, FlushAll(d) PROVE FALSE
  BY <1>0, <1>4 DEF FlushAll, Ready
<1>5. ASSUME NEW d \in Client, NEW S, Watch(d, S) PROVE FALSE
  BY <1>0, <1>5 DEF Watch, Ready
<1>6. ASSUME NEW d \in Client, Multi(d) \/ Exec(d) PROVE FALSE
  BY <1>0, <1>6 DEF Multi, Exec, Ready
<1>7. ASSUME NEW d \in Client, Discard(d) \/ Disconnect(d) PROVE FALSE
  BY <1>0, <1>7 DEF Discard, Disconnect, Ready, Release
<1>8. ASSUME NEW d \in Client, WatchLocked(d) PROVE FALSE
  BY <1>0, <1>8 DEF WatchLocked
<1>9. ASSUME NEW d \in Client, ExecCommand(d) \/ ExecReturn(d) PROVE FALSE
  BY <1>0, <1>9 DEF ExecCommand, ExecReturn, Release
<1>10. ASSUME NEW d \in Client, ExecCheck(d)
       PROVE  /\ ExecCheck(c)
              /\ tx'[c].pc = "ready" => Changed(c)
              /\ tx'[c].pc = "run" => ~Changed(c)
  <2>1. d = c
    BY <1>0, <1>10 DEF ExecCheck, Release
  <2>2. CASE Changed(c)
    <3>1. tx'[c] = Fresh
      BY <1>0, <1>10, <2>1, <2>2 DEF ExecCheck, Release
    <3> QED
      BY <1>10, <2>1, <2>2, <3>1, SMTT(20) DEF Fresh
  <2>3. CASE ~Changed(c)
    <3>1. tx' = [tx EXCEPT ![c].pc = "run"]
      BY <1>10, <2>1, <2>3 DEF ExecCheck
    <3>2. tx'[c].pc = "run"
      BY <1>0, <3>1 DEF Inv, Typed, TxnOK
    <3> QED
      BY <1>10, <2>1, <2>3, <3>2
  <2> QED
    BY <2>2, <2>3
<1>11. CASE UNCHANGED vars
  BY <1>11 DEF vars
<1> QED
  BY <1>2, <1>3, <1>4, <1>5, <1>6, <1>7, <1>8, <1>9, <1>10, <1>11 DEF Next, Running
-----------------------------------------------------------------------------
(* The library, and what the lemmas assume of it.                           *)

Sets == INSTANCE FiniteSetTheorems

\* The two copies of the definitions of FiniteSets.
LEMMA SameSets ==
  \A S : Sets!Cardinality(S) = Cardinality(S) /\ Sets!IsFiniteSet(S) = IsFiniteSet(S)
  BY DEF Cardinality, Sets!Cardinality, IsFiniteSet, Sets!IsFiniteSet

LEMMA CountingHolds == Counting
<1>1. CardinalityLaw
  BY SameSets, Sets!FS_CardinalityType DEF CardinalityLaw
<1>2. EmptyLaw
  BY SameSets, Sets!FS_EmptySet DEF EmptyLaw
<1>3. AddLaw
  BY SameSets, Sets!FS_AddElement DEF AddLaw
<1>4. RemoveLaw
  BY SameSets, Sets!FS_RemoveElement DEF RemoveLaw
<1>5. SubsetLaw
  BY SameSets, Sets!FS_Subset DEF SubsetLaw
<1>6. IntervalLaw
  BY SameSets, Sets!FS_Interval DEF IntervalLaw
<1>7. BijectionLaw
  <2> SUFFICES ASSUME NEW S, NEW T, NEW f \in [S -> T], IsFiniteSet(S),
                      \A x, y \in S : f[x] = f[y] => x = y,
                      \A y \in T : \E x \in S : f[x] = y
               PROVE  IsFiniteSet(T) /\ Cardinality(T) = Cardinality(S)
    BY DEF BijectionLaw
  <2>1. Sets!ExistsBijection(S, T)
    BY DEF Sets!ExistsBijection, Sets!Bijection, Sets!Injection, Sets!Surjection,
           Sets!IsInjective
  <2> QED
    BY <2>1, SameSets, Sets!FS_Bijection
<1>8. InjectionLaw
  <2> SUFFICES ASSUME NEW S, NEW T, NEW f \in [S -> T],
                      IsFiniteSet(T), Cardinality(S) = Cardinality(T),
                      \A x, y \in S : f[x] = f[y] => x = y
               PROVE  \A y \in T : \E x \in S : f[x] = y
    BY SMTT(20) DEF InjectionLaw
  <2>1. f \in Sets!Injection(S, T)
    BY DEF Sets!Injection, Sets!IsInjective
  <2>2. f \in Sets!Surjection(S, T)
    BY <2>1, SameSets, Sets!FS_Injection
  <2> QED
    BY <2>2 DEF Sets!Surjection
<1>9. WellOrdered
  <2> SUFFICES ASSUME NEW T \in SUBSET Nat, T # {}
               PROVE  \E x \in T : \A y \in T : x <= y
    BY DEF WellOrdered
  <2> DEFINE R == Sets!OpToRel(<, Nat)
  <2>1. \A x, y \in Nat : <<x, y>> \in R <=> x < y
    BY DEF Sets!OpToRel
  <2>2. Sets!IsWellFoundedOn(R, Nat)
    BY Sets!NatLessThanWellFounded
  <2> HIDE DEF R
  <2>3. PICK x \in T : \A y \in T : ~(<<y, x>> \in R)
    BY <2>2, Sets!WFMin
  <2>4. \A y \in T : x \in Nat /\ y \in Nat /\ ~(y < x)
    BY <2>1, <2>3
  <2> QED
    BY <2>4, SMTT(20)
<1> QED
  BY <1>1, <1>2, <1>3, <1>4, <1>5, <1>6, <1>7, <1>8, <1>9 DEF Counting
-----------------------------------------------------------------------------
(* The theorems.                                                            *)

\* The invariant holds in every reachable state.
LEMMA InvHolds == Spec => []Inv
<1>1. Init => Inv
  BY InitKeepsInv, CountingHolds
<1>2. Inv /\ [Next]_vars => Inv'
  BY NextKeepsInv, CountingHolds
<1> QED
  BY <1>1, <1>2, PTL DEF Spec

\* versions and watchers never go negative, and what a connection watches is
\* known since WATCH was called (TypeOK).
THEOREM TxnTypes == Spec => []TypeOK
<1>1. ASSUME Inv PROVE TypeOK
  <2>1. Typed
    BY <1>1 DEF Inv
  <2>2. \A c \in Client : /\ DOMAIN tx[c].watched \subseteq DOMAIN since[c]
                          /\ tx[c].pc \in {"ready", "sync", "synced", "exec", "run"}
    BY <2>1 DEF Typed, TxnOK
  <2> QED
    BY <2>1, <2>2 DEF TypeOK, Typed
<1> QED
  BY <1>1, InvHolds, PTL

\* EXEC is aborted only because of a write that came after WATCH was called
\* (NoFalseAbort).
THEOREM AbortsAreTrue == Spec => NoFalseAbort
<1>1. ASSUME Inv, [Next]_vars, NEW c \in Client, Aborts(c)
      PROVE  \E k \in DOMAIN tx[c].watched : written[k] > since[c][k].called
  <2>1. Changed(c)
    BY <1>1, OnlyCheckDecides DEF Aborts
  <2>2. PICK k \in DOMAIN tx[c].watched : versions[k] # tx[c].watched[k]
    BY <2>1 DEF Changed
  <2>3. Between(c, k)
    BY <1>1 DEF Inv, Seen
  <2>4. Typed
    BY <1>1 DEF Inv
  <2>5. /\ k \in Key /\ tx[c].watched[k] \in Nat /\ since[c][k].called \in Nat
    BY <2>4, TxnType DEF Typed
  <2>6. versions[k] \in Nat /\ written[k] \in Nat /\ InFlight(k) \in Nat
    BY <2>4, <2>5, InFlightIs, CountingHolds, ZenonT(60) DEF InFlight, Typed
  <2>7. written[k] > since[c][k].called
    BY <2>2, <2>3, <2>5, <2>6, SMTT(20) DEF Between, Dispatched
  <2> QED
    BY <2>7
<1>2. ASSUME Inv, [Next]_vars
      PROVE  [\A c \in Client : Aborts(c) =>
                \E k \in DOMAIN tx[c].watched : written[k] > since[c][k].called]_vars
  BY <1>1, <1>2
<1> QED
  BY <1>2, InvHolds, PTL DEF Spec, NoFalseAbort

\* A write that EXEC does not notice is still on the way to the Coordinator
\* (MissesOnlyInFlight).
THEOREM MissesAreInFlight == Spec => MissesOnlyInFlight
<1>1. ASSUME Inv, [Next]_vars, NEW c \in Client, GoesAhead(c),
             NEW k \in DOMAIN tx[c].watched \ {EmptyKey}
      PROVE  written[k] - since[c][k].returned <= InFlight(k)
  <2>1. ~Changed(c)
    BY <1>1, OnlyCheckDecides DEF GoesAhead
  <2>2. versions[k] = tx[c].watched[k]
    BY <2>1 DEF Changed
  <2>3. Between(c, k)
    BY <1>1 DEF Inv, Seen
  <2>4. Typed
    BY <1>1 DEF Inv
  <2>5. /\ k \in Key /\ tx[c].watched[k] \in Nat /\ since[c][k].returned \in Nat
    BY <2>4, TxnType DEF Typed
  <2>6. written[k] \in Nat /\ InFlight(k) \in Nat
    <3>1. stream \in Seq(Event) /\ written \in [Key -> Nat]
      BY <2>4 DEF Typed
    <3>2. Cardinality({i \in DOMAIN stream : stream[i] = Flush \/ stream[i] = Wrote(k)}) \in Nat
      BY <3>1, InFlightIs, CountingHolds
    <3> QED
      BY <2>5, <3>1, <3>2 DEF InFlight
  <2> QED
    BY <2>2, <2>3, <2>5, <2>6, SMTT(20) DEF Between, Dispatched
<1>2. ASSUME Inv, [Next]_vars
      PROVE  [\A c \in Client : GoesAhead(c) =>
                \A k \in DOMAIN tx[c].watched \ {EmptyKey} :
                   written[k] - since[c][k].returned <= InFlight(k)]_vars
  BY <1>1, <1>2
<1> QED
  BY <1>2, InvHolds, PTL DEF Spec, MissesOnlyInFlight
==============================================================================
