-------------------------------- MODULE Txn --------------------------------
(***************************************************************************)
(* The optimistic transactions of internal/txn and the commands WATCH,     *)
(* UNWATCH, MULTI, EXEC and DISCARD of internal/server.                    *)
(*                                                                         *)
(* The Coordinator subscribes to the events of the cache and counts, per   *)
(* watched key, the events it has seen.  It sees an event when the         *)
(* dispatcher of the cache gets to it, some time after the write is done.  *)
(* The stream of events is a queue here; EventStream has its details.      *)
(*                                                                         *)
(* A connection runs one command at a time.  Commands are abstracted to    *)
(* the key they write.  A transaction that a connection has not begun is   *)
(* one that watches nothing and queues nothing.                            *)
(***************************************************************************)
EXTENDS Integers, Sequences, FiniteSets, FiniteSetsExt

CONSTANTS
    Client,
    Key,
    EmptyKey,       \* the key ""
    NoClient,
    MaxWrites,      \* bound: events of writes
    MaxQueued,      \* bound: commands in a transaction
    MaxLost         \* bound: connections that end in a transaction

ASSUME TxnParameters ==
    /\ NoClient \notin Client
    /\ MaxWrites \in Nat /\ MaxQueued \in Nat /\ MaxLost \in Nat

VARIABLES
    stream,     \* events and the markers of Sync that were not dispatched yet
    versions,   \* Coordinator.versions, 0 for a key it does not have
    watchers,   \* Coordinator.watchers, 0 for a key it does not have
    tx,         \* the connection of each client and its transaction
    execMu,     \* the client that has Coordinator.execMu
    lost,       \* connections that ended in a transaction so far
    sent,       \* the number of events of writes so far
    written,    \* history: those that change a given key
    since       \* history: written when a client called WATCH, and when WATCH
                \* returned, for each key it watches

vars == <<stream, versions, watchers, tx, execMu, lost, sent, written, since>>
-----------------------------------------------------------------------------
None == [k \in {} |-> 0]    \* a map without keys

Fresh == [pc |-> "ready", multi |-> FALSE, watched |-> None, queued |-> <<>>,
          want |-> {}]

Flush == [op |-> "flush"]
Wrote(k) == [op |-> "set", key |-> k]
Marker(c) == [op |-> "sync", client |-> c]

Init ==
    /\ stream = <<>>
    /\ versions = [k \in Key |-> 0]
    /\ watchers = [k \in Key |-> 0]
    /\ tx = [c \in Client |-> Fresh]
    /\ execMu = NoClient
    /\ lost = 0
    /\ sent = 0
    /\ written = [k \in Key |-> 0]
    /\ since = [c \in Client |-> None]

Ready(c) == tx[c].pc = "ready"

\* The bound leaves room for the commands that are queued.
Room == sent + MapThenSumSet(LAMBDA c : Len(tx[c].queued), Client) < MaxWrites

\* A write is done when its event is in the stream.
Send(ev, S) ==
    /\ stream' = Append(stream, ev)
    /\ sent' = sent + 1
    /\ written' = [k \in Key |-> IF k \in S THEN written[k] + 1 ELSE written[k]]
-----------------------------------------------------------------------------
\* onEvent: one more version of each watched key that the event changes.  An
\* event with the key "" is taken for one without a key, and changes none.
OnEvent ==
    LET ev == Head(stream)
    IN  versions' = [k \in Key |->
            IF watchers[k] > 0 /\ (ev = Flush \/ (ev = Wrote(k) /\ k # EmptyKey))
            THEN versions[k] + 1 ELSE versions[k]]

\* The dispatcher of the cache hands the next event to the Coordinator, or
\* answers a Sync.
Dispatch ==
    /\ stream # <<>>
    /\ stream' = Tail(stream)
    /\ IF Head(stream).op = "sync"
       THEN /\ tx' = [tx EXCEPT ![Head(stream).client].pc = "synced"]
            /\ UNCHANGED versions
       ELSE OnEvent /\ UNCHANGED tx
    /\ UNCHANGED <<watchers, execMu, sent, written, since, lost>>

\* Commands outside a transaction.
Write(c, k) ==
    /\ Ready(c) /\ ~tx[c].multi
    /\ Room
    /\ Send(Wrote(k), {k})
    /\ UNCHANGED <<versions, watchers, tx, execMu, since, lost>>

\* FlushAll sends one flush event for each shard, and to the Coordinator each
\* of them is a change of every key.  This is one of them.
FlushAll(c) ==
    /\ Ready(c) /\ ~tx[c].multi
    /\ Room
    /\ Send(Flush, Key)
    /\ UNCHANGED <<versions, watchers, tx, execMu, since, lost>>

\* Faulty: WATCH does not wait for the events of earlier writes.
WatchUnsynced(c, S) ==
    /\ Ready(c) /\ ~tx[c].multi
    /\ tx' = [tx EXCEPT ![c].pc = "synced", ![c].want = S]
    /\ since' = [since EXCEPT ![c] =
          [k \in DOMAIN since[c] \cup S |->
              IF k \in DOMAIN since[c] THEN since[c][k]
              ELSE [called |-> written[k], returned |-> written[k]]]]
    /\ UNCHANGED <<stream, versions, watchers, execMu, sent, written, lost>>

\* WATCH, refused inside MULTI, first waits in Sync ...
Watch(c, S) ==
    /\ Ready(c) /\ ~tx[c].multi
    /\ stream' = Append(stream, Marker(c))
    /\ tx' = [tx EXCEPT ![c].pc = "sync", ![c].want = S]
    /\ since' = [since EXCEPT ![c] =
          [k \in DOMAIN since[c] \cup S |->
              IF k \in DOMAIN since[c] THEN since[c][k]
              ELSE [called |-> written[k], returned |-> written[k]]]]
    /\ UNCHANGED <<versions, watchers, execMu, sent, written, lost>>

\* Faulty: the watchers of a key are not counted.
WatchLockedOnce(c) ==
    LET new == tx[c].want \ DOMAIN tx[c].watched
    IN  /\ tx[c].pc = "synced"
        /\ watchers' = [k \in Key |-> IF k \in new THEN 1 ELSE watchers[k]]
        /\ tx' = [tx EXCEPT ![c].pc = "ready", ![c].want = {},
                            ![c].watched = [k \in DOMAIN tx[c].watched \cup new |->
                                IF k \in new THEN versions[k] ELSE tx[c].watched[k]]]
        /\ since' = [since EXCEPT ![c] = [k \in DOMAIN since[c] |->
              IF k \in new THEN [called |-> since[c][k].called, returned |-> written[k]]
                           ELSE since[c][k]]]
        /\ UNCHANGED <<stream, versions, execMu, sent, written, lost>>

\* ... and then, holding mu, notes the versions of the keys.
WatchLocked(c) ==
    LET new == tx[c].want \ DOMAIN tx[c].watched
    IN  /\ tx[c].pc = "synced"
        /\ watchers' = [k \in Key |-> IF k \in new THEN watchers[k] + 1 ELSE watchers[k]]
        /\ tx' = [tx EXCEPT ![c].pc = "ready", ![c].want = {},
                            ![c].watched = [k \in DOMAIN tx[c].watched \cup new |->
                                IF k \in new THEN versions[k] ELSE tx[c].watched[k]]]
        /\ since' = [since EXCEPT ![c] = [k \in DOMAIN since[c] |->
              IF k \in new THEN [called |-> since[c][k].called, returned |-> written[k]]
                           ELSE since[c][k]]]
        /\ UNCHANGED <<stream, versions, execMu, sent, written, lost>>

Multi(c) ==
    /\ Ready(c) /\ ~tx[c].multi
    /\ tx' = [tx EXCEPT ![c].multi = TRUE]
    /\ UNCHANGED <<stream, versions, watchers, execMu, sent, written, since, lost>>

Queue(c, k) ==
    /\ Ready(c) /\ tx[c].multi
    /\ Len(tx[c].queued) < MaxQueued
    /\ Room
    /\ tx' = [tx EXCEPT ![c].queued = Append(@, k)]
    /\ UNCHANGED <<stream, versions, watchers, execMu, sent, written, since, lost>>

\* Faulty: the watches are given up twice.
ReleaseTwice(c) ==
    /\ watchers' = [k \in Key |->
          IF k \in DOMAIN tx[c].watched THEN watchers[k] - 2 ELSE watchers[k]]
    /\ tx' = [tx EXCEPT ![c] = Fresh]
    /\ since' = [since EXCEPT ![c] = None]
    /\ UNCHANGED versions

\* release, and the end of the transaction: the last watcher of a key takes
\* its version along.
Release(c) ==
    LET mine == {k \in DOMAIN tx[c].watched : watchers[k] > 0}
        left == [k \in Key |-> IF k \in mine THEN watchers[k] - 1 ELSE watchers[k]]
    IN  /\ watchers' = left
        /\ versions' = [k \in Key |->
              IF k \in mine /\ left[k] = 0 THEN 0 ELSE versions[k]]
        /\ tx' = [tx EXCEPT ![c] = Fresh]
        /\ since' = [since EXCEPT ![c] = None]

\* DISCARD, also right after WATCH, and UNWATCH, only outside MULTI.
Discard(c) ==
    /\ Ready(c)
    /\ tx[c] # Fresh
    /\ Release(c)
    /\ UNCHANGED <<stream, execMu, sent, written, lost>>

\* EXEC waits for execMu ...
Exec(c) ==
    /\ Ready(c) /\ tx[c].multi
    /\ tx' = [tx EXCEPT ![c].pc = "exec"]
    /\ UNCHANGED <<stream, versions, watchers, execMu, sent, written, since, lost>>

Changed(c) == \E k \in DOMAIN tx[c].watched : versions[k] # tx[c].watched[k]

\* Faulty: an EXEC that should be aborted compares the versions again.
ExecCheckRetries(c) ==
    /\ tx[c].pc = "exec"
    /\ execMu = NoClient
    /\ IF Changed(c) THEN UNCHANGED <<tx, execMu>>
       ELSE /\ tx' = [tx EXCEPT ![c].pc = "run"]
            /\ execMu' = c
    /\ UNCHANGED <<stream, versions, watchers, since, sent, written, lost>>

\* ... compares the versions, and is aborted or goes ahead ...
ExecCheck(c) ==
    /\ tx[c].pc = "exec"
    /\ execMu = NoClient
    /\ IF Changed(c) THEN Release(c) /\ UNCHANGED execMu
       ELSE /\ tx' = [tx EXCEPT ![c].pc = "run"]
            /\ execMu' = c
            /\ UNCHANGED <<versions, watchers, since>>
    /\ UNCHANGED <<stream, sent, written, lost>>

\* ... runs the queued commands one by one ...
ExecCommand(c) ==
    /\ tx[c].pc = "run"
    /\ tx[c].queued # <<>>
    /\ Send(Wrote(Head(tx[c].queued)), {Head(tx[c].queued)})
    /\ tx' = [tx EXCEPT ![c].queued = Tail(@)]
    /\ UNCHANGED <<versions, watchers, execMu, since, lost>>

\* ... and releases its watches and execMu.
ExecReturn(c) ==
    /\ tx[c].pc = "run"
    /\ tx[c].queued = <<>>
    /\ Release(c)
    /\ execMu' = NoClient
    /\ UNCHANGED <<stream, sent, written, lost>>

\* A connection that ends gives up its transaction without Discard: its
\* watchers stay.  The client may connect again.
Disconnect(c) ==
    /\ Ready(c)
    /\ tx[c] # Fresh
    /\ lost < MaxLost
    /\ lost' = lost + 1
    /\ tx' = [tx EXCEPT ![c] = Fresh]
    /\ since' = [since EXCEPT ![c] = None]
    /\ UNCHANGED <<stream, versions, watchers, execMu, sent, written>>
-----------------------------------------------------------------------------
Running(c) ==
    WatchLocked(c) \/ ExecCheck(c) \/ ExecCommand(c) \/ ExecReturn(c)

Next ==
    \/ Dispatch
    \/ \E c \in Client :
          \/ \E k \in Key : Write(c, k) \/ Queue(c, k)
          \/ FlushAll(c)
          \/ \E S \in (SUBSET Key) \ {{}} : Watch(c, S)
          \/ Multi(c) \/ Discard(c) \/ Exec(c) \/ Disconnect(c)
          \/ Running(c)

Spec == Init /\ [][Next]_vars

(* The dispatcher and the goroutine of a connection keep running, and Go's  *)
(* mutexes starve no one.                                                   *)
FairSpec ==
    /\ Spec
    /\ WF_vars(Dispatch)
    /\ \A c \in Client : WF_vars(Running(c)) /\ SF_vars(ExecCheck(c))
-----------------------------------------------------------------------------
TypeOK ==
    /\ \A k \in Key : versions[k] \in Nat /\ watchers[k] \in Nat
    /\ execMu \in Client \cup {NoClient}
    /\ \A c \in Client :
          /\ tx[c].pc \in {"ready", "sync", "synced", "exec", "run"}
          /\ DOMAIN tx[c].watched \subseteq DOMAIN since[c]

InFlight(k) ==
    Cardinality({i \in DOMAIN stream : stream[i] = Flush \/ stream[i] = Wrote(k)})

Aborts(c) == tx[c].pc = "exec" /\ tx'[c].pc = "ready"
GoesAhead(c) == tx[c].pc = "exec" /\ tx'[c].pc = "run"

(* EXEC is aborted only if one of its keys was written after WATCH was      *)
(* called: writes that were done before do not count, although their        *)
(* events may have been on the way (Watch calls Sync for this).             *)
NoFalseAbort ==
    [][\A c \in Client : Aborts(c) =>
          \E k \in DOMAIN tx[c].watched : written[k] > since[c][k].called]_vars

(* EXEC goes ahead in spite of a write after WATCH only while the event of  *)
(* that write is on the way, however the watches of other clients come and  *)
(* go: no write to a key that has a name is forgotten.  The key "" is left  *)
(* out: WATCH and SET take it, but onEvent counts no write to it, and EXEC  *)
(* goes ahead after one with nothing on the way.                            *)
MissesOnlyInFlight ==
    [][\A c \in Client : GoesAhead(c) =>
          \A k \in DOMAIN tx[c].watched \ {EmptyKey} :
              written[k] - since[c][k].returned <= InFlight(k)]_vars

(* WATCH and EXEC return: no client waits forever for execMu or for Sync.   *)
CommandsReturn ==
    \A c \in Client : tx[c].pc \in {"sync", "synced", "exec", "run"} ~> Ready(c)
=============================================================================
