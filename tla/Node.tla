-------------------------------- MODULE Node --------------------------------
(***************************************************************************)
(* One life of the cache-server process, from the end of Recover to the    *)
(* return of main: the cache, the persistence manager with its snapshot    *)
(* loop, and main's shutdown, which closes the server, the replication     *)
(* primary, the manager (after a last snapshot) and the cache, one after   *)
(* the other.                                                              *)
(*                                                                         *)
(* Creating, renaming or opening a file may fail, and with it a snapshot   *)
(* or a compaction; writes to an open file do not fail.  A compaction that *)
(* fails after it has closed the old file leaves the AOF without an open   *)
(* one, and every later append is lost.                                    *)
(*                                                                         *)
(* Of a connection to the primary only what its Close waits for is kept:   *)
(* whether handle still waits for the magic ("silent"), is registered      *)
(* ("replica"), was registered only after Close had gone over the          *)
(* registered connections ("late"), or has returned ("none").              *)
(***************************************************************************)
EXTENDS Persistence

CONSTANTS
    Peer,       \* connections to the primary
    CanFail     \* whether the disk may fail

ASSUME NodeAssumption == CanFail \in BOOLEAN

VARIABLES
    stage,      \* how far main's shutdown is
    peer,       \* the connections to the primary
    loop,       \* whether snapshotLoop runs
    broken,     \* Compact failed with the file closed
    saved       \* history: the last snapshot is on disk

lifeVars == <<stage, peer, loop, broken, saved>>
nVars == <<allVars, lifeVars>>

NInit ==
    /\ PInit
    /\ stage = "up"
    /\ peer = [p \in Peer |-> "none"]
    /\ loop = TRUE
    /\ broken = FALSE
    /\ saved = FALSE

\* AOF.f is open.
LogOpen == ~broken /\ stage \notin {"cache", "closing", "exited"}

\* A step of main that touches nothing else.
Main(from, to) ==
    /\ stage = from
    /\ stage' = to
    /\ UNCHANGED <<allVars, peer, loop, broken, saved>>
-----------------------------------------------------------------------------
(* The cache and the AOF.                                                   *)

\* Sessions run until Server.Close returns, the sweeper until Cache.Close.
Operate ==
    /\ \/ stage \in {"up", "server"} /\ Client
       \/ ~closed /\ \E s \in Shard, t \in Clock : Sweep(s, t)
    /\ UNCHANGED <<persistVars, lifeVars>>

Deliver ==
    /\ \/ AppendRecord /\ LogOpen
       \* AOF.Append fails, or fills a buffer that is never flushed.
       \/ Fan /\ UNCHANGED persistVars /\ ~LogOpen
       \/ (StoreSeq \/ FanAck \/ Stop) /\ UNCHANGED persistVars
    /\ UNCHANGED lifeVars

SendOn(s) == Sender(s) /\ UNCHANGED <<persistVars, lifeVars>>

SyncOn(y) == SyncStep(y) /\ UNCHANGED <<persistVars, lifeVars>>

TimePasses == Tick /\ UNCHANGED <<persistVars, lifeVars>>

\* everySec, until AOF.Close stops it.
Flush == FsyncLog /\ LogOpen /\ UNCHANGED lifeVars
-----------------------------------------------------------------------------
(* Snapshots.  Manager.mu is free when snapper is "idle".                   *)

\* snapshotLoop: the ticker fires.  One snapshot is kept for the shutdown.
Periodic ==
    /\ loop
    /\ snapshots + (IF stage \in {"up", "server", "primary", "waiting",
                                  "snapshot"} THEN 1 ELSE 0) < MaxSnapshots
    /\ SnapshotBegin
    /\ UNCHANGED lifeVars

\* main calls Snapshot.
FinalBegin ==
    /\ stage = "snapshot"
    /\ SnapshotBegin
    /\ stage' = "final"
    /\ UNCHANGED <<peer, loop, broken, saved>>

Write ==
    /\ \/ (SnapshotSeq \/ SnapshotClock \/ ExportShard) /\ UNCHANGED saved
       \/ SnapshotRename /\ saved' = (stage = "final")
    /\ UNCHANGED <<stage, peer, loop, broken>>

\* Snapshot returns, to main or to the loop.
Returned == stage' = IF stage = "final" THEN "manager" ELSE stage

\* Faulty: the log is compacted all the same.
WriteFailsCompacts ==
    /\ CanFail
    /\ snapper = "rename"
    /\ snapper' = "compact"
    /\ UNCHANGED <<vars, fileVars, draft, snapshots, past, crashes, lifeVars>>

\* WriteSnapshot fails; the last snapshot stays.
WriteFails ==
    /\ CanFail
    /\ snapper = "rename"
    /\ snapper' = "idle"
    /\ draft' = NoDraft
    /\ Returned
    /\ UNCHANGED <<vars, fileVars, snapshots, past, crashes,
                   peer, loop, broken, saved>>

Compacted ==
    /\ ~broken
    /\ Compact
    /\ Returned
    /\ UNCHANGED <<peer, loop, broken, saved>>

\* Compact fails before it has closed the old file or after that, with the
\* old or the new file in place.
CompactBreaks ==
    /\ snapper = "compact"
    /\ ~broken
    /\ CanFail
    /\ broken' \in BOOLEAN
    /\ \/ log' = log
       \/ broken' /\ log' = After(log, draft.startSeq)
    /\ durable' = Len(log')
    /\ past' = <<applied>>
    /\ snapper' = "idle"
    /\ draft' = NoDraft
    /\ Returned
    /\ UNCHANGED <<vars, snap, snapshots, crashes, peer, loop, saved>>

\* Faulty: on its first error path Compact keeps the mutex.
CompactFailsLocked == CompactBreaks

\* Compact fails; at once, in Flush, when the AOF is broken.
CompactFails ==
    \/ CompactBreaks
    \/ /\ snapper = "compact"
       /\ broken
       /\ snapper' = "idle"
       /\ draft' = NoDraft
       /\ Returned
       /\ UNCHANGED <<vars, fileVars, past, snapshots, crashes,
                      peer, loop, broken, saved>>

Snapshot == Write \/ WriteFails \/ Compacted \/ CompactFails
-----------------------------------------------------------------------------
(* main, after the signal.                                                  *)

Signal == Main("up", "server")

\* Server.Close returns: every session has ended, and with it the operation
\* it was in.
ServerClosed ==
    /\ \A s \in Shard : pending[s] = <<>>
    /\ flushAt = 1
    /\ Main("server", "primary")

\* Faulty: registered connections are not closed.
PrimaryCutNone == Main("primary", "waiting")

\* Primary.Close: close quit and the listener, then the registered
\* connections.
PrimaryCut ==
    /\ stage = "primary"
    /\ stage' = "waiting"
    /\ peer' = [p \in Peer |-> IF peer[p] = "replica" THEN "cut" ELSE peer[p]]
    /\ UNCHANGED <<allVars, loop, broken, saved>>

\* Primary.Close: wg.Wait returns.
PrimaryClosed ==
    /\ \A p \in Peer : peer[p] = "none"
    /\ Main("waiting", "snapshot")

\* Manager.Close: close stop.
ManagerStop == Main("manager", "stopping")

\* snapshotLoop sees stop; it may serve the ticker once more before that.
LoopEnds ==
    /\ stage = "stopping"
    /\ loop
    /\ snapper = "idle"
    /\ loop' = FALSE
    /\ UNCHANGED <<allVars, stage, peer, broken, saved>>

\* Faulty: AOF.Close does not flush.
LogCloseBare ==
    /\ ~loop
    /\ Main("stopping", "cache")

\* wg.Wait of Manager.Close, and AOF.Close.
LogClose ==
    /\ stage = "stopping"
    /\ ~loop
    /\ stage' = "cache"
    /\ IF broken
       THEN UNCHANGED <<durable, past>>
       ELSE durable' = Len(log) /\ past' = <<applied>>
    /\ UNCHANGED <<vars, log, snap, snapVars, crashes,
                   peer, loop, broken, saved>>

CacheClose ==
    /\ stage = "cache"
    /\ Close
    /\ stage' = "closing"
    /\ UNCHANGED <<persistVars, peer, loop, broken, saved>>

\* Cache.Close returns, and main with it.
Exit ==
    /\ ShutDown
    /\ Main("closing", "exited")

Shutdown ==
    \/ ServerClosed \/ PrimaryCut \/ PrimaryClosed \/ FinalBegin
    \/ ManagerStop \/ LoopEnds \/ LogClose \/ CacheClose \/ Exit
-----------------------------------------------------------------------------
(* The connections of the primary.                                          *)

Becomes(p, from, to) ==
    /\ peer[p] = from
    /\ peer' = [peer EXCEPT ![p] = to]
    /\ UNCHANGED <<allVars, stage, loop, broken, saved>>

PeerDials(p) ==
    /\ stage \in {"up", "server", "primary"}
    /\ Becomes(p, "none", "silent")

\* handle reads the magic and registers the connection.
PeerSpeaks(p) ==
    Becomes(p, "silent", IF stage = "waiting" THEN "late" ELSE "replica")

\* The peer closes the connection, or reads all it is sent and handle finds
\* quit closed; handle returns.
PeerLeaves(p) ==
    \E from \in {"silent", "replica", "late"} : Becomes(p, from, "none")

\* The connection is closed: whatever handle does with it fails.
HandleEnds(p) == Becomes(p, "cut", "none")
-----------------------------------------------------------------------------
\* main waits, for Manager.mu or for the loop, or has returned.
Rest == stage \in {"snapshot", "final", "stopping", "exited"} /\ UNCHANGED nVars

NNext ==
    \/ Operate \/ Deliver \/ TimePasses \/ Flush
    \/ \E s \in Shard : SendOn(s)
    \/ \E y \in Syncer : SyncOn(y)
    \/ Periodic \/ Snapshot
    \/ Signal \/ Shutdown
    \/ \E p \in Peer : PeerDials(p) \/ PeerSpeaks(p) \/ PeerLeaves(p)
                         \/ HandleEnds(p)
    \/ Rest

NSpec == NInit /\ [][NNext]_nVars

\* Every goroutine of the process runs; clients, peers, the clock, the ticker
\* and the signal need not.
NFairSpec ==
    /\ NSpec
    /\ WF_nVars(Deliver)
    /\ \A s \in Shard : WF_nVars(SendOn(s))
    /\ \A y \in Syncer : WF_nVars(SyncOn(y))
    /\ WF_nVars(Snapshot)
    /\ WF_nVars(Shutdown)
    /\ \A p \in Peer : WF_nVars(HandleEnds(p))
-----------------------------------------------------------------------------
(* As long as the AOF has its file, the files and the stream together have  *)
(* everything, whichever snapshots and compactions failed, and while main   *)
(* shuts the process down.  (Snapshot, Compact, AOF.Append.)                *)
NothingMissing == LogOpen => RecoveryComplete

(* The order of main's shutdown loses nothing: when main returns, a start   *)
(* from the files gives the live contents the cache had, expired entries    *)
(* swept after the AOF was closed included; also if a compaction had broken *)
(* the AOF, provided the last snapshot was written, and if that failed,     *)
(* provided the AOF was not broken.  (main.go, from srv.Close to c.Close.)  *)
CleanShutdown ==
    stage = "exited" /\ (saved \/ ~broken) =>
        \A k \in Key :
            Live(Recovered(snap, SubSeq(log, 1, durable))[k]) = Live(items[k])

(* A snapshot that was begun comes to its end: its Sync returns and every   *)
(* shard it exports is unlocked, whatever the writers and the dispatcher,   *)
(* which waits for the log, do and whichever step fails.                    *)
SnapshotReturns == snapper # "idle" ~> snapper = "idle"

(* The shutdown comes to its end, past the snapshot loop, the writers and   *)
(* the handlers it waits for, unless a peer that Primary.Close has not cut  *)
(* stays: one that never sent the magic, or sent it too late.               *)
ShutdownEnds ==
    []<>(\A p \in Peer : peer[p] \notin {"silent", "late"}) =>
        (stage = "server" ~> stage = "exited")
=============================================================================
