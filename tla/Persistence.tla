---------------------------- MODULE Persistence ----------------------------
(***************************************************************************)
(* The append-only file and the snapshots of internal/persistence, on top  *)
(* of the event stream of internal/cache.                                  *)
(*                                                                         *)
(* The manager subscribes to the stream and appends every event, with its  *)
(* number, to the log.  A snapshot is taken while writes go on: Sync, read *)
(* Seq() as the boundary, export the shards one after the other, rename    *)
(* the finished file into place, and compact the log to the records newer  *)
(* than the boundary.  A restart loads the snapshot and applies the        *)
(* records of the log that are newer than its boundary.                    *)
(*                                                                         *)
(* The log is one sequence of records.  Its first `durable' records are    *)
(* flushed and fsynced; of the others a crash keeps any prefix, and may    *)
(* leave a torn record behind it.                                          *)
(***************************************************************************)
EXTENDS EventStream

CONSTANTS
    Snapper,        \* the goroutine that runs Manager.Snapshot
    SyncAlways,     \* whether the sync policy is "always"
    CanTear,        \* whether a crash may leave a torn record
    MaxSnapshots,   \* bound: snapshots
    MaxCrashes      \* bound: crashes

ASSUME SnapperAssumption == Snapper \in Syncer
ASSUME PersistenceFlags == SyncAlways \in BOOLEAN /\ CanTear \in BOOLEAN
ASSUME PersistenceBounds == MaxSnapshots \in Nat /\ MaxCrashes \in Nat

VARIABLES
    log,        \* the records of the append-only file
    durable,    \* how many of them are flushed and fsynced
    snap,       \* the snapshot file: its boundary and its entries
    snapper,    \* what Manager.Snapshot does next
    draft,      \* the snapshot being written: boundary, clock, next shard
    past,       \* history: the contents after the last durable event and
                \* after each event handed out since
    snapshots, crashes      \* so far, for the bounds

fileVars == <<log, durable, snap>>
snapVars == <<snapper, draft, snapshots>>
persistVars == <<fileVars, snapVars, past, crashes>>
allVars == <<vars, persistVars>>

NoDraft == [startSeq |-> 0, now |-> 0, next |-> 1, entries |-> EmptyStore]

PInit ==
    /\ Init
    /\ log = <<>>
    /\ durable = 0
    \* No file reads like an empty snapshot with boundary 0.
    /\ snap = [startSeq |-> 0, entries |-> EmptyStore]
    /\ snapper = "idle"
    /\ draft = NoDraft
    /\ past = <<EmptyStore>>
    /\ snapshots = 0
    /\ crashes = 0
-----------------------------------------------------------------------------
(* The append-only file.                                                    *)

\* A record the crash has cut short, and what a reader makes of one when it
\* finds the header complete and takes the payload from the bytes behind it.
Torn(r) == [r EXCEPT !.torn = TRUE]

Misread(r, v) ==
    [seq |-> r.seq, ev |-> [r.ev EXCEPT !.value = v], torn |-> FALSE]

\* ReadAOF: the records a reader may get from the log.  It stops at a torn
\* record, unless other records were written behind it: then it may misread it.
Readings(lg) ==
    LET torn == {i \in DOMAIN lg : lg[i].torn}
        cut == Min(torn)
        good == SubSeq(lg, 1, cut - 1)
    IN  IF torn = {} THEN {lg}
        ELSE {good} \cup
             IF cut < Len(lg) /\ lg[cut].ev.op = "set"
             THEN {Append(good, Misread(lg[cut], v)) : v \in Value}
             ELSE {}

\* The records newer than a boundary, and their events.
After(lg, n) == SelectSeq(lg, LAMBDA r : r.seq > n)

Newer(lg, n) == LET q == After(lg, n) IN [i \in DOMAIN q |-> q[i].ev]

\* Manager.Recover: the contents after a restart, given what was read.
Recovered(sn, lg) == Replay(Newer(lg, sn.startSeq), sn.entries)

\* The logs a crash may leave.
Survivors ==
    LET kept(i) == SubSeq(log, 1, i)
    IN  {kept(i) : i \in durable..Len(log)} \cup
        {Append(kept(i), Torn(log[i + 1])) :
             i \in {j \in durable..(Len(log) - 1) : CanTear}}

\* Faulty: records are put in front of the ones in the buffer.
AppendRecordFirst ==
    /\ Fan
    /\ log' = <<[seq |-> fanned', ev |-> Head(events), torn |-> FALSE]>> \o log
    /\ durable' = durable
    /\ past' = Append(past, applied')
    /\ UNCHANGED <<snap, snapVars, crashes>>

\* dispatch with the manager as a subscriber: AOF.Append.
AppendRecord ==
    /\ Fan
    /\ log' = Append(log, [seq |-> fanned', ev |-> Head(events), torn |-> FALSE])
    /\ durable' = IF SyncAlways THEN Len(log') ELSE durable
    /\ past' = IF SyncAlways THEN <<applied'>> ELSE Append(past, applied')
    /\ UNCHANGED <<snap, snapVars, crashes>>

\* AOF.everySec and AOF.Sync.
FsyncLog ==
    /\ durable < Len(log)
    /\ durable' = Len(log)
    /\ past' = <<applied>>
    /\ UNCHANGED <<vars, log, snap, snapVars, crashes>>
-----------------------------------------------------------------------------
(* Manager.Snapshot.                                                        *)

SnapshotBegin ==
    /\ snapper = "idle"
    /\ snapshots < MaxSnapshots
    /\ SyncCall(Snapper)
    /\ snapper' = "sync"
    /\ snapshots' = snapshots + 1
    /\ UNCHANGED <<fileVars, draft, past, crashes>>

\* WriteSnapshot reads Seq() once Sync has returned.
SnapshotSeq ==
    /\ snapper = "sync"
    /\ sync[Snapper] = "idle"
    /\ snapper' = "clock"
    /\ draft' = [NoDraft EXCEPT !.startSeq = seq]
    /\ UNCHANGED <<vars, fileVars, snapshots, past, crashes>>

\* Export reads the clock once, before it visits the shards.
SnapshotClock ==
    /\ snapper = "clock"
    /\ snapper' = "export"
    /\ draft' = [draft EXCEPT !.now = now]
    /\ UNCHANGED <<vars, fileVars, snapshots, past, crashes>>

\* Export: one shard, under its mutex, without the expired entries.
ExportShard ==
    /\ snapper = "export"
    /\ pending[draft.next] = <<>>
    /\ draft' = [draft EXCEPT
                    !.next = IF @ = NumShards THEN 1 ELSE @ + 1,
                    !.entries = [k \in Key |->
                        IF k \in KeysOf(draft.next)
                           /\ ~Expired(items[k], draft.now)
                        THEN items[k] ELSE @[k]]]
    /\ snapper' = IF draft.next = NumShards THEN "rename" ELSE "export"
    /\ UNCHANGED <<vars, fileVars, snapshots, past, crashes>>

\* Faulty: the boundary is read when the export is done.
SnapshotRenameLate ==
    /\ snapper = "rename"
    /\ snap' = [startSeq |-> seq, entries |-> draft.entries]
    /\ snapper' = "compact"
    /\ UNCHANGED <<vars, log, durable, draft, snapshots, past, crashes>>

\* WriteSnapshot: fsync the file and rename it over the last snapshot.
SnapshotRename ==
    /\ snapper = "rename"
    /\ snap' = [startSeq |-> draft.startSeq, entries |-> draft.entries]
    /\ snapper' = "compact"
    /\ UNCHANGED <<vars, log, durable, draft, snapshots, past, crashes>>

\* Faulty: the log is truncated.
CompactTruncates ==
    /\ snapper = "compact"
    /\ log' = <<>>
    /\ durable' = 0
    /\ past' = <<applied>>
    /\ snapper' = "idle"
    /\ draft' = NoDraft
    /\ UNCHANGED <<vars, snap, snapshots, crashes>>

\* AOF.Compact: flush and fsync, copy the records newer than the boundary to
\* a new file, rename it over the log.
Compact ==
    /\ snapper = "compact"
    /\ \E lg \in Readings(log) : log' = After(lg, draft.startSeq)
    /\ durable' = Len(log')
    /\ past' = <<applied>>
    /\ snapper' = "idle"
    /\ draft' = NoDraft
    /\ UNCHANGED <<vars, snap, snapshots, crashes>>
-----------------------------------------------------------------------------
(* The process dies, and starts again with what the disk has: Recover into  *)
(* a new cache, whose event numbers begin at 0, and open the log to append. *)
Restart ==
    /\ crashes < MaxCrashes
    /\ crashes' = crashes + 1
    /\ \E lg \in Survivors : \E read \in Readings(lg) :
          /\ log' = lg
          /\ items' = Recovered(snap, read)
    /\ durable' = Len(log')
    /\ applied' = items'
    /\ past' = <<items'>>
    /\ pending' = [s \in Shard |-> <<>>]
    /\ events' = <<>>
    /\ fanned' = 0
    /\ seq' = 0
    /\ sync' = [y \in Syncer |-> "idle"]
    /\ mark' = [y \in Syncer |-> 0]
    /\ flushAt' = 1
    /\ snapper' = "idle"
    /\ draft' = NoDraft
    /\ UNCHANGED <<now, closeVars, syncs, flushes, ops, snap, snapshots>>
-----------------------------------------------------------------------------
\* The steps of the cache that the manager takes no part in.
CacheOnly ==
    /\ \/ Client
       \/ \E s \in Shard : Sender(s)
       \/ StoreSeq \/ FanAck
       \/ \E y \in Syncer \ {Snapper} : SyncCall(y)
       \/ \E y \in Syncer : SyncStep(y)
       \/ Tick
       \/ Quiescent /\ snapper = "idle" /\ UNCHANGED vars
    /\ UNCHANGED persistVars

SnapshotStep ==
    SnapshotSeq \/ SnapshotClock \/ ExportShard \/ SnapshotRename \/ Compact

PNext == CacheOnly \/ AppendRecord \/ FsyncLog \/ SnapshotBegin
            \/ SnapshotStep \/ Restart

PSpec == PInit /\ [][PNext]_allVars
-----------------------------------------------------------------------------
\* The slot as a reader sees it now.
Live(e) == IF Expired(e, now) THEN NoEntry ELSE e

(* The files and the stream together have everything: at every moment, also *)
(* in the middle of a snapshot or between its rename and the compaction,    *)
(* the snapshot with the newer records and the events still on their way    *)
(* give the live contents of the cache.  (WriteSnapshot, Compact, Recover.) *)
RecoveryComplete ==
    \A s \in Shard :
        LET full == Replay(Newer(log, snap.startSeq) \o events \o pending[s],
                           snap.entries)
        IN  \A k \in KeysOf(s) : Live(full[k]) = Live(items[k])

\* What the files say can be told apart by the numbers in them: a restart
\* begins again at 0, so the snapshot and the log are of one life, and appends
\* behind a torn record, so there is none in the middle of the log.
OneLife ==
    crashes > 0 => snapshots = 0 /\ \A i \in DOMAIN log : ~log[i].torn

(* RecoveryComplete for a log that crashes have cut and restarts have gone  *)
(* on with, until a snapshot meets numbers of an earlier life.  It holds    *)
(* for operations that use the clock as soon as they have read it           *)
(* (MaxDelay = 0): one that was held up may keep, with PERSIST, a key that  *)
(* the export has left out as expired.                                      *)
RecoveryCompleteOnce == OneLife => RecoveryComplete

\* The contents a restart may get if the process dies now.
Restored ==
    UNION {{Recovered(snap, read) : read \in Readings(lg)} : lg \in Survivors}

(* A crash loses a suffix of the history at most: whatever the disk keeps,  *)
(* torn record included, a restart from the log alone gets contents the     *)
(* cache had after some event that is no older than the last one fsynced.   *)
(* (AOF.Append, everySec, ReadAOF.)                                         *)
RecoversPrefix ==
    OneLife /\ snapshots = 0 =>
        \A r \in Restored :
            \E st \in Range(past) : \A k \in Key : Live(r[k]) = Live(st[k])

\* The slots key k has had since the last durable event, the ones no
\* subscriber has seen yet included.
Recent(k) ==
    LET q == events \o pending[ShardOf[k]]
    IN  {st[k] : st \in Range(past)} \cup
        {Replay(SubSeq(q, 1, i), applied)[k] : i \in 0..Len(q)}

(* The same key by key, which is what a snapshot taken while writes go on   *)
(* leaves of it.  A key that comes back has a value and a deadline it had   *)
(* since the last fsync, and one that does not was gone or expired at some  *)
(* moment since: nothing older.  The two need not be of one moment, because *)
(* an EXPIRE or PERSIST of an older value may be replayed over the newer    *)
(* one that the snapshot has.  (Export, Compact, Recover.)                  *)
RecoversSlot ==
    OneLife =>
        LET restored == Restored
        IN  \A k \in Key :
                LET recent == Recent(k)
                IN  \A e \in {Live(r[k]) : r \in restored} :
                        IF e = NoEntry
                        THEN \E x \in recent : Live(x) = NoEntry
                        ELSE \E x, y \in recent \ {NoEntry} :
                                e.value = x.value /\ e.expireAt = y.expireAt
=============================================================================
