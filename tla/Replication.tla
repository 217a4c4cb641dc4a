---------------------------- MODULE Replication ----------------------------
(***************************************************************************)
(* Primary and replica of internal/replication, on top of the event stream *)
(* of the primary's cache.                                                 *)
(*                                                                         *)
(* The primary serves every connection with a goroutine (handle): it reads *)
(* the magic, registers a queue that onEvent fills from the dispatcher,    *)
(* sends a snapshot taken while writes go on, and then streams the queue.  *)
(* A queue that is full makes the handler give up the connection.  The     *)
(* replica applies what it reads to a cache of its own, and connects again *)
(* when a connection ends.                                                 *)
(*                                                                         *)
(* A connection is a FIFO of frames.  When it is no longer open, whoever   *)
(* ended it, the replica still reads some of the frames under way, and the *)
(* others are lost in the primary's write buffer or in the network.        *)
(*                                                                         *)
(* The replica's cache drops entries that expire on its own clock.  The    *)
(* counters for INFO (lastSent, lastAck, connected) are left out: nothing  *)
(* reads them back.                                                        *)
(***************************************************************************)
EXTENDS EventStream

CONSTANTS
    Conn,           \* the connections the primary serves at a time; the
                    \* handler of c is the goroutine c that calls Sync
    ReplBuffer,     \* capacity of the queue of a replica
    MaxBreaks       \* bound: connections broken by the network

ASSUME ConnAssumption == Conn \subseteq Syncer
ASSUME ReplicationBounds ==
    ReplBuffer \in Nat \ {0} /\ MaxBreaks \in Nat

VARIABLES
    conn,       \* per connection: the handler, its queue, the frames sent
    rep,        \* the replica
    past,       \* history: the contents after each event handed out
    breaks      \* so far, for the bound

replVars == <<conn, rep, past, breaks>>
rVars == <<vars, replVars>>

\* A connection, and what handle does next for it: nothing ("none"), read the
\* magic, wait for Sync, export, stream; or it has returned.
NoConn == [pc |-> "none", open |-> FALSE, startSeq |-> 0, ch |-> <<>>,
           failed |-> FALSE, clock |-> 0, next |-> 1, wire |-> <<>>]

Registered(c) == conn[c].pc \in {"sync", "export", "stream"}

RInit ==
    /\ Init
    /\ conn = [c \in Conn |-> NoConn]
    /\ rep = [pc |-> "down", conn |-> CHOOSE c \in Conn : TRUE,
              synced |-> FALSE, lastApplied |-> 0, store |-> EmptyStore,
              lost |-> {}]
    /\ past = <<EmptyStore>>
    /\ breaks = 0
-----------------------------------------------------------------------------
(* The primary.                                                             *)

\* The frames on connection c after the handler has written more.
Written(c, fs) == IF conn[c].open THEN conn[c].wire \o fs ELSE conn[c].wire

\* onEvent, for one replica.
Offer(rc, f) ==
    IF Len(rc.ch) < ReplBuffer THEN [rc EXCEPT !.ch = Append(@, f)]
    ELSE [rc EXCEPT !.failed = TRUE]

\* dispatch with the primary as a subscriber.
FanOut ==
    /\ Fan
    /\ conn' = [c \in Conn |->
                   IF Registered(c)
                   THEN Offer(conn[c], [seq |-> fanned', ev |-> Head(events)])
                   ELSE conn[c]]
    /\ past' = Append(past, applied')
    /\ UNCHANGED <<rep, breaks>>

\* handle returns: the queue is unregistered, the connection closed.
Return(c) ==
    conn' = [conn EXCEPT ![c] =
                IF rep.pc # "down" /\ rep.conn = c
                THEN [@ EXCEPT !.pc = "returned", !.open = FALSE, !.ch = <<>>,
                               !.clock = 0, !.next = 1]
                ELSE NoConn]

\* handle: the magic has arrived; register, and call Sync.
Register(c) ==
    /\ conn[c].pc = "magic"
    /\ conn[c].open
    /\ SyncCall(c)
    /\ conn' = [conn EXCEPT ![c].pc = "sync"]
    /\ UNCHANGED <<rep, past, breaks>>

\* handle: the peer is gone before the magic.
NoMagic(c) ==
    /\ conn[c].pc = "magic"
    /\ ~conn[c].open
    /\ Return(c)
    /\ UNCHANGED <<vars, rep, past, breaks>>

\* sendSnapshot: read the boundary, write the flush.
SnapshotStart(c) ==
    /\ conn[c].pc = "sync"
    /\ sync[c] = "idle"
    /\ conn' = [conn EXCEPT
          ![c].pc = "export",
          ![c].startSeq = seq,
          ![c].wire = Written(c, <<[seq |-> 0, ev |-> [op |-> "flush"]]>>)]
    /\ UNCHANGED <<vars, rep, past, breaks>>

\* Export: one shard, without the entries expired at time t.
Exported(s, t) ==
    LET live == {k \in KeysOf(s) : items[k] # NoEntry /\ ~Expired(items[k], t)}
        q == CHOOSE order \in SetToSeqs(live) : TRUE
    IN  [i \in 1..Len(q) |->
            [seq |-> 0,
             ev |-> SetEvent(q[i], items[q[i]].value, items[q[i]].expireAt)]]

\* sendSnapshot: write the entries of the next shard.  Export reads the clock
\* once, before it locks the first shard.
SnapshotShard(c) ==
    /\ conn[c].pc = "export"
    /\ conn[c].next <= NumShards
    /\ pending[conn[c].next] = <<>>
    /\ \E t \in IF conn[c].next = 1 THEN Clock ELSE {conn[c].clock} :
          conn' = [conn EXCEPT
             ![c].clock = t,
             ![c].next = @ + 1,
             ![c].wire = Written(c, Exported(conn[c].next, t))]
    /\ UNCHANGED <<vars, rep, past, breaks>>

\* Faulty: the boundary is read when the export is done.
SnapshotEndLate(c) ==
    /\ conn[c].pc = "export"
    /\ conn[c].next > NumShards
    /\ conn' = [conn EXCEPT
          ![c].pc = "stream", ![c].clock = 0, ![c].next = 1,
          ![c].startSeq = seq,
          ![c].wire = Written(c, <<[seq |-> seq, ev |-> [op |-> "synced"]]>>)]
    /\ UNCHANGED <<vars, rep, past, breaks>>

\* sendSnapshot: write the synced frame and flush.
SnapshotEnd(c) ==
    /\ conn[c].pc = "export"
    /\ conn[c].next > NumShards
    /\ conn' = [conn EXCEPT
          ![c].pc = "stream", ![c].clock = 0, ![c].next = 1,
          ![c].wire = Written(c, <<[seq |-> conn[c].startSeq,
                                    ev |-> [op |-> "synced"]]>>)]
    /\ UNCHANGED <<vars, rep, past, breaks>>

\* sendSnapshot: a write fails.
SnapshotFails(c) ==
    /\ conn[c].pc = "export"
    /\ ~conn[c].open
    /\ Return(c)
    /\ UNCHANGED <<vars, rep, past, breaks>>

\* stream: take an event off the queue; the snapshot has it, or it is sent.
StreamEvent(c) ==
    /\ conn[c].pc = "stream"
    /\ conn[c].ch # <<>>
    /\ LET f == Head(conn[c].ch)
       IN  conn' = [conn EXCEPT
              ![c].ch = Tail(@),
              ![c].wire = IF f.seq <= conn[c].startSeq THEN @
                          ELSE Written(c, <<f>>)]
    /\ UNCHANGED <<vars, rep, past, breaks>>

\* stream: quit or done is closed (by onEvent, by Close, or by readAcks when
\* the connection ends), or a write fails.
StreamReturns(c) ==
    /\ conn[c].pc = "stream"
    /\ conn[c].failed \/ ~conn[c].open
    /\ Return(c)
    /\ UNCHANGED <<vars, rep, past, breaks>>
-----------------------------------------------------------------------------
(* The replica.                                                             *)

\* replicate: dial and send the magic.
Dial(c) ==
    /\ rep.pc = "down"
    /\ conn[c].pc = "none"
    /\ conn' = [conn EXCEPT ![c] = [NoConn EXCEPT !.pc = "magic", !.open = TRUE]]
    /\ rep' = [rep EXCEPT !.pc = "up", !.conn = c]
    /\ UNCHANGED <<vars, past, breaks>>

\* replicate: read a frame and apply it.
Receive ==
    LET c == rep.conn
        f == Head(conn[c].wire)
        told == CASE f.ev.op \in {"set", "del"} -> {f.ev.key}
                  [] f.ev.op = "flush" -> Key
                  [] OTHER -> {}
    IN  /\ rep.pc = "up"
        /\ conn[c].wire # <<>>
        /\ conn' = [conn EXCEPT ![c].wire = Tail(@)]
        /\ rep' = [rep EXCEPT
              !.store = Apply(f.ev, @),
              !.lost = @ \ told,
              !.lastApplied = IF f.seq > 0 \/ f.ev.op = "synced" THEN f.seq
                              ELSE @,
              !.synced = @ \/ f.ev.op = "synced"]
        /\ UNCHANGED <<vars, past, breaks>>

\* replicate: a read fails.  The deferred Wait for ackLoop comes first, with
\* synced still as it was.
ReadFails ==
    /\ rep.pc = "up"
    /\ ~conn[rep.conn].open
    /\ rep' = [rep EXCEPT !.pc = "ack"]
    /\ conn' = [conn EXCEPT ![rep.conn].wire = <<>>]
    /\ UNCHANGED <<vars, past, breaks>>

\* Faulty: ackLoop does not look at the error of a write.
AckFailsIgnored == FALSE /\ UNCHANGED rVars

\* ackLoop: an ack cannot be written any more; replicate returns and run
\* clears synced.
AckFails ==
    /\ rep.pc = "ack"
    /\ rep' = [rep EXCEPT !.pc = "down", !.synced = FALSE, !.lost = {}]
    /\ conn' = [conn EXCEPT ![rep.conn] =
                   IF @.pc = "returned" THEN NoConn ELSE @]
    /\ UNCHANGED <<vars, past, breaks>>

\* The replica's own Get or sweep drops an entry that has expired.
OwnExpiry(k) ==
    /\ Expired(rep.store[k], now)
    /\ rep' = [rep EXCEPT !.store = Without(@, {k}), !.lost = @ \cup {k}]
    /\ UNCHANGED <<vars, conn, past, breaks>>
-----------------------------------------------------------------------------
(* The network.                                                             *)

Break(c) ==
    /\ breaks < MaxBreaks
    /\ breaks' = breaks + 1
    /\ conn[c].open
    /\ conn' = [conn EXCEPT ![c].open = FALSE]
    /\ UNCHANGED <<vars, rep, past>>
-----------------------------------------------------------------------------
\* The steps of the primary's cache that replication takes no part in.
CacheOnly ==
    /\ \/ Client
       \/ \E s \in Shard : Sender(s)
       \/ StoreSeq \/ FanAck
       \/ \E y \in Syncer : SyncStep(y)
       \/ Tick
    /\ UNCHANGED replVars

Handler(c) ==
    Register(c) \/ NoMagic(c) \/ SnapshotStart(c) \/ SnapshotShard(c)
        \/ SnapshotEnd(c) \/ SnapshotFails(c) \/ StreamEvent(c)
        \/ StreamReturns(c)

ReplicaStep == (\E c \in Conn : Dial(c)) \/ Receive \/ ReadFails \/ AckFails

\* The replica has the contents of the primary, except for what it dropped on
\* its own clock.
InStep ==
    /\ rep.synced
    /\ \A k \in Key \ rep.lost :
          \/ rep.store[k] = items[k]
          \/ Expired(items[k], now) /\ rep.store[k] = NoEntry

Rest ==
    /\ Quiescent
    /\ InStep
    /\ UNCHANGED rVars

RNext ==
    \/ CacheOnly \/ FanOut
    \/ \E c \in Conn : Handler(c) \/ Break(c)
    \/ ReplicaStep
    \/ \E k \in Key : OwnExpiry(k)
    \/ Rest

RSpec == RInit /\ [][RNext]_rVars

\* As in EventStream; handlers and the replica go on.
RFairSpec ==
    /\ RSpec
    /\ WF_rVars(FanOut \/ ((StoreSeq \/ FanAck) /\ UNCHANGED replVars))
    /\ \A s \in Shard : WF_rVars(Sender(s) /\ UNCHANGED replVars)
    /\ \A c \in Conn :
          /\ WF_rVars(SyncStep(c) /\ UNCHANGED replVars)
          /\ WF_rVars(Handler(c))
    /\ WF_rVars(ReplicaStep)
-----------------------------------------------------------------------------
\* What a reader is shown of a slot.
Shown(e) == IF e = NoEntry THEN NoEntry ELSE e.value

\* What readers were shown of key k after event n and later, the events no
\* subscriber has seen yet included.
ShownSince(k, n) ==
    LET q == events \o pending[ShardOf[k]]
        slots == {past[i][k] : i \in (n + 1)..Len(past)}
                    \cup {Replay(SubSeq(q, 1, i), applied)[k] : i \in 0..Len(q)}
    IN  {Shown(e) : e \in slots}
            \cup {NoEntry : e \in {x \in slots : Expired(x, now)}}

(* A synced replica never shows a value older than the event number it      *)
(* reports as applied, although its snapshot was exported shard by shard    *)
(* while writes went on and is then overtaken by the queued events: every   *)
(* key it holds is as the primary had it at that event or later.  Once the  *)
(* queue has overflowed this ends: stream may still send what lies behind   *)
(* the gap before it returns.  (primary.go sendSnapshot, stream; replica.go *)
(* replicate.)                                                              *)
ReplicaReflects ==
    rep.pc = "up" /\ rep.synced /\ ~conn[rep.conn].failed =>
        \A k \in Key \ rep.lost :
            Shown(rep.store[k]) \in ShownSince(k, rep.lastApplied)

(* Whatever breaks, and however often a queue overflows, the replica ends   *)
(* up with the primary's entries, deadlines included, except for those it   *)
(* dropped on its own clock.  (replica.go run; primary.go onEvent, stream.) *)
ReplicaCatchesUp ==
    <>[]InStep
=============================================================================
