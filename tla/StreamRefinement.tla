-------------------------- MODULE StreamRefinement -------------------------
(***************************************************************************)
(* The event stream implements Follower: the copy is the subscriber's      *)
(* contents, and a key's lag is what the events that touch it and are      *)
(* still on their way, in the channel and behind its shard's mutex, will   *)
(* make of the copy one after the other.                                   *)
(***************************************************************************)
EXTENDS EventStream

Touches(ev, k) ==
    ev.op = "flush" \/ (ev.op \in {"set", "del", "expire"} /\ ev.key = k)

\* The states key k still has to go through at the subscriber.
Lag(k) ==
    LET q == SelectSeq(events \o pending[ShardOf[k]],
                       LAMBDA ev : Touches(ev, k))
    IN  [i \in 1..Len(q) |-> Replay(SubSeq(q, 1, i), applied)[k]]

F == INSTANCE Follower
        WITH Slot <- Entry, store <- items, copy <- applied,
             lag <- [k \in Key |-> Lag(k)]

(* The stream keeps the promise of Follower: with any number of shards,     *)
(* writers blocked on the full channel and sweeps in between, a subscriber  *)
(* takes every key through exactly the states it went through, in order and *)
(* without a mixture of two of them.  Holds as long as no FlushAll is split *)
(* over several shards.  (cache.go emit, dispatch, ApplyEvent.)             *)
ImplementsFollower == F!FollowerSpec
=============================================================================
