----------------------------- MODULE Follower ------------------------------
(***************************************************************************)
(* What the event stream promises a subscriber, one key at a time and      *)
(* without shards, channels or events: the subscriber's copy of a key goes *)
(* through every state the key goes through, in the same order, some time  *)
(* later.  lag[k] holds the states of k the copy has yet to go through; a  *)
(* write may leave a key as it is, and still counts as a state.            *)
(***************************************************************************)
EXTENDS Sequences, FiniteSets

CONSTANTS Key, Slot, NoEntry

VARIABLES store, copy, lag

followerVars == <<store, copy, lag>>

Contents == [Key -> Slot \cup {NoEntry}]

Start ==
    /\ store = [k \in Key |-> NoEntry]
    /\ copy = store
    /\ lag = [k \in Key |-> <<>>]

\* Some keys change together: a write and the evictions it causes, a sweep,
\* a flush.
Change ==
    /\ store' \in Contents
    /\ lag' \in [Key -> Seq(Slot \cup {NoEntry})]
    /\ \A k \in Key :
          \/ lag'[k] = Append(lag[k], store'[k])
          \/ lag'[k] = lag[k] /\ store'[k] = store[k]
    /\ copy' = copy

\* The copy takes the next step of some keys.
Advance ==
    /\ copy' \in Contents
    /\ lag' \in [Key -> Seq(Slot \cup {NoEntry})]
    /\ \A k \in Key :
          \/ lag[k] # <<>> /\ copy'[k] = Head(lag[k]) /\ lag'[k] = Tail(lag[k])
          \/ lag'[k] = lag[k] /\ copy'[k] = copy[k]
    /\ store' = store

FollowerSpec == Start /\ [][Change \/ Advance]_followerVars
=============================================================================
