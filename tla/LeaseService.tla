---------------------------- MODULE LeaseService ---------------------------
(***************************************************************************)
(* What the lock manager promises, as one step per operation on the clock  *)
(* everybody shares: a key is leased to one owner at a time, another owner *)
(* gets it when the lease is over, a lease carries a token that no other   *)
(* ever had, and no lease runs longer from now than the time asked for.    *)
(***************************************************************************)
EXTENDS Naturals

CONSTANTS Key, Owner, TTL

VARIABLES now, leases, tokens

serviceVars == <<now, leases, tokens>>

Start == now = 0 /\ leases = {} /\ tokens = 0

\* A lease made or prolonged now.
InTime(l) == \E ttl \in TTL : l.expireAt <= now + ttl

Take(k, o) ==
    /\ \A l \in leases : l.key = k /\ l.owner # o => l.expireAt <= now
    /\ \E l \in leases' :
          /\ l.key = k /\ l.owner = o /\ l.token = tokens
          /\ InTime(l)
          /\ leases' = {m \in leases : m.key # k} \cup {l}
    /\ tokens' = tokens + 1
    /\ now' = now

Extend(l) ==
    /\ \E m \in leases' :
          /\ m.key = l.key /\ m.owner = l.owner /\ m.token = l.token
          /\ InTime(m)
          /\ leases' = (leases \ {l}) \cup {m}
    /\ UNCHANGED <<now, tokens>>

GiveUp(l) ==
    /\ leases' = leases \ {l}
    /\ UNCHANGED <<now, tokens>>

Pass ==
    /\ now' = now + 1
    /\ UNCHANGED <<leases, tokens>>

Serve ==
    \/ \E k \in Key, o \in Owner : Take(k, o)
    \/ \E l \in leases : Extend(l) \/ GiveUp(l)
    \/ Pass

ServiceSpec == Start /\ [][Serve]_serviceVars
=============================================================================
