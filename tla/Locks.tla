------------------------------- MODULE Locks -------------------------------
(***************************************************************************)
(* The lease locks of internal/locks and the commands LOCK, UNLOCK and     *)
(* RENEWLOCK of internal/server.                                           *)
(*                                                                         *)
(* A call reads the clock first and takes the mutex of the Manager later,  *)
(* so it may work with a clock that is behind: a call is two actions here. *)
(* Tokens are 128 random bits, modelled as numbers that do not repeat.     *)
(***************************************************************************)
EXTENDS Integers, FiniteSets

CONSTANTS
    Client,
    Owner,
    OwnerOf,        \* the owner a client names, its address by default
    Key,
    TTL,            \* lease times
    Wait,           \* how long AcquireBlocking tries
    MaxTokens,      \* bound: leases granted
    MaxTime         \* bound: the clock

ASSUME LockParameters ==
    /\ OwnerOf \in [Client -> Owner]
    /\ TTL \subseteq Nat \ {0}
    /\ Wait \subseteq Nat
    /\ MaxTokens \in Nat /\ MaxTime \in Nat

VARIABLES
    now,        \* the clock
    locks,      \* Manager.locks: the set of leases, at most one of a key
    minted,     \* the tokens handed out are those below
    call,       \* what each client is doing
    held        \* history: leases that an owner was granted and has neither
                \* given up nor seen refused

vars == <<now, locks, minted, call, held>>

Lease == [key : Key, owner : Owner, token : Nat, expireAt : Nat]

NoCall == [op |-> "none"]

Call ==
    {NoCall}
      \cup [op : {"acquire"}, key : Key, ttl : TTL, t : Nat]
      \cup [op : {"release"}, key : Key, token : Nat]
      \cup [op : {"renew"}, key : Key, token : Nat, ttl : TTL, t : Nat]
      \cup [op : {"block", "check"}, key : Key, ttl : TTL, t : Nat, deadline : Nat]

Init ==
    /\ now = 0
    /\ locks = {}
    /\ minted = 0
    /\ call = [c \in Client |-> NoCall]
    /\ held = {}

LeasesOf(k) == {l \in locks : l.key = k}
-----------------------------------------------------------------------------
\* The bound: every acquisition under way can still be granted.
CanAcquire ==
    minted + Cardinality({d \in Client : call[d].op \in {"acquire", "block", "check"}})
      < MaxTokens

\* A client calls the Manager, which reads the clock.
Begin(c) ==
    /\ call[c] = NoCall
    /\ \E k \in Key :
          \/ \E ttl \in TTL :
             /\ CanAcquire
             /\ call' = [call EXCEPT ![c] =
                            [op |-> "acquire", key |-> k, ttl |-> ttl, t |-> now]]
          \/ \E token \in 0..(minted - 1) :
                call' = [call EXCEPT ![c] =
                            [op |-> "release", key |-> k, token |-> token]]
          \/ \E token \in 0..(minted - 1), ttl \in TTL :
                call' = [call EXCEPT ![c] =
                            [op |-> "renew", key |-> k, token |-> token,
                             ttl |-> ttl, t |-> now]]
          \/ \E ttl \in TTL, wait \in Wait :
             /\ CanAcquire
             /\ now + wait < MaxTime
             /\ call' = [call EXCEPT ![c] =
                            [op |-> "block", key |-> k, ttl |-> ttl, t |-> now,
                             deadline |-> now + wait]]
    /\ UNCHANGED <<now, locks, minted, held>>

\* Faulty: the ttl is taken from the clock.
ExpiryBack(c) == call[c].t - call[c].ttl

Expiry(c) == call[c].t + call[c].ttl

Return(c) == call' = [call EXCEPT ![c] = NoCall]

\* Faulty: a lease ends a tick early for those who want it.
BlockedEarly(c) ==
    \E l \in LeasesOf(call[c].key) :
        call[c].t + 1 < l.expireAt /\ l.owner # OwnerOf[c]

\* A lease that is not over keeps other owners out.
Blocked(c) ==
    \E l \in LeasesOf(call[c].key) :
        call[c].t < l.expireAt /\ l.owner # OwnerOf[c]

\* The lease goes to c, and replaces one that its owner had before.
Grant(c) ==
    LET lease == [key |-> call[c].key, owner |-> OwnerOf[c], token |-> minted,
                  expireAt |-> Expiry(c)]
    IN  /\ locks' = (locks \ LeasesOf(call[c].key)) \cup {lease}
        /\ held' = {h \in held : h.key # lease.key \/ h.owner # lease.owner}
                     \cup {lease}
        /\ minted' = minted + 1
        /\ Return(c)
        /\ UNCHANGED now

Acquire(c) ==
    /\ call[c].op = "acquire"
    /\ IF Blocked(c) THEN Return(c) /\ UNCHANGED <<now, locks, minted, held>>
       ELSE Grant(c)

\* Faulty: the token is not compared.
ReleaseAny(c) ==
    /\ call[c].op = "release"
    /\ locks' = locks \ LeasesOf(call[c].key)
    /\ held' = {h \in held : h.key # call[c].key \/ h.token # call[c].token}
    /\ Return(c)
    /\ UNCHANGED <<now, minted>>

\* Only the token decides: a lease that is over can still be released.
Release(c) ==
    /\ call[c].op = "release"
    /\ locks' = {l \in locks : l.key # call[c].key \/ l.token # call[c].token}
    /\ held' = {h \in held : h.key # call[c].key \/ h.token # call[c].token}
    /\ Return(c)
    /\ UNCHANGED <<now, minted>>

\* Faulty: the ttl is added to what is left of the lease.
RenewAdds(c) ==
    LET named(l) == l.key = call[c].key /\ l.token = call[c].token
        renewed(l) == [l EXCEPT !.expireAt = @ + call[c].ttl]
        found == {l \in locks : named(l) /\ call[c].t < l.expireAt}
    IN  /\ call[c].op = "renew"
        /\ locks' = (locks \ found) \cup {renewed(l) : l \in found}
        /\ held' = {h \in held : ~named(h)} \cup {renewed(l) : l \in found}
        /\ Return(c)
        /\ UNCHANGED <<now, minted>>

\* Renewing fails without a lease, with another token, and once the lease is
\* over; the owner of the token then knows that it holds the lock no longer.
Renew(c) ==
    LET named(l) == l.key = call[c].key /\ l.token = call[c].token
        renewed(l) == [l EXCEPT !.expireAt = Expiry(c)]
        found == {l \in locks : named(l) /\ call[c].t < l.expireAt}
    IN  /\ call[c].op = "renew"
        /\ locks' = (locks \ found) \cup {renewed(l) : l \in found}
        /\ held' = {h \in held : ~named(h)} \cup {renewed(l) : l \in found}
        /\ Return(c)
        /\ UNCHANGED <<now, minted>>
-----------------------------------------------------------------------------
(* AcquireBlocking: Acquire until it succeeds or the time to wait is over.  *)

Try(c) ==
    /\ call[c].op = "block"
    /\ IF Blocked(c)
       THEN /\ call' = [call EXCEPT ![c].op = "check"]
            /\ UNCHANGED <<now, locks, minted, held>>
       ELSE Grant(c)

\* Faulty: it never gives up.
RetryForever(c) ==
    /\ call[c].op = "check"
    /\ call' = [call EXCEPT ![c].op = "block", ![c].t = now]
    /\ UNCHANGED <<now, locks, minted, held>>

Retry(c) ==
    /\ call[c].op = "check"
    /\ IF now > call[c].deadline THEN Return(c)
       ELSE call' = [call EXCEPT ![c].op = "block", ![c].t = now]
    /\ UNCHANGED <<now, locks, minted, held>>

Tick ==
    /\ now < MaxTime
    /\ now' = now + 1
    /\ UNCHANGED <<locks, minted, call, held>>

Step(c) == Acquire(c) \/ Release(c) \/ Renew(c) \/ Try(c) \/ Retry(c)

Next == Tick \/ \E c \in Client : Begin(c) \/ Step(c)

Spec == Init /\ [][Next]_vars

(* The goroutine of a call keeps running, and time passes.                  *)
FairSpec == Spec /\ WF_vars(Tick) /\ \A c \in Client : WF_vars(Step(c))
-----------------------------------------------------------------------------
TypeOK ==
    /\ now \in Nat
    /\ locks \subseteq Lease
    /\ minted \in Nat
    /\ call \in [Client -> Call]
    /\ held \subseteq Lease

(* Two owners never hold the same lock at the same time, each with a lease  *)
(* that it was granted, has not released and that is not over: whatever     *)
(* calls with an old clock, late renewals and releases with old tokens were *)
(* under way.                                                               *)
MutualExclusion ==
    \A g, h \in held :
        g.key = h.key /\ now < g.expireAt /\ now < h.expireAt => g.owner = h.owner

(* What its owner believes of a lease is what the Manager has, until the    *)
(* lease is over: no other call takes it away or shortens it.               *)
LeaseKept == \A h \in held : now < h.expireAt => h \in locks

(* AcquireBlocking returns, if only because the time to wait is over.       *)
BlockingReturns ==
    \A c \in Client : call[c].op \in {"block", "check"} ~> call[c] = NoCall
=============================================================================
