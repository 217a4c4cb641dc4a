---------------------------- MODULE LocksProofs ----------------------------
(***************************************************************************)
(* Mutual exclusion of the lease locks, for any number of clients, owners, *)
(* keys, lease times and calls under way.                                  *)
(*                                                                         *)
(* That no two owners hold a lock follows from LeaseKept: a lease that is  *)
(* not over is the lease of the Manager, which has one of each key.        *)
(* LeaseKept is kept because tokens are new (a release or renewal with an  *)
(* old token finds no lease) and because the clock of a call is never      *)
(* ahead (Acquire may take a lease for live that is over, never the        *)
(* reverse).                                                               *)
(***************************************************************************)
EXTENDS LocksRefinement, TLAPS

\* Manager.locks is a map: a key has one lease.
OneLease == \A l, m \in locks : l.key = m.key => l = m

\* Every token in use has been handed out.
TokensMinted == \A l \in locks \cup held : l.token < minted

\* The clock of a call is not ahead.
ClockBehind ==
    \A c \in Client :
        call[c].op \in {"acquire", "renew", "block", "check"} => call[c].t <= now

\* A token belongs to one lease.
TokenBinds ==
    \A l \in locks, h \in held : l.key = h.key /\ l.token = h.token => l = h

Inv ==
    TypeOK /\ OneLease /\ TokensMinted /\ ClockBehind /\ LeaseKept /\ TokenBinds

(* The arguments of a call have their types.                                *)
LEMMA CallArguments ==
    ASSUME TypeOK, NEW c \in Client
    PROVE  /\ call[c] \in Call
           /\ call[c].op = "release" => call[c].key \in Key /\ call[c].token \in Nat
           /\ call[c].op = "renew" =>
                 /\ call[c].key \in Key /\ call[c].token \in Nat
                 /\ call[c].ttl \in TTL /\ call[c].t \in Nat
           /\ call[c].op = "acquire" =>
                 call[c].key \in Key /\ call[c].ttl \in TTL /\ call[c].t \in Nat
           /\ call[c].op \in {"block", "check"} =>
                 /\ call[c].key \in Key /\ call[c].ttl \in TTL /\ call[c].t \in Nat
                 /\ call[c].deadline \in Nat
<1>1. call[c] \in Call
  BY DEF TypeOK
<1>. QED
  BY <1>1 DEF Call, NoCall

(* A grant, by Acquire or by AcquireBlocking, keeps the invariant.          *)
LEMMA GrantKeepsInv ==
    ASSUME Inv, NEW c \in Client, call[c].op \in {"acquire", "block"},
           ~Blocked(c), Grant(c)
    PROVE  Inv'
<1>. DEFINE k == call[c].key
            new == [key |-> k, owner |-> OwnerOf[c], token |-> minted,
                    expireAt |-> Expiry(c)]
<1>1. /\ k \in Key /\ call[c].ttl \in Nat /\ call[c].t \in Nat
      /\ call[c].t <= now /\ now \in Nat /\ minted \in Nat
  BY CallArguments, LockParameters DEF Inv, ClockBehind, TypeOK
<1>2. /\ locks' = (locks \ LeasesOf(k)) \cup {new}
      /\ held' = {h \in held : h.key # k \/ h.owner # OwnerOf[c]} \cup {new}
      /\ minted' = minted + 1 /\ now' = now
      /\ call' = [call EXCEPT ![c] = NoCall]
  BY DEF Grant, Return
<1>3. new \in Lease
  BY <1>1, LockParameters DEF Lease, Expiry
<1>4. TypeOK'
  BY <1>1, <1>2, <1>3 DEF Inv, TypeOK, Call
<1>5. OneLease'
  BY <1>2, <1>3 DEF Inv, OneLease, LeasesOf
<1>6. TokensMinted'
  BY <1>1, <1>2, <1>3 DEF Inv, TokensMinted, TypeOK, Lease
<1>7. ClockBehind'
  BY <1>2 DEF Inv, ClockBehind, TypeOK, NoCall
<1>8. LeaseKept'
  <2>. SUFFICES ASSUME NEW h \in held', now < h.expireAt, h # new PROVE h \in locks'
    BY <1>2 DEF LeaseKept
  <2>1. h \in held /\ h \in locks /\ (h.key # k \/ h.owner # OwnerOf[c])
    BY <1>2 DEF Inv, LeaseKept
  <2>2. h \in Lease
    BY <2>1 DEF Inv, TypeOK
  <2>3. h.key # k
    <3>. SUFFICES ASSUME h.key = k PROVE FALSE
      OBVIOUS
    <3>1. call[c].t < h.expireAt
      BY <1>1, <2>2 DEF Lease
    <3>. QED
      BY <2>1, <3>1 DEF Blocked, LeasesOf
  <2>. QED
    BY <1>2, <2>1, <2>3 DEF LeasesOf
<1>9. TokenBinds'
  <2>. SUFFICES ASSUME NEW l \in locks', NEW h \in held',
                       l.key = h.key, l.token = h.token
                PROVE  l = h
    BY DEF TokenBinds
  <2>1. CASE l \in locks /\ h \in held
    BY <2>1 DEF Inv, TokenBinds
  <2>2. CASE l = new /\ h = new
    BY <2>2
  <2>3. CASE l = new /\ h \in held
    BY <1>1, <2>3 DEF Inv, TokensMinted, TypeOK, Lease
  <2>4. CASE l \in locks /\ h = new
    BY <1>1, <2>4 DEF Inv, TokensMinted, TypeOK, Lease
  <2>. QED
    BY <1>2, <2>1, <2>2, <2>3, <2>4
<1>. QED
  BY <1>4, <1>5, <1>6, <1>7, <1>8, <1>9 DEF Inv

(* A release keeps the invariant: it removes the lease from both sides.     *)
LEMMA ReleaseKeepsInv ==
    ASSUME Inv, NEW c \in Client, Release(c)
    PROVE  Inv'
<1>1. TypeOK'
  BY DEF Inv, TypeOK, Release, Return, Call
<1>2. OneLease' /\ TokensMinted' /\ TokenBinds'
  BY DEF Inv, OneLease, TokensMinted, TokenBinds, Release
<1>3. ClockBehind'
  BY DEF Inv, ClockBehind, TypeOK, NoCall, Release, Return
<1>4. LeaseKept'
  BY DEF Inv, LeaseKept, Release
<1>. QED
  BY <1>1, <1>2, <1>3, <1>4 DEF Inv

(* A renewal keeps the invariant.                                           *)
LEMMA RenewKeepsInv ==
    ASSUME Inv, NEW c \in Client, Renew(c)
    PROVE  Inv'
<1>. DEFINE named(l) == l.key = call[c].key /\ l.token = call[c].token
            renewed(l) == [l EXCEPT !.expireAt = Expiry(c)]
            found == {l \in locks : named(l) /\ call[c].t < l.expireAt}
<1>1. /\ call[c].ttl \in Nat /\ call[c].t \in Nat
      /\ call[c].t <= now /\ now \in Nat /\ minted \in Nat
  BY CallArguments, LockParameters DEF Inv, ClockBehind, TypeOK, Renew
<1>2. /\ locks' = (locks \ found) \cup {renewed(l) : l \in found}
      /\ held' = {h \in held : ~named(h)} \cup {renewed(l) : l \in found}
      /\ minted' = minted /\ now' = now
      /\ call' = [call EXCEPT ![c] = NoCall]
  BY DEF Renew, Return
<1>3. ASSUME NEW l \in locks
      PROVE  /\ l \in Lease /\ renewed(l) \in Lease
             /\ renewed(l).key = l.key /\ renewed(l).token = l.token
  BY <1>1 DEF Inv, TypeOK, Lease, Expiry
<1>. HIDE DEF renewed
<1>4. TypeOK'
  <2>1. locks' \subseteq Lease /\ held' \subseteq Lease
    BY <1>2, <1>3 DEF Inv, TypeOK
  <2>. QED
    BY <1>2, <2>1 DEF Inv, TypeOK, Call
<1>5. \A l, m \in found : l = m
  BY DEF Inv, OneLease
<1>6. OneLease'
  BY <1>2, <1>3, <1>5 DEF Inv, OneLease
<1>7. TokensMinted'
  BY <1>2, <1>3 DEF Inv, TokensMinted
<1>8. ClockBehind'
  BY <1>2 DEF Inv, ClockBehind, TypeOK, NoCall
<1>9. LeaseKept'
  BY <1>2 DEF Inv, LeaseKept
<1>10. TokenBinds'
  <2>. SUFFICES ASSUME NEW l \in locks', NEW h \in held',
                       l.key = h.key, l.token = h.token
                PROVE  l = h
    BY DEF TokenBinds
  <2>1. CASE l \in locks \ found /\ h \in held /\ ~named(h)
    BY <2>1 DEF Inv, TokenBinds
  <2>2. ASSUME NEW m \in found, h = renewed(m), l \in locks \ found PROVE FALSE
    BY <1>3, <2>2 DEF Inv, OneLease
  <2>3. ASSUME NEW m \in found, l = renewed(m), h \in held, ~named(h) PROVE FALSE
    BY <1>3, <2>3
  <2>. QED
    BY <1>2, <1>5, <2>1, <2>2, <2>3
<1>. QED
  BY <1>4, <1>6, <1>7, <1>8, <1>9, <1>10 DEF Inv

(* Inv is inductive.                                                        *)
LEMMA NextKeepsInv == Inv /\ [Next]_vars => Inv'
<1>. SUFFICES ASSUME Inv, [Next]_vars PROVE Inv'
  OBVIOUS
<1>1. CASE UNCHANGED vars
  BY <1>1 DEF Inv, TypeOK, OneLease, TokensMinted, ClockBehind, LeaseKept,
              TokenBinds, vars
<1>2. CASE Tick
  BY <1>2 DEF Inv, TypeOK, OneLease, TokensMinted, ClockBehind, LeaseKept,
              TokenBinds, Tick, Lease, Call, NoCall
<1>3. ASSUME NEW c \in Client, Begin(c) PROVE Inv'
  <2>1. /\ now \in Nat /\ minted \in Nat
        /\ UNCHANGED <<now, locks, minted, held>>
    BY <1>3 DEF Begin, Inv, TypeOK
  <2>2. PICK d \in Call : call' = [call EXCEPT ![c] = d]
                          /\ (d.op # "release" => d.t = now)
    <3>1. ASSUME NEW k \in Key, NEW ttl \in TTL
          PROVE  [op |-> "acquire", key |-> k, ttl |-> ttl, t |-> now] \in Call
      BY <2>1 DEF Call
    <3>2. ASSUME NEW k \in Key, NEW token \in 0..(minted - 1)
          PROVE  [op |-> "release", key |-> k, token |-> token] \in Call
      BY <2>1 DEF Call
    <3>3. ASSUME NEW k \in Key, NEW token \in 0..(minted - 1), NEW ttl \in TTL
          PROVE  [op |-> "renew", key |-> k, token |-> token, ttl |-> ttl,
                  t |-> now] \in Call
      BY <2>1 DEF Call
    <3>4. ASSUME NEW k \in Key, NEW ttl \in TTL, NEW wait \in Wait
          PROVE  [op |-> "block", key |-> k, ttl |-> ttl, t |-> now,
                  deadline |-> now + wait] \in Call
      BY <2>1, LockParameters DEF Call
    <3>. QED
      BY <1>3, <3>1, <3>2, <3>3, <3>4 DEF Begin
  <2>3. TypeOK'
    BY <2>1, <2>2 DEF Inv, TypeOK
  <2>4. ClockBehind'
    BY <2>1, <2>2 DEF Inv, ClockBehind, TypeOK
  <2>. QED
    BY <2>1, <2>3, <2>4 DEF Inv, OneLease, TokensMinted, LeaseKept, TokenBinds
<1>4. ASSUME NEW c \in Client, call[c].op = "acquire", Blocked(c), Acquire(c)
      PROVE  Inv'
  BY <1>4 DEF Acquire, Return, Inv, TypeOK, OneLease, TokensMinted, ClockBehind,
              LeaseKept, TokenBinds, Call, NoCall
<1>5. ASSUME NEW c \in Client, Try(c) \/ Retry(c), ~Grant(c) PROVE Inv'
  <2>1. /\ now \in Nat /\ UNCHANGED <<now, locks, minted, held>>
        /\ call[c].op \in {"block", "check"}
    BY <1>5 DEF Try, Retry, Inv, TypeOK
  <2>2. PICK d \in Call : /\ call' = [call EXCEPT ![c] = d]
                          /\ d = NoCall \/ d.t = call[c].t \/ d.t = now
    <3>1. /\ [call[c] EXCEPT !.op = "check"] \in Call
          /\ [call[c] EXCEPT !.op = "check"].t = call[c].t
          /\ [call[c] EXCEPT !.op = "block", !.t = now] \in Call
          /\ [call[c] EXCEPT !.op = "block", !.t = now].t = now
          /\ NoCall \in Call
      <4>1. call[c] \in [op : {"block", "check"}, key : Key, ttl : TTL, t : Nat,
                         deadline : Nat]
        BY <2>1, CallArguments DEF Call, NoCall, Inv
      <4>. QED
        BY <2>1, <4>1 DEF Call
    <3>2. CASE Try(c)
      <4>1. call' = [call EXCEPT ![c] = [call[c] EXCEPT !.op = "check"]]
        BY <1>5, <3>2 DEF Try
      <4>. QED
        BY <3>1, <4>1
    <3>3. CASE Retry(c)
      <4>1. \/ call' = [call EXCEPT ![c] = NoCall]
            \/ call' = [call EXCEPT ![c] = [call[c] EXCEPT !.op = "block", !.t = now]]
        BY <3>3 DEF Retry, Return
      <4>. QED
        BY <3>1, <4>1
    <3>. QED
      BY <1>5, <3>2, <3>3
  <2>3. TypeOK'
    BY <2>1, <2>2 DEF Inv, TypeOK
  <2>4. ClockBehind'
    BY <2>1, <2>2 DEF Inv, ClockBehind, TypeOK, NoCall
  <2>. QED
    BY <2>1, <2>3, <2>4 DEF Inv, OneLease, TokensMinted, LeaseKept, TokenBinds
<1>6. ASSUME NEW c \in Client, Step(c) PROVE Inv'
  <2>1. CASE Acquire(c)
    BY <1>4, <2>1, GrantKeepsInv DEF Acquire
  <2>2. CASE Release(c)
    BY <2>2, ReleaseKeepsInv
  <2>3. CASE Renew(c)
    BY <2>3, RenewKeepsInv
  <2>4. CASE (Try(c) \/ Retry(c)) /\ ~Grant(c)
    BY <1>5, <2>4
  <2>5. CASE Try(c) /\ Grant(c)
    <3>1. call[c].op = "block" /\ ~Blocked(c)
      <4>1. minted' = minted + 1 /\ minted \in Nat
        BY <2>5 DEF Grant, Inv, TypeOK
      <4>. QED
        BY <2>5, <4>1 DEF Try
    <3>. QED
      BY <2>5, <3>1, GrantKeepsInv
  <2>6. CASE Retry(c) /\ Grant(c)
    <3>1. minted' = minted /\ minted' = minted + 1
      BY <2>6 DEF Retry, Grant
    <3>. QED
      BY <3>1 DEF Inv, TypeOK
  <2>. QED
    BY <1>6, <2>1, <2>2, <2>3, <2>4, <2>5, <2>6 DEF Step
<1>. QED
  BY <1>1, <1>2, <1>3, <1>6 DEF Next

(* The clock and the token counter stay natural numbers, the Manager and    *)
(* the clients hold leases only, and every client is in a call or in none   *)
(* (Manager.locks, nextToken, AcquireBlocking).                             *)
THEOREM LockTypes == Spec => []TypeOK
<1>1. Init => Inv
  BY DEF Init, Inv, TypeOK, OneLease, TokensMinted, ClockBehind, LeaseKept,
         TokenBinds, Call, NoCall
<1>2. Inv => TypeOK
  BY DEF Inv
<1>. QED
  BY <1>1, <1>2, NextKeepsInv, PTL DEF Spec

(* Only one owner at a time holds a lock (Manager.Acquire, Release, Renew   *)
(* and AcquireBlocking), whatever the clients do and however late a call    *)
(* gets the mutex after it read the clock.                                  *)
THEOREM LocksExclude == Spec => []MutualExclusion
<1>1. Init => Inv
  BY DEF Init, Inv, TypeOK, OneLease, TokensMinted, ClockBehind, LeaseKept,
         TokenBinds, Call, NoCall
<1>2. Inv => MutualExclusion
  BY DEF Inv, LeaseKept, OneLease, MutualExclusion
<1>. QED
  BY <1>1, <1>2, NextKeepsInv, PTL DEF Spec

(* A lease stays as it was granted or renewed until its owner gives it up   *)
(* or it is over.                                                           *)
THEOREM LeasesKept == Spec => []LeaseKept
<1>1. Init => Inv
  BY DEF Init, Inv, TypeOK, OneLease, TokensMinted, ClockBehind, LeaseKept,
         TokenBinds, Call, NoCall
<1>2. Inv => LeaseKept
  BY DEF Inv
<1>. QED
  BY <1>1, <1>2, NextKeepsInv, PTL DEF Spec

(* A grant, though decided with the clock of the call, is one the service   *)
(* may make now, and lasts no longer than it may.                           *)
LEMMA GrantServes ==
    ASSUME Inv, NEW c \in Client, call[c].op \in {"acquire", "block"},
           ~Blocked(c), Grant(c)
    PROVE  S!Serve
<1>. DEFINE k == call[c].key
            o == OwnerOf[c]
            new == [key |-> k, owner |-> o, token |-> minted,
                    expireAt |-> Expiry(c)]
<1>1. /\ k \in Key /\ o \in Owner /\ call[c].ttl \in TTL /\ call[c].ttl \in Nat
      /\ call[c].t \in Nat /\ call[c].t <= now /\ now \in Nat
  BY CallArguments, LockParameters DEF Inv, ClockBehind, TypeOK
<1>2. \A l \in locks : l.key = k /\ l.owner # o => l.expireAt <= now
  <2>. SUFFICES ASSUME NEW l \in locks, l.key = k, l.owner # o
                PROVE  l.expireAt <= now
    OBVIOUS
  <2>1. l.expireAt \in Nat
    BY DEF Inv, TypeOK, Lease
  <2>2. ~(call[c].t < l.expireAt)
    BY DEF Blocked, LeasesOf
  <2>. QED
    BY <1>1, <2>1, <2>2
<1>3. S!InTime(new)
  BY <1>1 DEF S!InTime, Expiry
<1>4. locks' = {m \in locks : m.key # k} \cup {new}
  BY DEF Grant, LeasesOf
<1>5. /\ new \in locks'
      /\ new.key = k /\ new.owner = o /\ new.token = minted
  BY <1>4
<1>6. minted' = minted + 1 /\ now' = now
  BY DEF Grant
<1>7. S!Take(k, o)
  BY <1>2, <1>3, <1>4, <1>5, <1>6 DEF S!Take
<1>. QED
  BY <1>1, <1>7 DEF S!Serve

(* A release gives up the lease of its token, if there is one.              *)
LEMMA ReleaseServes ==
    ASSUME Inv, NEW c \in Client, Release(c)
    PROVE  [S!Serve]_S!serviceVars
<1>1. /\ locks' = {l \in locks : l.key # call[c].key \/ l.token # call[c].token}
      /\ UNCHANGED <<now, minted>>
  BY DEF Release
<1>2. CASE \E l \in locks : l.key = call[c].key /\ l.token = call[c].token
  <2>1. PICK l \in locks : l.key = call[c].key /\ l.token = call[c].token
    BY <1>2
  <2>2. locks' = locks \ {l}
    BY <1>1, <2>1 DEF Inv, OneLease
  <2>. QED
    BY <1>1, <2>2 DEF S!Serve, S!GiveUp
<1>3. CASE \A l \in locks : l.key # call[c].key \/ l.token # call[c].token
  <2>1. locks' = locks
    BY <1>1, <1>3
  <2>. QED
    BY <1>1, <2>1 DEF S!serviceVars
<1>. QED
  BY <1>2, <1>3

(* A renewal extends the lease of its token, if the clock of the call still *)
(* finds it.                                                                *)
LEMMA RenewServes ==
    ASSUME Inv, NEW c \in Client, Renew(c)
    PROVE  [S!Serve]_S!serviceVars
<1>. DEFINE named(l) == l.key = call[c].key /\ l.token = call[c].token
            renewed(l) == [l EXCEPT !.expireAt = Expiry(c)]
            found == {l \in locks : named(l) /\ call[c].t < l.expireAt}
<1>1. /\ call[c].ttl \in TTL /\ call[c].ttl \in Nat /\ call[c].t \in Nat
      /\ call[c].t <= now /\ now \in Nat
  BY CallArguments, LockParameters DEF Inv, ClockBehind, TypeOK, Renew
<1>2. /\ locks' = (locks \ found) \cup {renewed(l) : l \in found}
      /\ UNCHANGED <<now, minted>>
  BY DEF Renew
<1>3. CASE found = {}
  BY <1>2, <1>3 DEF S!serviceVars
<1>4. CASE found # {}
  <2>1. PICK l \in found : TRUE
    BY <1>4
  <2>2. found = {l}
    BY <2>1 DEF Inv, OneLease
  <2>3. /\ l \in locks /\ l \in Lease
    BY <2>1 DEF Inv, TypeOK
  <2>4. /\ renewed(l).key = l.key /\ renewed(l).owner = l.owner
        /\ renewed(l).token = l.token /\ renewed(l).expireAt = Expiry(c)
    BY <2>3 DEF Lease
  <2>5. S!InTime(renewed(l))
    BY <1>1, <2>4 DEF S!InTime, Expiry
  <2>6. locks' = (locks \ {l}) \cup {renewed(l)}
    BY <1>2, <2>2
  <2>7. S!Extend(l)
    BY <1>2, <2>4, <2>5, <2>6 DEF S!Extend
  <2>. QED
    BY <2>3, <2>7 DEF S!Serve
<1>. QED
  BY <1>3, <1>4

(* Every step of the Manager is a step of the service, or none.             *)
LEMMA StepServes == Inv /\ [Next]_vars => [S!Serve]_S!serviceVars
<1>. SUFFICES ASSUME Inv, [Next]_vars PROVE [S!Serve]_S!serviceVars
  OBVIOUS
<1>1. ASSUME UNCHANGED <<now, locks, minted>> PROVE UNCHANGED S!serviceVars
  BY <1>1 DEF S!serviceVars
<1>2. CASE Tick
  BY <1>2 DEF Tick, S!Serve, S!Pass
<1>3. ASSUME NEW c \in Client, Step(c) PROVE [S!Serve]_S!serviceVars
  <2>1. CASE Release(c)
    BY <2>1, ReleaseServes
  <2>2. CASE Renew(c)
    BY <2>2, RenewServes
  <2>3. CASE Acquire(c)
    BY <1>1, <2>3, GrantServes DEF Acquire
  <2>4. CASE Try(c)
    BY <1>1, <2>4, GrantServes DEF Try
  <2>5. CASE Retry(c)
    BY <1>1, <2>5 DEF Retry
  <2>. QED
    BY <1>3, <2>1, <2>2, <2>3, <2>4, <2>5 DEF Step
<1>4. ASSUME NEW c \in Client, Begin(c) PROVE UNCHANGED S!serviceVars
  BY <1>1, <1>4 DEF Begin
<1>5. CASE UNCHANGED vars
  BY <1>1, <1>5 DEF vars
<1>. QED
  BY <1>2, <1>3, <1>4, <1>5 DEF Next

(* The Manager implements LeaseService, for any clients, keys and lease     *)
(* times, and any delay between reading the clock and taking the mutex      *)
(* (Manager.Acquire, Release, Renew and AcquireBlocking).                   *)
THEOREM LocksServe == Spec => ImplementsService
<1>1. Init => Inv
  BY DEF Init, Inv, TypeOK, OneLease, TokensMinted, ClockBehind, LeaseKept,
         TokenBinds, Call, NoCall
<1>2. Init => S!Start
  BY DEF Init, S!Start
<1>3. Spec => []Inv
  BY <1>1, NextKeepsInv, PTL DEF Spec
<1>4. Spec => [][S!Serve]_S!serviceVars
  BY <1>3, StepServes, PTL DEF Spec
<1>. QED
  BY <1>2, <1>4 DEF Spec, ImplementsService, S!ServiceSpec
=============================================================================
