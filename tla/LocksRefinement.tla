-------------------------- MODULE LocksRefinement --------------------------
(***************************************************************************)
(* The lock manager implements LeaseService.  The calls, which read the    *)
(* clock some time before they get the mutex, are hidden: each takes       *)
(* effect in one step, by the clock of that moment.                        *)
(***************************************************************************)
EXTENDS Locks

S == INSTANCE LeaseService WITH leases <- locks, tokens <- minted

(* The Manager keeps the promise of LeaseService: a call that decides with  *)
(* an old clock, a renewal of a lease that is over and a release with an    *)
(* old token never take a lease from its owner before its time, never make  *)
(* one longer than its ttl from now, and never reuse a token.               *)
(* (Manager.Acquire, Release, Renew, AcquireBlocking.)                      *)
ImplementsService == S!ServiceSpec
=============================================================================
