------------------------------ MODULE MCLocks ------------------------------
(* A small instance of Locks: two clients that are different owners.        *)
EXTENDS LocksRefinement, TLC

CONSTANTS a, c, o1, o2

MCOwnerOf == a :> o1 @@ c :> o2
=============================================================================
