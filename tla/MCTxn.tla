------------------------------- MODULE MCTxn -------------------------------
(* A small instance of Txn for TLC.                                         *)
EXTENDS Txn

CONSTANTS a, b, k1, empty
=============================================================================
