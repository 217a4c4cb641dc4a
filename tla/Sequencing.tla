---------------------------- MODULE Sequencing ------------------------------
(***************************************************************************)
(* The operators of SequencesExt that the specifications use, under the    *)
(* same names.  SequencesExt itself brings the module Bags along, and with *)
(* Bags in scope the prover needs ten times as long for every step.        *)
(***************************************************************************)
EXTENDS Integers, Sequences, FiniteSets, FiniteSetsExt, Functions

\* The elements of q, from left to right, taken into a result by op.
FoldLeft(op(_, _), base, q) ==
    MapThenFoldSet(LAMBDA x, res : op(res, x), base, LAMBDA i : q[i],
                   LAMBDA I : Max(I), DOMAIN q)

\* The orders of a set.
SetToSeqs(S) ==
    LET I == 1..Cardinality(S)
    IN  {q \in [I -> S] : \A i, j \in I : i # j => q[i] # q[j]}

\* The orders of its subsets.
SetToAllKPermutations(S) == UNION {SetToSeqs(T) : T \in SUBSET S}

InsertAt(q, i, e) == SubSeq(q, 1, i - 1) \o <<e>> \o SubSeq(q, i, Len(q))

RemoveAt(q, i) == SubSeq(q, 1, i - 1) \o SubSeq(q, i + 1, Len(q))
=============================================================================
