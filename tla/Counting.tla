----------------------------- MODULE Counting -------------------------------
(***************************************************************************)
(* What the proofs use of finite sets and of the natural numbers, as       *)
(* formulas to assume.  They are theorems of FiniteSetTheorems and         *)
(* WellFoundedInduction; a lemma that needs one assumes Counting, and the  *)
(* module that proves the lemma discharges it once, at its end, from an    *)
(* instance of the library.  (All of the library before the lemmas would   *)
(* be carried through every step of their proofs.)                         *)
(***************************************************************************)
EXTENDS Integers, FiniteSets

CardinalityLaw == \A S : IsFiniteSet(S) => Cardinality(S) \in Nat

EmptyLaw ==
  /\ IsFiniteSet({}) /\ Cardinality({}) = 0
  /\ \A S : IsFiniteSet(S) => (Cardinality(S) = 0 <=> S = {})

AddLaw ==
  \A S, x : IsFiniteSet(S) =>
    /\ IsFiniteSet(S \cup {x})
    /\ Cardinality(S \cup {x}) = IF x \in S THEN Cardinality(S)
                                 ELSE Cardinality(S) + 1

RemoveLaw ==
  \A S, x : IsFiniteSet(S) =>
    /\ IsFiniteSet(S \ {x})
    /\ Cardinality(S \ {x}) = IF x \in S THEN Cardinality(S) - 1
                              ELSE Cardinality(S)

SubsetLaw ==
  \A S, T : IsFiniteSet(S) /\ T \subseteq S =>
    /\ IsFiniteSet(T)
    /\ Cardinality(T) <= Cardinality(S)
    /\ Cardinality(S) = Cardinality(T) => S = T

IntervalLaw ==
  \A a, b \in Int : /\ IsFiniteSet(a..b)
                    /\ Cardinality(a..b) = IF a > b THEN 0 ELSE b - a + 1

\* A function from S onto T that takes no value twice.
BijectionLaw ==
  \A S, T : \A f \in [S -> T] :
    /\ IsFiniteSet(S)
    /\ \A x, y \in S : f[x] = f[y] => x = y
    /\ \A y \in T : \E x \in S : f[x] = y
    => IsFiniteSet(T) /\ Cardinality(T) = Cardinality(S)

\* A function from S to T that takes no value twice, when T is no larger.
InjectionLaw ==
  \A S, T : \A f \in [S -> T] :
    /\ IsFiniteSet(T) /\ Cardinality(S) = Cardinality(T)
    /\ \A x, y \in S : f[x] = f[y] => x = y
    => \A y \in T : \E x \in S : f[x] = y

WellOrdered == \A T \in SUBSET Nat : T # {} => \E x \in T : \A y \in T : x <= y

Counting ==
  /\ CardinalityLaw /\ EmptyLaw /\ AddLaw /\ RemoveLaw
  /\ SubsetLaw /\ IntervalLaw /\ BijectionLaw /\ InjectionLaw /\ WellOrdered
=============================================================================
