------------------------------ MODULE Folding -------------------------------
(***************************************************************************)
(* Folds over sequences, and induction.  A module that folds an operator   *)
(* of its own takes an instance of this one for it; what a fold is, and    *)
(* what a loop that selects returns, is proved here once for any operator. *)
(*                                                                         *)
(* Induction is stated with a set in place of a predicate: the provers     *)
(* instantiate a set and not an operator.                                  *)
(*                                                                         *)
(* The module extends as little as it can: all it extends comes along with *)
(* every instance.  That the natural numbers are well-ordered is therefore *)
(* a hypothesis here and a lemma of the modules that have an instance.     *)
(***************************************************************************)
EXTENDS Integers, Sequences, Folds, TLAPS

CONSTANT Op(_, _, _)    \* a parameter, the result so far, the next element

Greatest(s) == CHOOSE x \in s : \A y \in s : x >= y

\* The elements of q from left to right: FoldLeft of SequencesExt.
Fold(p, base, q) ==
  MapThenFoldSet(LAMBDA x, y : Op(p, y, x), base, LAMBDA i : q[i],
                 LAMBDA s : Greatest(s), DOMAIN q)
-----------------------------------------------------------------------------
(* Induction.                                                               *)

\* The provers have 20 seconds for a leaf, unless it says otherwise.
USE ZenonT(20)

\* The natural numbers are well-ordered.  The lemmas take it as a hypothesis,
\* which WellFoundedInduction discharges where there is an instance.
WellOrdered == \A T \in SUBSET Nat : T # {} => \E x \in T : \A y \in T : x <= y

\* Induction over the natural numbers.
LEMMA NatInduct ==
  ASSUME WellOrdered, NEW S, 0 \in S, \A n \in Nat : n \in S => n + 1 \in S
  PROVE  \A n \in Nat : n \in S
<1> DEFINE T == Nat \ S
<1> SUFFICES ASSUME T # {} PROVE FALSE
  BY SMTT(30)
<1>1. PICK x \in T : \A y \in T : x <= y
  BY DEF WellOrdered
<1>2. x - 1 \in Nat /\ x - 1 \notin T
  BY <1>1, SMTT(30)
<1> QED
  BY <1>1, <1>2, SMTT(30)

\* Sequences with the same elements are equal.
LEMMA SeqEqual ==
  ASSUME NEW E, NEW s \in Seq(E), NEW t \in Seq(E),
         Len(s) = Len(t), \A i \in 1..Len(s) : s[i] = t[i]
  PROVE  s = t
<1>1. s \in [1..Len(s) -> E] /\ t \in [1..Len(t) -> E]
  BY SMTT(30)
<1> QED
  BY <1>1, SMTT(30)

\* Every sequence is the empty one with elements appended to it.
LEMMA SeqInduct ==
  ASSUME WellOrdered, NEW E, NEW S, <<>> \in S,
         \A q \in Seq(E) : \A e \in E : q \in S => Append(q, e) \in S
  PROVE  \A q \in Seq(E) : q \in S
<1> DEFINE T == {n \in Nat : \A q \in Seq(E) : Len(q) = n => q \in S}
<1>1. 0 \in T
  BY SMTT(30)
<1>2. ASSUME NEW n \in Nat, n \in T PROVE n + 1 \in T
  <2> SUFFICES ASSUME NEW q \in Seq(E), Len(q) = n + 1 PROVE q \in S
    BY SMTT(30)
  <2> DEFINE r == SubSeq(q, 1, n)
             e == q[n + 1]
  <2>1. r \in Seq(E) /\ Len(r) = n /\ e \in E /\ \A i \in 1..n : r[i] = q[i]
    BY SMTT(30)
  <2>2. q = Append(r, e)
    <3>1. /\ Append(r, e) \in Seq(E) /\ Len(Append(r, e)) = n + 1
          /\ \A i \in 1..n : Append(r, e)[i] = r[i]
          /\ Append(r, e)[n + 1] = e
      BY <2>1, SMTT(30)
    <3>2. \A i \in 1..(n + 1) : Append(r, e)[i] = q[i]
      BY <2>1, <3>1, SMTT(30)
    <3> QED
      BY <3>1, <3>2, SeqEqual, SMTT(30)
  <2> HIDE DEF r, e
  <2> QED
    BY <1>2, <2>1, <2>2, SMTT(30)
<1>3. \A n \in Nat : n \in T
  BY <1>1, <1>2, NatInduct
<1> QED
  BY <1>3, SMTT(30)
-----------------------------------------------------------------------------
(* The recursion of a fold.                                                  *)

\* The fold of the empty sequence.
LEMMA FoldNil == \A p, base : Fold(p, base, <<>>) = base
<1> SUFFICES ASSUME NEW p, NEW base PROVE Fold(p, base, <<>>) = base
  BY SMTT(30)
<1> DEFINE F(g) == [s \in SUBSET {} |->
                      IF s = {} THEN base
                      ELSE Op(p, g[s \ {Greatest(s)}], <<>>[Greatest(s)])]
           g0 == [s \in SUBSET {} |-> base]
<1>1. DOMAIN <<>> = {}
  BY SMTT(30)
<1>2. \A s \in SUBSET {} : s = {}
  BY SMTT(30)
<1>3. \A g : F(g) = g0
  BY <1>2, SMTT(30)
<1>4. Fold(p, base, <<>>) = (CHOOSE g : g = F(g))[{}]
  BY <1>1, SMTT(30) DEF Fold, MapThenFoldSet
<1>5. (CHOOSE g : g = F(g)) = g0
  <2> HIDE DEF F, g0
  <2>1. g0 = F(g0)
    BY <1>3, SMTT(30)
  <2>2. (CHOOSE g : g = F(g)) = F(CHOOSE g : g = F(g))
    BY <2>1, SMTT(30)
  <2> QED
    BY <1>3, <2>2, SMTT(30)
<1>6. g0[{}] = base
  BY SMTT(30)
<1> HIDE DEF F, g0
<1> QED
  BY <1>4, <1>5, <1>6

\* The fold of a sequence with one more element.  The recursion of
\* MapThenFoldSet is over sets of indices: it has a solution (<1>2), which is
\* the fold (<1>3), and takes the prefixes of the indices in order (<1>4).
LEMMA FoldAppend ==
  ASSUME WellOrdered, NEW p, NEW E, NEW q \in Seq(E), NEW e \in E, NEW base
  PROVE  Fold(p, base, Append(q, e)) = Op(p, Fold(p, base, q), e)
<1> DEFINE Unfolds(g, f, n) ==
             g = [s \in SUBSET (1..n) |->
                    IF s = {} THEN base
                    ELSE Op(p, g[s \ {Greatest(s)}], f[Greatest(s)])]
           InOrder(g, f, n) ==
             /\ g[{}] = base
             /\ \A m \in 1..n : g[1..m] = Op(p, g[1..(m - 1)], f[m])
<1>1. ASSUME NEW n \in Nat, NEW s \in SUBSET (1..n), s # {}
      PROVE  Greatest(s) \in s /\ \A y \in s : y <= Greatest(s)
  <2> DEFINE T == {n - x : x \in s}
  <2>1. T \in SUBSET Nat /\ T # {}
    <3>1. \A x \in s : n - x \in Nat
      BY SMTT(30)
    <3>2. PICK x \in s : TRUE
      BY <1>1
    <3>3. n - x \in T
      BY SMTT(30)
    <3> QED
      BY <3>1, <3>3, SMTT(30)
  <2>2. PICK t \in T : \A y \in T : t <= y
    BY <2>1 DEF WellOrdered
  <2>3. PICK x \in s : t = n - x
    BY <2>2, SMTT(30)
  <2>4. \A y \in s : n - x <= n - y
    BY <2>2, <2>3
  <2>5. \A y \in s : x >= y
    BY <2>4, SMTT(30)
  <2> QED
    BY <2>5 DEF Greatest
<1>2. ASSUME NEW n \in Nat, NEW f
      PROVE  \E g : Unfolds(g, f, n)
  <2> DEFINE Body(g, s) == IF s = {} THEN base
                           ELSE Op(p, g[s \ {Greatest(s)}], f[Greatest(s)])
             Small(m) == SUBSET (1..m)
             Part(g, m) == g = [s \in Small(m) |-> Body(g, s)]
             N == {m \in Nat : \E g : Part(g, m)}
  <2>1. 0 \in N
    <3> DEFINE g == [s \in Small(0) |-> base]
    <3>1. \A s \in Small(0) : s = {}
      BY SMTT(30)
    <3>2. g = [s \in Small(0) |-> Body(g, s)]
      BY <3>1, SMTT(30)
    <3> QED
      BY <3>2, SMTT(30)
  <2>2. ASSUME NEW m \in Nat, m \in N PROVE m + 1 \in N
    <3>1. PICK g : Part(g, m)
      BY <2>2
    <3>2. \A s \in Small(m) : s \in Small(m + 1)
      BY SMTT(30)
    <3>3. ASSUME NEW s \in Small(m + 1), s # {} PROVE s \ {Greatest(s)} \in Small(m)
      <4> SUFFICES ASSUME NEW x \in s, x # Greatest(s) PROVE x \in 1..m
        OBVIOUS
      <4>0. m + 1 \in Nat /\ s \in SUBSET (1..(m + 1))
        BY <3>3, SMTT(30)
      <4>1. Greatest(s) \in s /\ \A y \in s : y <= Greatest(s)
        BY <3>3, <4>0, <1>1
      <4> DEFINE z == Greatest(s)
      <4>2. z \in 1..(m + 1) /\ x \in 1..(m + 1) /\ x <= z /\ x # z
        BY <4>0, <4>1
      <4> HIDE DEF z
      <4> QED
        BY <4>2, SMTT(30)
    <3> HIDE DEF Small
    <3> DEFINE h == [s \in Small(m + 1) |-> Body(g, s)]
    <3>4. \A s \in Small(m) : g[s] = Body(g, s)
      <4> HIDE DEF Body
      <4> QED BY <3>1, SMTT(30)
    <3>5. \A s \in Small(m + 1) : h[s] = Body(g, s)
      <4> HIDE DEF Body
      <4> QED BY SMTT(30)
    <3>6. \A s \in Small(m) : h[s] = g[s]
      <4> HIDE DEF Body
      <4> QED BY <3>2, <3>4, <3>5, SMTT(30)
    <3>7. \A s \in Small(m + 1) : Body(h, s) = Body(g, s)
      <4> HIDE DEF h
      <4> QED BY <3>3, <3>6, SMTT(30)
    <3>8. Part(h, m + 1)
      <4> HIDE DEF Body
      <4> QED BY <3>7, SMTT(30)
    <3> QED
      <4> HIDE DEF h, Part
      <4> QED BY <3>8, SMTT(30)
  <2>3. n \in N
    <3> HIDE DEF N
    <3> QED BY <2>1, <2>2, NatInduct, SMTT(30)
  <2>4. PICK g : Part(g, n)
    BY <2>3
  <2>5. Unfolds(g, f, n)
    BY <2>4
  <2> QED
    BY <2>5
<1> HIDE DEF Unfolds
<1>3. ASSUME NEW t \in Seq(E)
      PROVE  \E g : /\ Unfolds(g, t, Len(t))
                    /\ Fold(p, base, t) = g[1..Len(t)]
  <2> DEFINE n == Len(t)
             U(g) == g = [s \in SUBSET (1..n) |->
                            IF s = {} THEN base
                            ELSE Op(p, g[s \ {Greatest(s)}], t[Greatest(s)])]
  <2>1. n \in Nat /\ DOMAIN t = 1..n
    BY SMTT(30)
  <2> HIDE DEF n
  <2>2. \E g : Unfolds(g, t, n)
    BY <2>1, <1>2, SMTT(30)
  <2>3. \A g : U(g) <=> Unfolds(g, t, n)
    BY SMTT(30) DEF Unfolds
  <2>4. Fold(p, base, t) = (CHOOSE g : U(g))[1..n]
    BY <2>1, SMTT(30) DEF Fold, MapThenFoldSet
  <2>5. U(CHOOSE g : U(g))
    <3> HIDE DEF U
    <3> QED BY <2>2, <2>3, SMTT(30)
  <2> HIDE DEF U
  <2> QED
    BY <2>3, <2>4, <2>5 DEF n
<1>4. ASSUME NEW n \in Nat, NEW f, NEW g, Unfolds(g, f, n)
      PROVE  InOrder(g, f, n)
  <2>1. {} \in SUBSET (1..n)
    BY SMTT(30)
  <2>2. g[{}] = base
    BY <1>4, <2>1, SMTT(30) DEF Unfolds
  <2>3. ASSUME NEW m \in 1..n PROVE g[1..m] = Op(p, g[1..(m - 1)], f[m])
    <3>0. m \in Nat /\ m >= 1 /\ m <= n
      BY SMTT(30)
    <3>1. 1..m \in SUBSET (1..n) /\ m \in 1..m
      BY <3>0, SMTT(30)
    <3>2. Greatest(1..m) = m
      <4>1. 1..m # {}
        BY <3>1, SMTT(30)
      <4>2. Greatest(1..m) \in 1..m /\ m <= Greatest(1..m)
        BY <3>1, <4>1, <1>1
      <4> QED
        BY <3>0, <4>2, SMTT(30)
    <3>3. (1..m) \ {m} = 1..(m - 1)
      BY SMTT(30)
    <3>4. g[1..m] = Op(p, g[(1..m) \ {Greatest(1..m)}], f[Greatest(1..m)])
      <4> DEFINE s == 1..m
      <4>1. s # {} /\ s \in SUBSET (1..n)
        BY <3>1, SMTT(30)
      <4> HIDE DEF s
      <4>2. g[s] = Op(p, g[s \ {Greatest(s)}], f[Greatest(s)])
        BY <1>4, <4>1 DEF Unfolds
      <4> QED
        BY <4>2, SMTT(30) DEF s
    <3> QED
      BY <3>2, <3>3, <3>4
  <2> QED
    BY <2>2, <2>3, SMTT(30)
<1> HIDE DEF InOrder
<1> DEFINE r == Append(q, e)
           n == Len(q)
<1>5. /\ n \in Nat /\ r \in Seq(E) /\ Len(r) = n + 1 /\ r[n + 1] = e
      /\ \A i \in 1..n : r[i] = q[i]
  BY SMTT(30)
<1>6. PICK g : /\ Unfolds(g, q, n)
               /\ Fold(p, base, q) = g[1..n]
  BY <1>3, SMTT(30)
<1>7. PICK h : /\ Unfolds(h, r, n + 1)
               /\ Fold(p, base, r) = h[1..(n + 1)]
  BY <1>5, <1>3
<1> HIDE DEF r, n
<1>8. /\ g[{}] = base
      /\ \A m \in 1..n : g[1..m] = Op(p, g[1..(m - 1)], q[m])
  <2>1. InOrder(g, q, n)
    BY <1>5, <1>6, <1>4, SMTT(30)
  <2> QED
    BY <2>1, SMTT(30) DEF InOrder
<1>9. /\ h[{}] = base
      /\ \A m \in 1..(n + 1) : h[1..m] = Op(p, h[1..(m - 1)], r[m])
  <2> DEFINE m == n + 1
  <2>1. m \in Nat /\ Unfolds(h, r, m)
    BY <1>5, <1>7, SMTT(30)
  <2> HIDE DEF m
  <2>2. InOrder(h, r, m)
    BY <2>1, <1>4, SMTT(30)
  <2> QED
    BY <2>2, SMTT(30) DEF InOrder, m
<1> DEFINE S == {m \in Nat : m <= n => h[1..m] = g[1..m]}
<1>10. 0 \in S
  <2>1. 1..0 = {}
    BY SMTT(30)
  <2> QED
    BY <2>1, <1>8, <1>9, SMTT(30)
<1>11. ASSUME NEW m \in Nat, m \in S PROVE m + 1 \in S
  <2> SUFFICES ASSUME m + 1 <= n PROVE h[1..(m + 1)] = g[1..(m + 1)]
    BY SMTT(30)
  <2>1. h[1..m] = g[1..m]
    BY <1>5, <1>11, SMTT(30)
  <2>2. m + 1 \in 1..n /\ m + 1 \in 1..(n + 1) /\ (m + 1) - 1 = m
    BY <1>5, SMTT(30)
  <2>3. h[1..(m + 1)] = Op(p, h[1..m], r[m + 1])
    BY <2>2, <1>9, SMTT(30)
  <2>4. g[1..(m + 1)] = Op(p, g[1..m], q[m + 1])
    BY <2>2, <1>8, SMTT(30)
  <2> QED
    BY <1>5, <2>1, <2>2, <2>3, <2>4, SMTT(30)
<1>12. \A m \in Nat : m \in S
  <2> HIDE DEF S
  <2> QED BY <1>10, <1>11, NatInduct, SMTT(30)
<1>13. h[1..n] = g[1..n]
  BY <1>5, <1>12, SMTT(30)
<1>14. n + 1 \in 1..(n + 1) /\ (n + 1) - 1 = n
  BY <1>5, SMTT(30)
<1>15. h[1..(n + 1)] = Op(p, h[1..n], r[n + 1])
  BY <1>9, <1>14, SMTT(30)
<1> QED
  BY <1>5, <1>6, <1>7, <1>13, <1>15, SMTT(30) DEF r

\* r is q without some of its elements: the one at i of r is at f[i] in q, and
\* the ones of q in D are all there.
Selects(f, r, q, D) ==
  /\ f \in [1..Len(r) -> 1..Len(q)]
  /\ \A i, j \in 1..Len(r) : i < j => f[i] < f[j]
  /\ \A i \in 1..Len(r) : r[i] = q[f[i]] /\ r[i] \in D
  /\ \A j \in 1..Len(q) : q[j] \in D => \E i \in 1..Len(r) : f[i] = j

\* A loop that appends to its result the elements in p.
LEMMA FoldSelects ==
  ASSUME WellOrdered, NEW p, NEW E,
         \A a \in Seq(E), e \in E :
            Op(p, a, e) = IF e \in p THEN Append(a, e) ELSE a
  PROVE  \A q \in Seq(E) : /\ Fold(p, <<>>, q) \in Seq(E)
                           /\ \E f : Selects(f, Fold(p, <<>>, q), q, p)
<1> DEFINE Good(q) == /\ Fold(p, <<>>, q) \in Seq(E)
                      /\ \E f : Selects(f, Fold(p, <<>>, q), q, p)
           S == {q \in Seq(E) : Good(q)}
<1>1. <<>> \in S
  <2>1. Fold(p, <<>>, <<>>) = <<>>
    BY FoldNil, SMTT(30)
  <2>2. <<>> \in Seq(E)
    BY SMTT(30)
  <2>3. Selects(<<>>, <<>>, <<>>, p)
    BY SMTT(30) DEF Selects
  <2> QED
    BY <2>1, <2>2, <2>3
<1>2. ASSUME NEW q \in Seq(E), NEW e \in E, q \in S PROVE Append(q, e) \in S
  <2> DEFINE r == Fold(p, <<>>, q)
             q2 == Append(q, e)
             r2 == Fold(p, <<>>, q2)
  <2>1. r \in Seq(E)
    BY <1>2, SMTT(30)
  <2>2. PICK f : Selects(f, r, q, p)
    BY <1>2, SMTT(30)
  <2>3. r2 = Op(p, r, e)
    BY FoldAppend, SMTT(30)
  <2>4. r2 = IF e \in p THEN Append(r, e) ELSE r
    BY <2>1, <2>3, SMTT(30)
  <2>5. /\ q2 \in Seq(E) /\ Len(q2) = Len(q) + 1 /\ q2[Len(q) + 1] = e
        /\ \A i \in 1..Len(q) : q2[i] = q[i]
    BY SMTT(30)
  <2>6. Len(q) \in Nat /\ Len(r) \in Nat
    BY <2>1, SMTT(30)
  <2> HIDE DEF r, q2, r2
  <2>9. /\ f \in [1..Len(r) -> 1..Len(q)]
        /\ \A i \in 1..Len(r) : f[i] \in 1..Len(q)
        /\ \A i, j \in 1..Len(r) : i < j => f[i] < f[j]
        /\ \A i \in 1..Len(r) : r[i] = q[f[i]] /\ r[i] \in p
        /\ \A j \in 1..Len(q) : q[j] \in p => \E i \in 1..Len(r) : f[i] = j
    BY <2>2, SMTT(30) DEF Selects
  <2>7. CASE e \notin p
    <3>1. r2 = r
      BY <2>4, <2>7, SMTT(30)
    <3>2. Selects(f, r, q2, p)
      <4>1. 1..Len(q) \subseteq 1..Len(q2)
        BY <2>5, <2>6, SMTT(30)
      <4>2. f \in [1..Len(r) -> 1..Len(q2)]
        BY <2>9, <4>1, SMTT(30)
      <4>3. \A i \in 1..Len(r) : r[i] = q2[f[i]] /\ r[i] \in p
        BY <2>9, <2>5
      <4>4. \A j \in 1..Len(q2) : q2[j] \in p => j \in 1..Len(q) /\ q[j] \in p
        BY <2>5, <2>6, <2>7, SMTT(30)
      <4> QED
        BY <2>9, <4>2, <4>3, <4>4, SMTT(30) DEF Selects
    <3> QED
      BY <2>1, <2>5, <3>1, <3>2, SMTT(30) DEF r2, q2
  <2>8. CASE e \in p
    <3>1. /\ r2 \in Seq(E) /\ Len(r2) = Len(r) + 1 /\ r2[Len(r) + 1] = e
          /\ \A i \in 1..Len(r) : r2[i] = r[i]
      BY <2>1, <2>4, <2>8, SMTT(30)
    <3> DEFINE n == Len(r)
               f2 == [i \in 1..(n + 1) |-> IF i = n + 1 THEN Len(q) + 1 ELSE f[i]]
    <3>2. f2 \in [1..Len(r2) -> 1..Len(q2)]
      BY <2>9, <2>5, <2>6, <3>1, SMTT(30)
    <3>7. f2[n + 1] = Len(q) + 1 /\ \A i \in 1..n : f2[i] = f[i]
      BY <2>6, SMTT(30)
    <3>8. 1..Len(r2) = 1..n \cup {n + 1} /\ 1..Len(q2) = 1..Len(q) \cup {Len(q) + 1}
      BY <2>5, <2>6, <3>1, SMTT(30)
    <3>9. n \in Nat
      BY <2>6, SMTT(30)
    <3> HIDE DEF f2
    <3>3. \A i, j \in 1..Len(r2) : i < j => f2[i] < f2[j]
      <4> SUFFICES ASSUME NEW i \in 1..Len(r2), NEW j \in 1..Len(r2), i < j
                   PROVE  f2[i] < f2[j]
        BY SMTT(30)
      <4>0. i \in 1..n
        BY <3>8, <3>9, SMTT(30)
      <4>1. f2[i] = f[i] /\ f[i] \in 1..Len(q)
        BY <2>9, <3>7, <4>0, SMTT(30)
      <4>2. CASE j = n + 1
        BY <2>6, <4>1, <4>2, <3>7, SMTT(30)
      <4>3. CASE j \in 1..n
        BY <2>9, <3>7, <4>0, <4>3, SMTT(30)
      <4> QED
        BY <4>2, <4>3, <3>8, SMTT(30)
    <3>4. \A i \in 1..Len(r2) : r2[i] = q2[f2[i]] /\ r2[i] \in p
      <4> SUFFICES ASSUME NEW i \in 1..Len(r2)
                   PROVE  r2[i] = q2[f2[i]] /\ r2[i] \in p
        BY SMTT(30)
      <4>1. CASE i = n + 1
        BY <2>5, <2>8, <3>1, <3>7, <4>1, SMTT(30)
      <4>2. CASE i \in 1..n
        <5>1. f2[i] = f[i] /\ f[i] \in 1..Len(q) /\ r2[i] = r[i]
          BY <2>9, <3>1, <3>7, <4>2, SMTT(30)
        <5>2. q2[f[i]] = q[f[i]] /\ r[i] = q[f[i]] /\ r[i] \in p
          BY <2>5, <2>9, <4>2, <5>1
        <5> QED
          BY <5>1, <5>2, SMTT(30)
      <4> QED
        BY <4>1, <4>2, <3>8, SMTT(30)
    <3>5. \A j \in 1..Len(q2) : q2[j] \in p => \E i \in 1..Len(r2) : f2[i] = j
      <4> SUFFICES ASSUME NEW j \in 1..Len(q2), q2[j] \in p
                   PROVE  \E i \in 1..Len(r2) : f2[i] = j
        BY SMTT(30)
      <4>1. CASE j = Len(q) + 1
        BY <3>7, <3>8, <4>1, SMTT(30)
      <4>2. CASE j \in 1..Len(q)
        <5>1. q[j] \in p
          BY <2>5, <4>2, SMTT(30)
        <5>2. PICK i \in 1..n : f[i] = j
          BY <2>9, <4>2, <5>1, SMTT(30)
        <5> QED
          BY <3>7, <3>8, <5>2, SMTT(30)
      <4> QED
        BY <4>1, <4>2, <3>8, SMTT(30)
    <3>6. Selects(f2, r2, q2, p)
      BY <3>2, <3>3, <3>4, <3>5, SMTT(30) DEF Selects
    <3> QED
      BY <2>5, <3>1, <3>6, SMTT(30) DEF r2, q2
  <2> QED
    BY <2>7, <2>8, SMTT(30)
<1> HIDE DEF Good
<1>3. \A q \in Seq(E) : q \in S
  <2> HIDE DEF S
  <2> QED BY <1>1, <1>2, SeqInduct, SMTT(30)
<1> QED
  BY <1>3, SMTT(30) DEF Good
=============================================================================
