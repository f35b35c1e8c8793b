--------------------------- MODULE FiniteRecursion ---------------------------
(***************************************************************************)
(* Recursive functions on 0..n, as the models write the loops of the code: *)
(* f[0] is where the loop begins, f[i] what its i-th round makes of f[i-1].*)
(* Such a function exists, and what each round preserves it has.           *)
(***************************************************************************)
EXTENDS Integers, WellFoundedInduction, TLAPS

\* A set of numbers that is not empty has a least one.
LEMMA LeastNumber ==
    ASSUME NEW S \in SUBSET Nat, S # {}
    PROVE  \E m \in S : \A k \in S : m <= k
<1>1. PICK m \in S : \A k \in S : ~ (<<k, m>> \in OpToRel(<, Nat))
  BY NatLessThanWellFounded, WFMin
<1>2. \A k \in S : ~(k < m)
  BY <1>1 DEF OpToRel
<1> QED BY <1>2

\* A bounded set of numbers that is not empty has a greatest one.
LEMMA GreatestNumber ==
    ASSUME NEW S, NEW n \in Nat, S \in SUBSET (0..n), S # {}
    PROVE  \E m \in S : \A k \in S : k <= m
<1> DEFINE T == {n - k : k \in S}
<1>1. T \in SUBSET Nat /\ T # {}
  <2>1. \A k \in S : n - k \in Nat
    OBVIOUS
  <2>2. PICK k \in S : TRUE
    OBVIOUS
  <2>3. n - k \in T
    BY <2>2
  <2> QED BY <2>1, <2>3
<1>2. PICK t \in T : \A u \in T : t <= u
  <2> HIDE DEF T
  <2> QED BY <1>1, LeastNumber
<1>3. PICK m \in S : t = n - m
  OBVIOUS
<1>4. \A k \in S : k <= m
  <2> TAKE k \in S
  <2>1. n - k \in T /\ k \in 0..n /\ m \in 0..n
    OBVIOUS
  <2> QED BY <1>2, <1>3, <2>1
<1> QED BY <1>4

\* Induction up to n, for a set.
LEMMA Reaches ==
    ASSUME NEW n \in Nat, NEW S, 0 \in S, \A i \in 1..n : i - 1 \in S => i \in S
    PROVE  \A i \in 0..n : i \in S
<1> SUFFICES ASSUME {i \in 0..n : i \notin S} # {}
             PROVE  FALSE
  OBVIOUS
<1>1. PICK m \in {i \in 0..n : i \notin S} : \A k \in {i \in 0..n : i \notin S} : m <= k
  <2>1. {i \in 0..n : i \notin S} \in SUBSET Nat
    OBVIOUS
  <2> QED BY <2>1, LeastNumber
<1>2. m \in 1..n /\ m - 1 \in 0..n /\ m - 1 < m
  BY <1>1
<1>3. m - 1 \in S
  BY <1>1, <1>2
<1> QED BY <1>1, <1>2, <1>3

\* step[i] is the i-th round, on values of T.
Rounds(n, T) == [1..n -> [T -> T]]

Iterates(f, n, T, base, step) ==
    /\ f \in [0..n -> T]
    /\ f[0] = base
    /\ \A i \in 1..n : f[i] = step[i][f[i - 1]]

LEMMA OneRoundMore ==
    ASSUME NEW n \in Nat, NEW T, NEW base \in T, NEW step \in Rounds(n, T), NEW m \in 1..n,
           NEW f, Iterates(f, m - 1, T, base, step)
    PROVE  \E g : Iterates(g, m, T, base, step)
<1> DEFINE g == [i \in 0..m |-> IF i = m THEN step[m][f[m - 1]] ELSE f[i]]
<1>1. m - 1 \in 0..(m - 1) /\ f[m - 1] \in T
  BY DEF Iterates
<1>2. step[m][f[m - 1]] \in T
  BY <1>1 DEF Rounds
<1>3. \A i \in 0..m : i # m => i \in 0..(m - 1)
  OBVIOUS
<1>4. g \in [0..m -> T] /\ g[0] = base /\ g[m] = step[m][f[m - 1]]
  BY <1>2, <1>3 DEF Iterates
<1>5. \A i \in 0..(m - 1) : g[i] = f[i]
  OBVIOUS
<1> HIDE DEF g
<1>6. ASSUME NEW i \in 1..m
      PROVE  g[i] = step[i][g[i - 1]]
  <2>1. CASE i = m
    BY <1>1, <1>4, <1>5, <2>1
  <2>2. CASE i # m
    <3>1. i \in 1..(m - 1) /\ i \in 0..(m - 1) /\ i - 1 \in 0..(m - 1)
      BY <2>2
    <3> QED BY <1>5, <3>1 DEF Iterates
  <2> QED BY <2>1, <2>2
<1> QED BY <1>4, <1>6 DEF Iterates

LEMMA IterationExists ==
    ASSUME NEW n \in Nat, NEW T, NEW base \in T, NEW step \in Rounds(n, T)
    PROVE  \E f : Iterates(f, n, T, base, step)
<1> DEFINE S == {m \in 0..n : \E f : Iterates(f, m, T, base, step)}
<1>1. 0 \in S
  <2>1. Iterates([i \in 0..0 |-> base], 0, T, base, step)
    BY DEF Iterates
  <2> QED BY <2>1
<1>2. ASSUME NEW m \in 1..n, m - 1 \in S
      PROVE  m \in S
  <2>1. PICK f : Iterates(f, m - 1, T, base, step)
    BY <1>2
  <2> QED BY <2>1, OneRoundMore
<1> HIDE DEF S
<1>3. n \in S
  BY <1>1, <1>2, Reaches
<1> QED BY <1>3 DEF S
=============================================================================
