-------------------------- MODULE InductionLemmas --------------------------
(***************************************************************************)
(* Induction over the naturals, with the statement as a set of numbers,    *)
(* and what follows from it for finite sets of numbers and for orders on   *)
(* the positions of a sequence.                                            *)
(***************************************************************************)
EXTENDS Naturals, FiniteSets, FiniteSetTheorems, WellFoundedInduction, TLAPS

\* A set of naturals that is not empty has a least member.
LEMMA LeastNatural ==
    ASSUME NEW S, S \subseteq Nat, S # {}
    PROVE  \E n \in S : \A m \in S : n <= m
<1> DEFINE R == OpToRel(<, Nat)
<1>1. \E n \in S : \A m \in S : ~(<<m, n>> \in R)
    BY NatLessThanWellFounded, WFMin
<1>2. \A m, n \in Nat : m < n => <<m, n>> \in R
    BY DEF OpToRel
<1> HIDE DEF R
<1>3. PICK n \in S : \A m \in S : ~(<<m, n>> \in R)
    BY <1>1
<1>4. ASSUME NEW m \in S PROVE n <= m
    <2>1. m \in Nat /\ n \in Nat
        OBVIOUS
    <2>2. ~(m < n)
        BY <2>1, <1>2, <1>3
    <2> QED BY <2>1, <2>2
<1> QED BY <1>4

\* What holds of 0, and of n + 1 whenever of n, holds of every natural.
LEMMA NaturalInduction ==
    ASSUME NEW S, 0 \in S, \A n \in Nat : n \in S => n + 1 \in S
    PROVE  \A n \in Nat : n \in S
<1> SUFFICES ASSUME NEW k \in Nat, k \notin S PROVE FALSE
    OBVIOUS
<1> DEFINE U == {n \in Nat : n \notin S}
<1>1. U \subseteq Nat /\ U # {}
    OBVIOUS
<1>2. PICK n \in U : \A m \in U : n <= m
    BY <1>1, LeastNatural
<1>3. n \in Nat \ {0} /\ n \notin S
    OBVIOUS
<1>4. n - 1 \in Nat /\ (n - 1) + 1 = n
    BY <1>3
<1>5. n - 1 \notin U
    BY <1>2, <1>3, <1>4
<1> QED BY <1>3, <1>4, <1>5

\* A finite set of naturals that is not empty has a greatest member.
LEMMA GreatestNatural ==
    ASSUME NEW S, S \subseteq Nat, S # {}, IsFiniteSet(S)
    PROVE  \E n \in S : \A m \in S : m <= n
<1>1. PICK k \in Nat : \E f \in [1..k -> S] : \A x \in S : \E i \in 1..k : f[i] = x
    <2>1. PICK k \in Nat : ExistsSurjection(1..k, S)
        BY FS_NatSurjection
    <2> QED BY <2>1 DEF ExistsSurjection, Surjection
<1>2. PICK f \in [1..k -> S] : \A x \in S : \E i \in 1..k : f[i] = x
    BY <1>1
<1> DEFINE T == {n \in Nat : n \in 1..k => \E i \in 1..n : \A j \in 1..n : f[j] <= f[i]}
<1>3. 0 \in T
    OBVIOUS
<1>4. ASSUME NEW n \in Nat, n \in T PROVE n + 1 \in T
    <2> SUFFICES ASSUME n + 1 \in 1..k
                 PROVE  \E i \in 1..(n + 1) : \A j \in 1..(n + 1) : f[j] <= f[i]
        OBVIOUS
    <2>1. \A j \in 1..(n + 1) : j \in 1..k /\ (j \in 1..n \/ j = n + 1)
        OBVIOUS
    <2>4. \A j \in 1..k : f[j] \in Nat
        OBVIOUS
    <2>5. n + 1 \in 1..(n + 1)
        OBVIOUS
    <2>2. CASE n = 0
        <3>1. \A j \in 1..(n + 1) : j = n + 1
            BY <2>2
        <3>2. f[n + 1] <= f[n + 1]
            BY <2>4
        <3>3. \A j \in 1..(n + 1) : f[j] <= f[n + 1]
            BY <3>1, <3>2
        <3> QED BY <3>3, <2>5
    <2>3. CASE n # 0
        <3>0. n \in 1..k
            BY <2>3
        <3>1. PICK i \in 1..n : \A j \in 1..n : f[j] <= f[i]
            BY <3>0, <1>4
        <3>2. i \in 1..(n + 1) /\ n + 1 \in 1..(n + 1)
            OBVIOUS
        <3>3. CASE f[n + 1] <= f[i]
            BY <3>1, <3>2, <3>3, <2>1, <2>4
        <3>4. CASE ~(f[n + 1] <= f[i])
            <4>1. \A j \in 1..(n + 1) : f[j] <= f[n + 1]
                BY <3>1, <3>2, <3>4, <2>1, <2>4
            <4> QED BY <4>1, <3>2
        <3> QED BY <3>3, <3>4
    <2> QED BY <2>2, <2>3
<1>5. k \in T
    <2> HIDE DEF T
    <2> QED BY <1>3, <1>4, NaturalInduction
<1>6. k # 0
    <2>1. PICK x \in S : TRUE
        OBVIOUS
    <2>2. PICK i \in 1..k : f[i] = x
        BY <1>2
    <2> QED BY <2>2
<1>7. k \in 1..k
    BY <1>6
<1>8. PICK i \in 1..k : \A j \in 1..k : f[j] <= f[i]
    BY <1>5, <1>7
<1> QED BY <1>8, <1>2

\* How many members of P come before i in the order R.
Rank(P, R, i) == Cardinality({j \in P : <<j, i>> \in R})

\* In a strict total order on a finite set every rank is taken by exactly
\* one member: the one with so many before it.
LEMMA Ranking ==
    ASSUME NEW P, IsFiniteSet(P), NEW R,
           \A i \in P : <<i, i>> \notin R,
           \A i, j, k \in P : <<i, j>> \in R /\ <<j, k>> \in R => <<i, k>> \in R,
           \A i, j \in P : i # j => <<i, j>> \in R \/ <<j, i>> \in R
    PROVE  /\ Cardinality(P) \in Nat
           /\ \A i \in P : Rank(P, R, i) \in 0..(Cardinality(P) - 1)
           /\ \A i, j \in P : <<i, j>> \in R => Rank(P, R, i) < Rank(P, R, j)
           /\ \A m \in 1..Cardinality(P) : \E i \in P : Rank(P, R, i) = m - 1
<1> DEFINE n == Cardinality(P)
           ahead(i) == {j \in P : <<j, i>> \in R}
           rank(i) == Cardinality(ahead(i))
<1>1. n \in Nat
    BY FS_CardinalityType
<1> HIDE DEF n
<1>2. ASSUME NEW i \in P
      PROVE  IsFiniteSet(ahead(i)) /\ rank(i) \in 0..(n - 1) /\ rank(i) \in Nat
    <2>1. ahead(i) \subseteq P /\ ahead(i) # P
        OBVIOUS
    <2>2. IsFiniteSet(ahead(i)) /\ rank(i) <= n /\ (rank(i) = n => ahead(i) = P)
        <3> HIDE DEF ahead
        <3> QED BY <2>1, FS_Subset DEF n
    <2>3. rank(i) \in Nat
        BY <2>2, FS_CardinalityType
    <2> HIDE DEF ahead
    <2> QED BY <1>1, <2>1, <2>2, <2>3
<1>3. ASSUME NEW i \in P, NEW j \in P, <<i, j>> \in R
      PROVE  rank(i) < rank(j)
    <2>1. ahead(i) \subseteq ahead(j) /\ i \in ahead(j) /\ i \notin ahead(i)
        BY <1>3
    <2>2. rank(i) <= rank(j) /\ (rank(i) = rank(j) => ahead(i) = ahead(j))
        <3>1. IsFiniteSet(ahead(j))
            BY <1>2
        <3> HIDE DEF ahead
        <3> QED BY <3>1, <2>1, FS_Subset
    <2>3. rank(i) \in Nat /\ rank(j) \in Nat
        BY <1>2
    <2> HIDE DEF ahead
    <2> QED BY <2>1, <2>2, <2>3
<1>4. ASSUME NEW m \in 1..n PROVE \E i \in P : rank(i) = m - 1
    <2> DEFINE f == [i \in P |-> rank(i)]
    <2>1. f \in [P -> 0..(n - 1)]
        BY <1>2
    <2>2. ASSUME NEW i \in P, NEW j \in P, i # j PROVE f[i] # f[j]
        <3>1. rank(i) \in Nat /\ rank(j) \in Nat
            BY <1>2
        <3>2. rank(i) < rank(j) \/ rank(j) < rank(i)
            BY <1>3, <2>2
        <3> HIDE DEF rank
        <3> QED BY <3>1, <3>2
    <2> HIDE DEF f
    <2>3. f \in Injection(P, 0..(n - 1))
        BY <2>1, <2>2 DEF Injection, IsInjective
    <2>4. IsFiniteSet(0..(n - 1)) /\ Cardinality(0..(n - 1)) = n
        BY <1>1, FS_Interval
    <2>5. f \in Surjection(P, 0..(n - 1))
        BY <2>3, <2>4, FS_Injection DEF n
    <2>6. \A t \in 0..(n - 1) : \E i \in P : f[i] = t
        BY <2>5 DEF Surjection
    <2>7. m - 1 \in 0..(n - 1)
        BY <1>1
    <2>8. PICK i \in P : f[i] = m - 1
        BY <2>6, <2>7
    <2> USE DEF f
    <2> HIDE DEF rank
    <2> QED BY <2>8
<1>5. \A i : Rank(P, R, i) = rank(i)
    BY DEF Rank
<1> HIDE DEF rank
<1>6. \A i \in P : Rank(P, R, i) \in 0..(n - 1)
    BY <1>2, <1>5
<1>7. \A i, j \in P : <<i, j>> \in R => Rank(P, R, i) < Rank(P, R, j)
    BY <1>3, <1>5
<1>8. \A m \in 1..n : \E i \in P : Rank(P, R, i) = m - 1
    BY <1>4, <1>5
<1> QED BY <1>1, <1>6, <1>7, <1>8 DEF n

\* So the members of the set can be told one after the other, and each of
\* them is: what is found by rank.
LEMMA Enumeration ==
    ASSUME NEW P, IsFiniteSet(P), NEW R, NEW at,
           \A i \in P : <<i, i>> \notin R,
           \A i, j, k \in P : <<i, j>> \in R /\ <<j, k>> \in R => <<i, k>> \in R,
           \A i, j \in P : i # j => <<i, j>> \in R \/ <<j, i>> \in R,
           at \in [1..Cardinality(P) -> P],
           \A n \in 1..Cardinality(P) : Rank(P, R, at[n]) = n - 1
    PROVE  /\ \A i \in P : \E n \in 1..Cardinality(P) : at[n] = i
           /\ \A m, n \in 1..Cardinality(P) : m < n => <<at[m], at[n]>> \in R
           /\ \A m, n \in 1..Cardinality(P) : at[m] = at[n] => m = n
<1> DEFINE c == Cardinality(P)
           rank(i) == Rank(P, R, i)
<1>1. /\ c \in Nat
      /\ \A i \in P : rank(i) \in 0..(c - 1)
      /\ \A i, j \in P : <<i, j>> \in R => rank(i) < rank(j)
    BY Ranking
<1>2. \A n \in 1..c : at[n] \in P /\ rank(at[n]) = n - 1
    OBVIOUS
<1> HIDE DEF c, rank
<1>3. ASSUME NEW i \in P, NEW j \in P, rank(i) = rank(j) PROVE i = j
    <2>1. rank(i) \in Int /\ rank(j) \in Int
        BY <1>1
    <2>2. ~(rank(i) < rank(j)) /\ ~(rank(j) < rank(i))
        BY <1>3, <2>1
    <2> QED BY <1>1, <2>2
<1>4. ASSUME NEW i \in P PROVE \E n \in 1..c : at[n] = i
    <2>1. rank(i) + 1 \in 1..c /\ (rank(i) + 1) - 1 = rank(i)
        BY <1>1
    <2> QED BY <1>2, <1>3, <2>1
<1>5. ASSUME NEW m \in 1..c, NEW n \in 1..c, at[m] = at[n] PROVE m = n
    BY <1>1, <1>2, <1>5
<1>6. ASSUME NEW m \in 1..c, NEW n \in 1..c, m < n PROVE <<at[m], at[n]>> \in R
    <2>1. m \in Int /\ n \in Int /\ at[m] \in P /\ at[n] \in P
        BY <1>1, <1>2
    <2>2. rank(at[m]) = m - 1 /\ rank(at[n]) = n - 1
        BY <1>2
    <2>3. at[m] # at[n] /\ ~(rank(at[n]) < rank(at[m]))
        BY <1>6, <2>1, <2>2
    <2> QED BY <1>1, <2>1, <2>3
<1> QED BY <1>4, <1>5, <1>6 DEF c
=============================================================================
