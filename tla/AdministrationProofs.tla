------------------------- MODULE AdministrationProofs -------------------------
(***************************************************************************)
(* Proofs about the administration suite, for every number of tenants,      *)
(* users, credentials, purges, writers and removers.  A lemma for each part  *)
(* shows what its own steps preserve; the suite's invariant puts them        *)
(* together, a part at rest keeping what it has.                             *)
(***************************************************************************)
EXTENDS Administration, SequenceTheorems, FiniteSetTheorems, WellFoundedInduction, TLAPS

LEMMA Settings ==
    /\ MaxEvents \in Nat \ {0} /\ MaxBuckets \in Nat \ {0} /\ RecoveryTime \in Nat \ {0}
    /\ RetentionTime \in Nat \ {0} /\ ChallengeTtl \in Nat \ {0}
    /\ GrossQuota \in Nat /\ LockoutTime \in Nat /\ QuarantineTime \in Nat /\ LeaseTime \in Nat
    /\ MaxTime \in Nat /\ MaxReservations \in Nat /\ MaxRecorded \in Nat /\ MaxFailures \in Nat
    /\ MaxChallenges \in Nat /\ MaxCount \in Nat /\ MaxGeneration \in Nat
    /\ DelegationTime \in 0 .. MaxTime
  BY SuiteAssumption

-----------------------------------------------------------------------------
(* Numbers, sums over finite sets, and what a selection from a sequence keeps. *)

LEMMA LeastOfAll ==
    ASSUME NEW S \in SUBSET Nat, S # {}
    PROVE  \E n \in S : \A m \in S : n <= m
<1> DEFINE Less == {ss \in Nat \X Nat : ss[1] < ss[2]}
<1>1. IsWellFoundedOn(Less, Nat)
  BY NatLessThanWellFounded DEF OpToRel
<1> HIDE DEF Less
<1>2. PICK n \in S : \A m \in S : <<m, n>> \notin Less
  BY <1>1, WFMin
<1>3. \A m \in S : n <= m
  <2>1. ASSUME NEW m \in S, m < n PROVE FALSE
    <3>1. <<m, n>> \in Nat \X Nat /\ <<m, n>>[1] = m /\ <<m, n>>[2] = n
      OBVIOUS
    <3>2. <<m, n>> \in Less
      BY <2>1, <3>1 DEF Less
    <3> QED
      BY <1>2, <3>2
  <2> QED
    BY <2>1
<1> QED
  BY <1>3

LEMMA LeastNumber ==
    ASSUME NEW S \in SUBSET Nat, S # {}
    PROVE  (CHOOSE n \in S : \A m \in S : n <= m) \in S
BY LeastOfAll

\* Induction over the numbers, for a set of them.
LEMMA EveryNumber ==
    ASSUME NEW X \in SUBSET Nat,
           \A n \in Nat : (\A m \in Nat : m < n => m \in X) => n \in X
    PROVE  \A n \in Nat : n \in X
<1> DEFINE Less == {ss \in Nat \X Nat : ss[1] < ss[2]}
           Rest == Nat \ X
<1>1. IsWellFoundedOn(Less, Nat)
  BY NatLessThanWellFounded DEF OpToRel
<1> HIDE DEF Less
<1> SUFFICES ASSUME Rest # {} PROVE FALSE
  OBVIOUS
<1>2. PICK n \in Rest : \A m \in Rest : <<m, n>> \notin Less
  <2>1. Rest \in SUBSET Nat
    OBVIOUS
  <2> HIDE DEF Rest
  <2> QED
    BY <1>1, <2>1, WFMin
<1>3. ASSUME NEW m \in Nat, m < n PROVE m \in X
  <2>1. <<m, n>> \in Nat \X Nat /\ <<m, n>>[1] = m /\ <<m, n>>[2] = n
    OBVIOUS
  <2>2. <<m, n>> \in Less
    BY <1>3, <2>1 DEF Less
  <2> QED
    BY <1>2, <2>2
<1> QED
  BY <1>2, <1>3

Pick(s) == CHOOSE x \in s : TRUE
Summed(f, s, it) == it[s] = IF s = {} THEN 0 ELSE f[Pick(s)] + it[s \ {Pick(s)}]
Sums(f, S, it) == it = [s \in SUBSET S |-> IF s = {} THEN 0 ELSE f[Pick(s)] + it[s \ {Pick(s)}]]
Total(f, S) == (CHOOSE it : Sums(f, S, it))[S]

\* Taking its first element from a finite set.
LEMMA Without ==
    ASSUME NEW S, IsFiniteSet(S), NEW x \in S
    PROVE  /\ IsFiniteSet(S \ {x}) /\ Cardinality(S) \in Nat \ {0}
           /\ Cardinality(S \ {x}) = Cardinality(S) - 1
BY FS_RemoveElement, FS_CardinalityType, FS_EmptySet

LEMMA SubsetsCount ==
    ASSUME NEW S, IsFiniteSet(S), NEW s \in SUBSET S
    PROVE  /\ IsFiniteSet(s) /\ Cardinality(s) \in Nat /\ Cardinality(s) <= Cardinality(S)
           /\ (Cardinality(s) = 0 <=> s = {})
           /\ s # {} => /\ Pick(s) \in s /\ s \ {Pick(s)} \in SUBSET S
                        /\ Cardinality(s \ {Pick(s)}) = Cardinality(s) - 1
<1>1. IsFiniteSet(s) /\ Cardinality(s) \in Nat /\ Cardinality(s) <= Cardinality(S)
  BY FS_Subset, FS_CardinalityType
<1>2. Cardinality(s) = 0 <=> s = {}
  BY <1>1, FS_EmptySet
<1>3. ASSUME s # {}
      PROVE  Pick(s) \in s
  BY <1>3 DEF Pick
<1>4. ASSUME s # {}
      PROVE  Cardinality(s \ {Pick(s)}) = Cardinality(s) - 1
  BY <1>1, <1>3, <1>4, Without
<1> QED
  BY <1>1, <1>2, <1>3, <1>4

LEMMA TotalExists ==
    ASSUME NEW f, NEW S, IsFiniteSet(S)
    PROVE  \E it : Sums(f, S, it)
<1> DEFINE P(n) == \E g : \A s \in SUBSET S : Cardinality(s) <= n => Summed(f, s, g)
           X == {n \in Nat : P(n)}
<1>1. ASSUME NEW n \in Nat, \A m \in Nat : m < n => m \in X
      PROVE  n \in X
  <2>1. CASE n = 0
    <3> DEFINE g == [s \in SUBSET S |-> 0]
    <3>1. ASSUME NEW s \in SUBSET S, Cardinality(s) <= n
          PROVE  Summed(f, s, g)
      <4>1. s = {}
        <5>1. Cardinality(s) \in Nat /\ (Cardinality(s) = 0 => s = {})
          BY SubsetsCount
        <5> QED
          BY <2>1, <3>1, <5>1
      <4> QED
        BY <4>1 DEF Summed
    <3> HIDE DEF g
    <3> QED
      BY <3>1
  <2>2. CASE n # 0
    <3>1. PICK g : \A s \in SUBSET S : Cardinality(s) <= n - 1 => Summed(f, s, g)
      <4>1. n - 1 \in Nat /\ n - 1 < n
        BY <2>2
      <4>2. n - 1 \in X
        BY <1>1, <4>1
      <4> QED
        BY <4>2
    <3> DEFINE h == [s \in SUBSET S |-> IF Cardinality(s) <= n - 1 THEN g[s]
                                        ELSE f[Pick(s)] + g[s \ {Pick(s)}]]
    <3>2. ASSUME NEW s \in SUBSET S, Cardinality(s) <= n
          PROVE  Summed(f, s, h)
      <4>1. CASE s = {}
        <5>1. Cardinality(s) <= n - 1
          BY <2>2, <4>1, FS_EmptySet
        <5> QED
          BY <3>1, <4>1, <5>1 DEF Summed
      <4>2. CASE s # {}
        <5>1. /\ s \ {Pick(s)} \in SUBSET S /\ Cardinality(s \ {Pick(s)}) <= n - 1
              /\ Cardinality(s) \in Nat
          <6>1. /\ s \ {Pick(s)} \in SUBSET S /\ Cardinality(s) \in Nat
                /\ Cardinality(s \ {Pick(s)}) = Cardinality(s) - 1
            BY <4>2, SubsetsCount
          <6> QED
            BY <3>2, <6>1
        <5>2. h[s \ {Pick(s)}] = g[s \ {Pick(s)}]
          BY <5>1
        <5>3. h[s] = f[Pick(s)] + g[s \ {Pick(s)}]
          BY <3>1, <4>2, <5>1 DEF Summed
        <5> QED
          BY <4>2, <5>2, <5>3 DEF Summed
      <4> QED
        BY <4>1, <4>2
    <3> HIDE DEF h
    <3> QED
      BY <3>2
  <2> QED
    BY <2>1, <2>2
<1>2. Cardinality(S) \in X
  <2> HIDE DEF X
  <2>1. X \in SUBSET Nat
    BY DEF X
  <2>2. \A n \in Nat : (\A m \in Nat : m < n => m \in X) => n \in X
    BY <1>1
  <2> QED
    BY <2>1, <2>2, EveryNumber, FS_CardinalityType
<1>3. PICK g : \A s \in SUBSET S : Cardinality(s) <= Cardinality(S) => Summed(f, s, g)
  BY <1>2
<1> DEFINE it == [s \in SUBSET S |-> g[s]]
<1>4. ASSUME NEW s \in SUBSET S
      PROVE  it[s] = IF s = {} THEN 0 ELSE f[Pick(s)] + it[s \ {Pick(s)}]
  BY <1>3, SubsetsCount DEF Summed
<1>5. it = [s \in SUBSET S |-> IF s = {} THEN 0 ELSE f[Pick(s)] + it[s \ {Pick(s)}]]
  <2>1. it = [s \in SUBSET S |-> it[s]]
    OBVIOUS
  <2> HIDE DEF it
  <2> QED
    BY <1>4, <2>1
<1> HIDE DEF it
<1> QED
  BY <1>5 DEF Sums

\* Whatever sums the subsets of a set one element at a time says the same of each of them.
LEMMA TotalUnique ==
    ASSUME NEW f, NEW g, NEW S, IsFiniteSet(S), \A x \in S : f[x] = g[x], NEW i, NEW j,
           \A s \in SUBSET S : Summed(f, s, i) /\ Summed(g, s, j)
    PROVE  i[S] = j[S]
<1> DEFINE X == {n \in Nat : \A s \in SUBSET S : Cardinality(s) = n => i[s] = j[s]}
<1>1. ASSUME NEW n \in Nat, \A m \in Nat : m < n => m \in X
      PROVE  n \in X
  <2>1. ASSUME NEW s \in SUBSET S, Cardinality(s) = n
        PROVE  i[s] = j[s]
    <3>1. CASE s = {}
      BY <3>1 DEF Summed
    <3>2. CASE s # {}
      <4>1. /\ Pick(s) \in S /\ s \ {Pick(s)} \in SUBSET S
            /\ Cardinality(s \ {Pick(s)}) \in Nat /\ Cardinality(s \ {Pick(s)}) < n
        BY <2>1, <3>2, SubsetsCount
      <4>2. i[s \ {Pick(s)}] = j[s \ {Pick(s)}]
        BY <1>1, <4>1
      <4> QED
        BY <3>2, <4>1, <4>2 DEF Summed
    <3> QED
      BY <3>1, <3>2
  <2> QED
    BY <2>1
<1>2. Cardinality(S) \in X
  <2>1. X \in SUBSET Nat
    OBVIOUS
  <2>2. \A n \in Nat : (\A m \in Nat : m < n => m \in X) => n \in X
    BY <1>1
  <2> HIDE DEF X
  <2> QED
    BY <2>1, <2>2, EveryNumber, FS_CardinalityType
<1> QED
  BY <1>2

LEMMA TotalSums ==
    ASSUME NEW f, NEW S, IsFiniteSet(S)
    PROVE  \E it : (\A s \in SUBSET S : Summed(f, s, it)) /\ Total(f, S) = it[S]
<1> DEFINE it == CHOOSE it : Sums(f, S, it)
<1>1. Sums(f, S, it)
  BY TotalExists
<1>2. Total(f, S) = it[S]
  BY DEF Total
<1> HIDE DEF it
<1>3. ASSUME NEW s \in SUBSET S
      PROVE  Summed(f, s, it)
  BY <1>1 DEF Sums, Summed
<1> QED
  BY <1>2, <1>3

LEMMA TotalSame ==
    ASSUME NEW f, NEW g, NEW S, IsFiniteSet(S), \A x \in S : f[x] = g[x]
    PROVE  Total(f, S) = Total(g, S)
<1>1. PICK i : (\A s \in SUBSET S : Summed(f, s, i)) /\ Total(f, S) = i[S]
  BY TotalSums
<1>2. PICK j : (\A s \in SUBSET S : Summed(g, s, j)) /\ Total(g, S) = j[S]
  BY TotalSums
<1> QED
  BY <1>1, <1>2, TotalUnique

\* The sum over a set is its first element's value and the sum over the rest.
LEMMA TotalFirst ==
    ASSUME NEW f, NEW S, IsFiniteSet(S)
    PROVE  Total(f, S) = IF S = {} THEN 0 ELSE f[Pick(S)] + Total(f, S \ {Pick(S)})
<1>1. PICK i : (\A s \in SUBSET S : Summed(f, s, i)) /\ Total(f, S) = i[S]
  BY TotalSums
<1>2. CASE S = {}
  BY <1>1, <1>2 DEF Summed
<1>3. CASE S # {}
  <2> DEFINE R == S \ {Pick(S)}
  <2>1. IsFiniteSet(R) /\ R \in SUBSET S
    BY <1>3, SubsetsCount, FS_Subset
  <2>2. PICK j : (\A s \in SUBSET R : Summed(f, s, j)) /\ Total(f, R) = j[R]
    <3> HIDE DEF R
    <3> QED
      BY <2>1, TotalSums
  <2>3. \A s \in SUBSET R : Summed(f, s, i)
    BY <1>1, <2>1
  <2>4. i[R] = j[R]
    <3> HIDE DEF R
    <3> QED
      BY <2>1, <2>2, <2>3, TotalUnique
  <2> QED
    BY <1>1, <1>3, <2>2, <2>4 DEF Summed
<1> QED
  BY <1>2, <1>3

LEMMA TotalType ==
    ASSUME NEW f, NEW S, IsFiniteSet(S), \A x \in S : f[x] \in Nat
    PROVE  Total(f, S) \in Nat
<1> DEFINE X == {n \in Nat : \A s \in SUBSET S : Cardinality(s) = n => Total(f, s) \in Nat}
<1>1. ASSUME NEW n \in Nat, \A m \in Nat : m < n => m \in X
      PROVE  n \in X
  <2>1. ASSUME NEW s \in SUBSET S, Cardinality(s) = n
        PROVE  Total(f, s) \in Nat
    <3>1. CASE s = {}
      <4>1. Total(f, {}) = 0
        BY TotalFirst, FS_EmptySet
      <4> QED
        BY <3>1, <4>1
    <3>2. CASE s # {}
      <4>1. /\ Pick(s) \in S /\ s \ {Pick(s)} \in SUBSET S /\ IsFiniteSet(s)
            /\ Cardinality(s \ {Pick(s)}) \in Nat /\ Cardinality(s \ {Pick(s)}) < n
        BY <2>1, <3>2, SubsetsCount
      <4>2. Total(f, s \ {Pick(s)}) \in Nat
        BY <1>1, <4>1
      <4>3. Total(f, s) = f[Pick(s)] + Total(f, s \ {Pick(s)})
        BY <3>2, <4>1, TotalFirst
      <4> QED
        BY <4>1, <4>2, <4>3
    <3> QED
      BY <3>1, <3>2
  <2> QED
    BY <2>1
<1>2. Cardinality(S) \in X
  <2>1. X \in SUBSET Nat
    OBVIOUS
  <2>2. \A n \in Nat : (\A m \in Nat : m < n => m \in X) => n \in X
    BY <1>1
  <2> HIDE DEF X
  <2> QED
    BY <2>1, <2>2, EveryNumber, FS_CardinalityType
<1> QED
  BY <1>2

\* ... and of any other of its elements and the rest.
LEMMA TotalWithout ==
    ASSUME NEW f, NEW S, IsFiniteSet(S), \A x \in S : f[x] \in Nat, NEW x \in S
    PROVE  Total(f, S) = f[x] + Total(f, S \ {x})
<1> DEFINE T(s, y) == Total(f, s) = f[y] + Total(f, s \ {y})
           X == {n \in Nat : \A s \in SUBSET S : Cardinality(s) = n => \A y \in s : T(s, y)}
<1>1. ASSUME NEW n \in Nat, \A m \in Nat : m < n => m \in X
      PROVE  n \in X
  <2>1. ASSUME NEW s \in SUBSET S, Cardinality(s) = n, NEW y \in s
        PROVE  Total(f, s) = f[y] + Total(f, s \ {y})
    <3> DEFINE p == Pick(s)
    <3>1. /\ p \in s /\ s \ {p} \in SUBSET S /\ IsFiniteSet(s)
          /\ Cardinality(s \ {p}) \in Nat /\ Cardinality(s \ {p}) < n
      <4>1. /\ s # {} /\ p \in s /\ s \ {p} \in SUBSET S /\ IsFiniteSet(s)
            /\ Cardinality(s \ {p}) = Cardinality(s) - 1 /\ Cardinality(s) \in Nat \ {0}
        BY <2>1, SubsetsCount
      <4> QED
        BY <2>1, <4>1
    <3>2. Total(f, s) = f[p] + Total(f, s \ {p})
      BY <3>1, TotalFirst
    <3> HIDE DEF p
    <3>3. CASE y = p
      BY <3>2, <3>3
    <3>4. CASE y # p
      <4>1. /\ s \ {y} \in SUBSET S /\ Cardinality(s \ {y}) \in Nat /\ Cardinality(s \ {y}) < n
        BY <2>1, <3>1, Without
      <4>2. Total(f, s \ {p}) = f[y] + Total(f, (s \ {p}) \ {y})
        <5>1. y \in s \ {p} /\ \A z \in s \ {p} : T(s \ {p}, z)
          BY <1>1, <3>1, <3>4
        <5> QED
          BY <5>1
      <4>3. Total(f, s \ {y}) = f[p] + Total(f, (s \ {y}) \ {p})
        <5>1. p \in s \ {y} /\ \A z \in s \ {y} : T(s \ {y}, z)
          BY <1>1, <3>1, <3>4, <4>1
        <5> QED
          BY <5>1
      <4>4. (s \ {y}) \ {p} = (s \ {p}) \ {y}
        OBVIOUS
      <4>5. f[p] \in Nat /\ f[y] \in Nat /\ Total(f, (s \ {p}) \ {y}) \in Nat
        <5>1. IsFiniteSet((s \ {p}) \ {y}) /\ (s \ {p}) \ {y} \subseteq S
          BY <3>1, FS_Subset
        <5> QED
          BY <3>1, <5>1, TotalType
      <4> HIDE DEF T
      <4> QED
        BY <3>2, <4>2, <4>3, <4>4, <4>5
    <3> QED
      BY <3>3, <3>4
  <2> QED
    BY <2>1
<1>2. Cardinality(S) \in X
  <2>1. X \in SUBSET Nat
    OBVIOUS
  <2>2. \A n \in Nat : (\A m \in Nat : m < n => m \in X) => n \in X
    BY <1>1
  <2> HIDE DEF X
  <2> QED
    BY <2>1, <2>2, EveryNumber, FS_CardinalityType
<1> QED
  BY <1>2

LEMMA TotalUnion ==
    ASSUME NEW f, NEW S, IsFiniteSet(S), \A x \in S : f[x] \in Nat, NEW A \in SUBSET S
    PROVE  Total(f, S) = Total(f, A) + Total(f, S \ A)
<1> DEFINE U(B) == Total(f, B \cup (S \ A)) = Total(f, B) + Total(f, S \ A)
           X == {n \in Nat : \A B \in SUBSET A : Cardinality(B) = n => U(B)}
<1>0. IsFiniteSet(A) /\ IsFiniteSet(S \ A)
  BY FS_Subset
<1>1. ASSUME NEW n \in Nat, \A m \in Nat : m < n => m \in X
      PROVE  n \in X
  <2>1. ASSUME NEW B \in SUBSET A, Cardinality(B) = n
        PROVE  Total(f, B \cup (S \ A)) = Total(f, B) + Total(f, S \ A)
    <3>1. CASE B = {}
      <4>1. Total(f, B) = 0 /\ B \cup (S \ A) = S \ A
        BY <3>1, TotalFirst, FS_EmptySet
      <4>2. Total(f, S \ A) \in Nat
        BY <1>0, TotalType
      <4>3. Total(f, B \cup (S \ A)) = Total(f, S \ A)
        BY <4>1
      <4> HIDE DEF U
      <4> QED
        BY <4>1, <4>2, <4>3
    <3>2. CASE B # {}
      <4> DEFINE C == B \cup (S \ A)
                 p == Pick(B)
                 R == B \ {p}
      <4>1. /\ p \in B /\ R \in SUBSET A /\ IsFiniteSet(B)
            /\ Cardinality(R) \in Nat /\ Cardinality(R) < n
        <5>1. IsFiniteSet(B)
          BY <1>0, SubsetsCount
        <5>2. /\ B \in SUBSET B /\ B # {} => /\ p \in B /\ R \in SUBSET B
                                           /\ Cardinality(R) = Cardinality(B) - 1
          BY <5>1, SubsetsCount
        <5>3. Cardinality(B) \in Nat \ {0}
          BY <3>2, <5>1, FS_CardinalityType, FS_EmptySet
        <5> QED
          BY <2>1, <3>2, <5>1, <5>2, <5>3
      <4>2. IsFiniteSet(C) /\ C \subseteq S /\ p \in C /\ C \ {p} = R \cup (S \ A)
        BY <4>1, FS_Subset
      <4>3. Total(f, R \cup (S \ A)) = Total(f, R) + Total(f, S \ A)
        <5>1. \A D \in SUBSET A : Cardinality(D) = Cardinality(R) => U(D)
          BY <1>1, <4>1
        <5> QED
          BY <4>1, <5>1
      <4>4. Total(f, C) = f[p] + Total(f, C \ {p}) /\ Total(f, B) = f[p] + Total(f, R)
        <5> HIDE DEF C, p
        <5>1. (\A x \in C : f[x] \in Nat) /\ (\A x \in B : f[x] \in Nat)
          BY <4>2
        <5> QED
          BY <4>1, <4>2, <5>1, TotalWithout
      <4>5. f[p] \in Nat /\ Total(f, R) \in Nat /\ Total(f, S \ A) \in Nat
        <5>1. IsFiniteSet(R) /\ R \subseteq S
          BY <4>1, FS_Subset
        <5> HIDE DEF R, p
        <5> QED
          BY <1>0, <4>1, <5>1, TotalType
      <4> HIDE DEF C, p, R, U
      <4>6. Total(f, C) = Total(f, B) + Total(f, S \ A)
        <5>1. Total(f, C \ {p}) = Total(f, R) + Total(f, S \ A)
          BY <4>2, <4>3
        <5> QED
          BY <4>4, <4>5, <5>1
      <4> QED
        BY <4>6 DEF C
    <3> QED
      BY <3>1, <3>2
  <2> QED
    BY <2>1
<1>2. Cardinality(A) \in X
  <2>1. X \in SUBSET Nat
    OBVIOUS
  <2>2. \A n \in Nat : (\A m \in Nat : m < n => m \in X) => n \in X
    BY <1>1
  <2> HIDE DEF X
  <2> QED
    BY <1>0, <2>1, <2>2, EveryNumber, FS_CardinalityType
<1>3. U(A)
  BY <1>2
<1>4. A \cup (S \ A) = S
  OBVIOUS
<1> QED
  BY <1>3, <1>4

LEMMA TotalMonotone ==
    ASSUME NEW f, NEW S, IsFiniteSet(S), \A x \in S : f[x] \in Nat, NEW A \in SUBSET S
    PROVE  /\ Total(f, A) \in Nat /\ Total(f, S) \in Nat /\ Total(f, A) <= Total(f, S)
<1>1. IsFiniteSet(A) /\ IsFiniteSet(S \ A)
  BY FS_Subset
<1>2. Total(f, A) \in Nat /\ Total(f, S \ A) \in Nat
  BY <1>1, TotalType
<1> QED
  BY <1>2, TotalUnion

LEMMA TotalZero ==
    ASSUME NEW f, NEW S, IsFiniteSet(S), \A x \in S : f[x] = 0
    PROVE  Total(f, S) = 0
<1> DEFINE X == {n \in Nat : \A s \in SUBSET S : Cardinality(s) = n => Total(f, s) = 0}
<1>1. ASSUME NEW n \in Nat, \A m \in Nat : m < n => m \in X
      PROVE  n \in X
  <2>1. ASSUME NEW s \in SUBSET S, Cardinality(s) = n
        PROVE  Total(f, s) = 0
    <3>1. CASE s = {}
      <4>1. Total(f, {}) = 0
        BY TotalFirst, FS_EmptySet
      <4> QED
        BY <3>1, <4>1
    <3>2. CASE s # {}
      <4>1. /\ Pick(s) \in S /\ s \ {Pick(s)} \in SUBSET S /\ IsFiniteSet(s)
            /\ Cardinality(s \ {Pick(s)}) \in Nat /\ Cardinality(s \ {Pick(s)}) < n
        BY <2>1, <3>2, SubsetsCount
      <4>2. Total(f, s \ {Pick(s)}) = 0
        BY <1>1, <4>1
      <4>3. Total(f, s) = f[Pick(s)] + Total(f, s \ {Pick(s)})
        BY <3>2, <4>1, TotalFirst
      <4> QED
        BY <4>1, <4>2, <4>3
    <3> QED
      BY <3>1, <3>2
  <2> QED
    BY <2>1
<1>2. Cardinality(S) \in X
  <2>1. X \in SUBSET Nat
    OBVIOUS
  <2>2. \A n \in Nat : (\A m \in Nat : m < n => m \in X) => n \in X
    BY <1>1
  <2> HIDE DEF X
  <2> QED
    BY <2>1, <2>2, EveryNumber, FS_CardinalityType
<1> QED
  BY <1>2

\* Where one value is another one, the sum differs by as much.
LEMMA TotalChanged ==
    ASSUME NEW f, NEW g, NEW S, IsFiniteSet(S), \A y \in S : f[y] \in Nat /\ g[y] \in Nat, NEW x,
           \A y \in S \ {x} : f[y] = g[y]
    PROVE  /\ x \notin S => Total(g, S) = Total(f, S)
           /\ x \in S => Total(g, S) + f[x] = Total(f, S) + g[x]
<1>1. CASE x \notin S
  BY <1>1, TotalSame
<1>2. CASE x \in S
  <2>1. IsFiniteSet(S \ {x})
    BY FS_Subset
  <2>2. Total(f, S \ {x}) = Total(g, S \ {x}) /\ Total(f, S \ {x}) \in Nat
    BY <2>1, TotalSame, TotalType
  <2>3. Total(f, S) = f[x] + Total(f, S \ {x}) /\ Total(g, S) = g[x] + Total(g, S \ {x})
    BY <1>2, TotalWithout
  <2> QED
    BY <1>2, <2>2, <2>3
<1> QED
  BY <1>1, <1>2

\* The elements of a sequence that are in a set, as SelectSeq collects them one after the other.
PickedNext(q, P, F, i) == IF i = 0 THEN <<>> ELSE IF q[i] \in P THEN Append(F[i - 1], q[i]) ELSE F[i - 1]
Picked(q, P, F) == \A i \in 0 .. Len(q) : F[i] = PickedNext(q, P, F, i)

LEMMA PickedExists ==
    ASSUME NEW E, NEW q \in Seq(E), NEW P
    PROVE  \E F : F = [i \in 0 .. Len(q) |-> PickedNext(q, P, F, i)]
<1> DEFINE D(n) == \E F : \A i \in 0 .. n : i <= Len(q) => F[i] = PickedNext(q, P, F, i)
           X == {n \in Nat : D(n)}
<1>1. ASSUME NEW n \in Nat, \A m \in Nat : m < n => m \in X
      PROVE  n \in X
  <2>1. CASE n = 0
    <3> DEFINE G == [i \in {0} |-> <<>>]
    <3>1. \A i \in 0 .. n : i <= Len(q) => G[i] = PickedNext(q, P, G, i)
      BY <2>1 DEF PickedNext
    <3> HIDE DEF G
    <3> QED
      BY <3>1
  <2>2. CASE n # 0
    <3>1. n - 1 \in X
      <4>1. n - 1 \in Nat /\ n - 1 < n
        BY <2>2
      <4> QED
        BY <1>1, <4>1
    <3>2. PICK F : \A i \in 0 .. n - 1 : i <= Len(q) => F[i] = PickedNext(q, P, F, i)
      BY <3>1
    <3> DEFINE G == [i \in 0 .. n |-> IF i = n THEN PickedNext(q, P, F, n) ELSE F[i]]
    <3>3. ASSUME NEW i \in 0 .. n, i <= Len(q)
          PROVE  G[i] = PickedNext(q, P, G, i)
      <4>1. i # 0 => i - 1 \in 0 .. n - 1 /\ G[i - 1] = F[i - 1]
        OBVIOUS
      <4>2. G[i] = PickedNext(q, P, F, i)
        <5>1. CASE i = n
          BY <5>1
        <5>2. CASE i # n
          BY <3>2, <3>3, <5>2
        <5> QED
          BY <5>1, <5>2
      <4> HIDE DEF G
      <4> QED
        BY <4>1, <4>2 DEF PickedNext
    <3> HIDE DEF G
    <3> QED
      BY <3>3
  <2> QED
    BY <2>1, <2>2
<1>2. Len(q) \in X
  <2>1. X \in SUBSET Nat
    OBVIOUS
  <2>2. \A n \in Nat : (\A m \in Nat : m < n => m \in X) => n \in X
    BY <1>1
  <2> HIDE DEF X
  <2> QED
    BY <2>1, <2>2, EveryNumber
<1>3. PICK F : \A i \in 0 .. Len(q) : i <= Len(q) => F[i] = PickedNext(q, P, F, i)
  BY <1>2
<1> DEFINE G == [i \in 0 .. Len(q) |-> F[i]]
<1>4. ASSUME NEW i \in 0 .. Len(q)
      PROVE  G[i] = PickedNext(q, P, G, i)
  <2>1. i # 0 => i - 1 \in 0 .. Len(q) /\ G[i - 1] = F[i - 1]
    OBVIOUS
  <2>2. G[i] = PickedNext(q, P, F, i)
    BY <1>3
  <2> HIDE DEF G
  <2> QED
    BY <2>1, <2>2 DEF PickedNext
<1>5. G = [i \in 0 .. Len(q) |-> PickedNext(q, P, G, i)]
  <2>1. G = [i \in 0 .. Len(q) |-> G[i]]
    OBVIOUS
  <2> HIDE DEF G
  <2> QED
    BY <1>4, <2>1
<1> HIDE DEF G
<1> QED
  BY <1>5

\* Where the elements that are picked stand in the sequence: in the same order.
Places(q, P, t, i) ==
    {pos \in [1 .. Len(t) -> 1 .. i] :
        /\ \A j \in 1 .. Len(t) : t[j] = q[pos[j]] /\ t[j] \in P
        /\ \A j, k \in 1 .. Len(t) : j < k => pos[j] < pos[k]}

LEMMA PickedPlaces ==
    ASSUME NEW E, NEW q \in Seq(E), NEW P, NEW F, Picked(q, P, F)
    PROVE  \A i \in 0 .. Len(q) : /\ F[i] \in Seq(E) /\ Places(q, P, F[i], i) # {}
                                  /\ Len(F[i]) <= i
<1> DEFINE D(i) == /\ F[i] \in Seq(E) /\ Places(q, P, F[i], i) # {}
                   /\ Len(F[i]) <= i
           X == {n \in Nat : n <= Len(q) => D(n)}
<1>1. ASSUME NEW n \in Nat, \A m \in Nat : m < n => m \in X
      PROVE  n \in X
  <2> SUFFICES ASSUME n <= Len(q) PROVE D(n)
    OBVIOUS
  <2>0. F[n] = PickedNext(q, P, F, n)
    BY DEF Picked
  <2>1. CASE n = 0
    <3>1. F[n] = <<>>
      BY <2>0, <2>1 DEF PickedNext
    <3>2. [j \in {} |-> 1] \in Places(q, P, <<>>, n)
      BY DEF Places
    <3>3. Places(q, P, F[n], n) # {}
      BY <3>1, <3>2
    <3> HIDE DEF Places
    <3> QED
      BY <3>1, <3>3, <2>1
  <2>2. CASE n # 0
    <3> DEFINE t == F[n - 1]
    <3>1. /\ t \in Seq(E) /\ Len(t) <= n - 1 /\ Len(t) \in Nat
          /\ Places(q, P, t, n - 1) # {} /\ q[n] \in E
      <4>1. n - 1 \in Nat /\ n - 1 < n /\ n - 1 <= Len(q)
        BY <2>2
      <4>2. D(n - 1)
        BY <1>1, <4>1
      <4>3. q[n] \in E
        BY <2>2
      <4> QED
        BY <4>2, <4>3
    <3> HIDE DEF t
    <3>2. PICK pos \in [1 .. Len(t) -> 1 .. n - 1] :
              /\ \A j \in 1 .. Len(t) : t[j] = q[pos[j]] /\ t[j] \in P
              /\ \A j, k \in 1 .. Len(t) : j < k => pos[j] < pos[k]
      BY <3>1 DEF Places
    <3>3. CASE q[n] \in P
      <4>1. F[n] = Append(t, q[n])
        BY <2>0, <2>2, <3>3 DEF PickedNext, t
      <4> DEFINE u == Append(t, q[n])
                 new == [j \in 1 .. Len(t) + 1 |-> IF j <= Len(t) THEN pos[j] ELSE n]
      <4>2. /\ u \in Seq(E) /\ Len(u) = Len(t) + 1 /\ u[Len(t) + 1] = q[n]
            /\ \A j \in 1 .. Len(t) : u[j] = t[j]
        BY <3>1
      <4>3. /\ new \in [1 .. Len(t) + 1 -> 1 .. n] /\ new[Len(t) + 1] = n
            /\ \A j \in 1 .. Len(t) : new[j] = pos[j] /\ new[j] < n
        <5>1. /\ Len(t) + 1 \in Nat /\ n \in 1 .. n /\ (1 .. n - 1) \subseteq (1 .. n)
              /\ \A j \in 1 .. Len(t) : pos[j] \in 1 .. n - 1 /\ pos[j] < n
          <6>1. \A j \in 1 .. Len(t) : pos[j] \in 1 .. n - 1
            BY <3>2
          <6>2. \A m \in 1 .. n - 1 : m < n
            BY <2>2
          <6> QED
            BY <2>2, <3>1, <6>1, <6>2
        <5>2. \A j \in 1 .. Len(t) + 1 : new[j] \in 1 .. n
          BY <3>1, <5>1
        <5> QED
          BY <3>1, <5>1, <5>2
      <4> HIDE DEF u, new
      <4>4. ASSUME NEW j \in 1 .. Len(u)
            PROVE  u[j] = q[new[j]] /\ u[j] \in P
        <5>1. CASE j \in 1 .. Len(t)
          BY <3>2, <4>2, <4>3, <5>1
        <5>2. CASE j = Len(t) + 1
          BY <3>3, <4>2, <4>3, <5>2
        <5> QED
          BY <3>1, <4>2, <5>1, <5>2
      <4>5. ASSUME NEW j \in 1 .. Len(u), NEW k \in 1 .. Len(u), j < k
            PROVE  new[j] < new[k]
        <5>1. j \in 1 .. Len(t) /\ (k \in 1 .. Len(t) \/ k = Len(t) + 1)
          BY <3>1, <4>2, <4>5
        <5> QED
          BY <3>2, <4>3, <4>5, <5>1
      <4>6. new \in Places(q, P, u, n)
        BY <4>2, <4>3, <4>4, <4>5 DEF Places
      <4>7. Places(q, P, F[n], n) # {}
        BY <4>1, <4>6 DEF u
      <4>9. F[n] \in Seq(E) /\ Len(F[n]) = Len(t) + 1
        BY <4>1, <4>2 DEF u
      <4>8. Len(t) + 1 <= n
        BY <3>1
      <4> QED
        BY <4>7, <4>8, <4>9
    <3>4. CASE q[n] \notin P
      <4>1. F[n] = t
        BY <2>0, <2>2, <3>4 DEF PickedNext, t
      <4>2. pos \in Places(q, P, t, n)
        BY <3>2 DEF Places
      <4>3. Places(q, P, F[n], n) # {}
        BY <4>1, <4>2
      <4> QED
        BY <3>1, <4>1, <4>3
    <3> QED
      BY <3>3, <3>4
  <2> QED
    BY <2>1, <2>2
<1>2. X \in SUBSET Nat
  OBVIOUS
<1>3. \A n \in Nat : (\A m \in Nat : m < n => m \in X) => n \in X
  BY <1>1
<1>4. \A n \in Nat : n \in X
  <2> HIDE DEF X
  <2> QED
    BY <1>2, <1>3, EveryNumber
<1> QED
  BY <1>4

-----------------------------------------------------------------------------
(* Delegation: a record is given by a word of its own tenant, and by a user  *)
(* only for what is his.                                                     *)

Given(r, o) ==
    /\ r \in Delegated!Records
    /\ r.by.tenant = r.tenant
    /\ r.by.role = "user" => r.by.user = o

GivenInv ==
    /\ now \in 0 .. DelegationTime
    /\ DOMAIN delegation = Users /\ delegation = [o \in Users |-> delegation[o]]
    /\ \A o \in Users : delegation[o] # Delegated!NoDelegation => Given(delegation[o], o)

LEMMA GivenTyped == GivenInv => Delegated!TypeOK
<1> SUFFICES ASSUME GivenInv PROVE Delegated!TypeOK
  OBVIOUS
<1>1. \A o \in Users : delegation[o] \in Delegated!Records \cup {Delegated!NoDelegation}
  BY DEF GivenInv, Given
<1> QED
  BY <1>1 DEF GivenInv, Delegated!TypeOK

LEMMA GivenAgain ==
    ASSUME GivenInv, NEW o \in Users, NEW r, Given(r, o), now' = now,
           delegation' = [delegation EXCEPT ![o] = r]
    PROVE  /\ GivenInv' /\ delegation'[o] = r
           /\ \A u \in Users \ {o} : delegation'[u] = delegation[u]
<1>1. /\ DOMAIN delegation' = Users /\ delegation'[o] = r
      /\ delegation' = [u \in Users |-> delegation'[u]]
      /\ \A u \in Users \ {o} : delegation'[u] = delegation[u]
  BY DEF GivenInv
<1>2. ASSUME NEW u \in Users, delegation'[u] # Delegated!NoDelegation
      PROVE  Given(delegation'[u], u)
  BY <1>1, <1>2 DEF GivenInv
<1> QED
  BY <1>1, <1>2 DEF GivenInv

LEMMA DelegationStep ==
    ASSUME GivenInv, Delegated!Next
    PROVE  GivenInv' /\ Delegated!GrantSteps
<1> USE SuiteAssumption
<1>1. CASE Delegated!Tick
  <2>1. /\ delegation' = delegation /\ now' = now + 1 /\ now' \in 0 .. DelegationTime
    BY <1>1 DEF Delegated!Tick, GivenInv
  <2>2. GivenInv'
    BY <2>1 DEF GivenInv
  <2>3. ASSUME NEW o \in Users, delegation[o] # Delegated!NoDelegation,
               delegation[o].expiresAt # Never, delegation[o].expiresAt <= now
        PROVE  delegation[o].expiresAt <= now'
    <3>1. delegation[o].expiresAt \in 0 .. DelegationTime
      BY <2>3 DEF GivenInv, Given, Delegated!Records
    <3> QED
      BY <2>1, <2>3, <3>1 DEF GivenInv
  <2> QED
    BY <2>1, <2>2, <2>3 DEF Delegated!GrantSteps, Delegated!Active, Delegated!Expired
<1>2. ASSUME NEW a \in Delegated!Actors, NEW o \in Users, Delegated!Revoke(a, o)
      PROVE  GivenInv' /\ Delegated!GrantSteps
  <2>1. /\ Delegated!MayManage(a, o) /\ Delegated!Active(o) /\ delegation[o].tenant = a.tenant
        /\ delegation[o].forced => a.role # "user"
        /\ now' = now
        /\ delegation' = [delegation EXCEPT ![o].expiresAt = now, ![o].by = a]
    BY <1>2 DEF Delegated!Revoke, Delegated!MayChange
  <2>2. Given(delegation[o], o) /\ now \in 0 .. DelegationTime
    BY <2>1 DEF GivenInv, Delegated!Active
  <2> DEFINE r == [delegation[o] EXCEPT !.expiresAt = now, !.by = a]
  <2>3. Given(r, o) /\ r.by = a
    BY <2>1, <2>2 DEF Given, Delegated!Records, Delegated!Actors, Delegated!MayManage
  <2>4. delegation' = [delegation EXCEPT ![o] = r]
    BY <2>1 DEF GivenInv
  <2> HIDE DEF r
  <2>5. /\ GivenInv' /\ delegation'[o] = r
        /\ \A u \in Users \ {o} : delegation'[u] = delegation[u]
    BY <2>1, <2>3, <2>4, GivenAgain
  <2>6. Delegated!GrantSteps
    BY <2>1, <2>3, <2>5 DEF Delegated!GrantSteps, Delegated!MayManage, Delegated!Active,
                         Delegated!Expired
  <2> QED
    BY <2>5, <2>6
<1>3. ASSUME NEW a \in Delegated!Actors, NEW o \in Users, NEW d \in Users,
             NEW ps \in (SUBSET Delegated!Permissions) \ {{}},
             NEW x \in 0 .. DelegationTime \cup {Never}, Delegated!Create(a, o, d, ps, x)
      PROVE  GivenInv' /\ Delegated!GrantSteps
  <2> DEFINE r == [tenant |-> a.tenant, delegate |-> d, permissions |-> ps,
                   forced |-> a.role = "tenant_master", createdAt |-> now, expiresAt |-> x,
                   by |-> a]
  <2>1. /\ Delegated!MayManage(a, o) /\ ~Delegated!Active(o) /\ now' = now
        /\ delegation' = [delegation EXCEPT ![o] = r]
    BY <1>3 DEF Delegated!Create
  <2>2. a.tenant \in Tenants /\ now \in 0 .. DelegationTime
    BY DEF GivenInv, Delegated!Actors, Delegated!UserActors, Delegated!AdminActors
  <2>3. Given(r, o) /\ r.createdAt = now
    BY <2>1, <2>2 DEF Given, Delegated!Records, Delegated!Actors, Delegated!MayManage
  <2> HIDE DEF r
  <2>4. /\ GivenInv' /\ delegation'[o] = r
        /\ \A u \in Users \ {o} : delegation'[u] = delegation[u]
    BY <2>1, <2>3, GivenAgain
  <2>5. Delegated!GrantSteps
    BY <2>1, <2>3, <2>4 DEF Delegated!GrantSteps, Delegated!Active, Delegated!Expired
  <2> QED
    BY <2>4, <2>5
<1>4. ASSUME NEW a \in Delegated!Actors, NEW o \in Users, NEW d \in Users,
             NEW ps \in (SUBSET Delegated!Permissions) \ {{}},
             NEW x \in 0 .. DelegationTime \cup {Never}, Delegated!Update(a, o, d, ps, x)
      PROVE  GivenInv' /\ Delegated!GrantSteps
  <2>1. /\ Delegated!MayManage(a, o) /\ Delegated!Active(o) /\ delegation[o].tenant = a.tenant
        /\ delegation[o].forced => a.role # "user"
        /\ now' = now
        /\ delegation' = [delegation EXCEPT ![o].delegate = d, ![o].permissions = ps,
                                            ![o].expiresAt = x, ![o].by = a]
    BY <1>4 DEF Delegated!Update, Delegated!MayChange
  <2>2. Given(delegation[o], o) /\ now \in 0 .. DelegationTime
    BY <2>1 DEF GivenInv, Delegated!Active
  <2> DEFINE r == [delegation[o] EXCEPT !.delegate = d, !.permissions = ps, !.expiresAt = x,
                                        !.by = a]
  <2>3. Given(r, o) /\ r.by = a
    BY <2>1, <2>2 DEF Given, Delegated!Records, Delegated!Actors, Delegated!MayManage
  <2>4. delegation' = [delegation EXCEPT ![o] = r]
    BY <2>1 DEF GivenInv
  <2> HIDE DEF r
  <2>5. /\ GivenInv' /\ delegation'[o] = r
        /\ \A u \in Users \ {o} : delegation'[u] = delegation[u]
    BY <2>1, <2>3, <2>4, GivenAgain
  <2>6. Delegated!GrantSteps
    BY <2>1, <2>3, <2>5 DEF Delegated!GrantSteps, Delegated!MayManage, Delegated!Active,
                         Delegated!Expired
  <2> QED
    BY <2>5, <2>6
<1> QED
  BY <1>1, <1>2, <1>3, <1>4 DEF Delegated!Next

\* Who reaches what another stored is the delegate of an active record of his own tenant.
LEMMA OneOutsider == GivenInv => Delegated!OneOutsiderAtMost
<1> SUFFICES ASSUME GivenInv PROVE Delegated!OneOutsiderAtMost
  OBVIOUS
<1>1. ASSUME NEW a \in Delegated!Actors, NEW o \in Users, a.user # o,
             Delegated!Reads(a, o) \/ Delegated!Writes(a, o)
      PROVE  /\ a.role = "user" /\ Delegated!Active(o) /\ Given(delegation[o], o)
             /\ delegation[o].tenant = a.tenant /\ delegation[o].delegate = a.user
  <2>1. ASSUME NEW permission \in {"content.read", "content.write"}, NEW lent \in BOOLEAN,
               Delegated!Authorized(a, Delegated!Request(permission, a.tenant, o, TRUE), lent)
        PROVE  a.role = "user" /\ lent
    BY <1>1, <2>1, SuiteAssumption
       DEF Delegated!Authorized, Delegated!Request, Delegated!AsksForContent
  <2>2. \A p : Delegated!CanAccess(a, o, p) \in BOOLEAN
    BY DEF Delegated!CanAccess, Delegated!Active, Delegated!Expired
  <2>3. \E p : a.role = "user" /\ Delegated!CanAccess(a, o, p)
    BY <1>1, <2>1, <2>2 DEF Delegated!Reads, Delegated!Writes
  <2> QED
    BY <2>3 DEF GivenInv, Delegated!CanAccess, Delegated!Active
<1>2. ASSUME NEW a \in Delegated!Actors, NEW b \in Delegated!Actors, NEW o \in Users,
             Delegated!Reads(a, o), Delegated!Writes(b, o), o \notin {a.user, b.user}
      PROVE  a = b
  <2>1. /\ a.role = "user" /\ b.role = "user" /\ a.tenant = b.tenant /\ a.user = b.user
    BY <1>1, <1>2
  <2>2. a \in Delegated!UserActors /\ b \in Delegated!UserActors
    BY <2>1 DEF Delegated!Actors, Delegated!AdminActors, Delegated!AdminRoles
  <2> QED
    BY <2>1, <2>2 DEF Delegated!UserActors
<1> QED
  BY <1>1, <1>2 DEF Delegated!OneOutsiderAtMost, Delegated!Active, Given

-----------------------------------------------------------------------------
(* The quota ledger: the books balance, and every number that stands for a   *)
(* reservation is a user's.                                                  *)

LEMMA QuotaStep == ASSUME Quota!TypeOK, Quota!Next PROVE Quota!TypeOK'
<1> USE Settings DEF Quota!TypeOK, Quota!Bytes
<1>1. ASSUME NEW u \in Users, NEW bytes \in Quota!Bytes, Quota!Set(u, bytes),
             UNCHANGED <<usage, reservation, initial>>
      PROVE  Quota!TypeOK'
  BY <1>1 DEF Quota!Set
<1>2. ASSUME NEW u \in Users, NEW size \in Quota!Bytes, Quota!Reserve(u, size)
      PROVE  Quota!TypeOK'
  <2> DEFINE r == [user |-> u, size |-> size, released |-> FALSE]
             n == Quota!Min(Quota!Numbers \ Quota!Made)
  <2>1. n \in Quota!Numbers
    <3>1. Quota!Numbers \ Quota!Made # {} /\ Quota!Numbers \ Quota!Made \in SUBSET Nat
      <4>1. Quota!Made # Quota!Numbers
        BY <1>2 DEF Quota!Reserve
      <4> QED
        BY <4>1 DEF Quota!Made, Quota!Numbers
    <3> QED
      BY <3>1, LeastNumber DEF Quota!Min
  <2> HIDE DEF n
  <2>2. /\ usage' = [usage EXCEPT ![u] = @ + size] /\ UNCHANGED <<allocation, initial>>
        /\ reservation' = [reservation EXCEPT ![n] = r]
    BY <1>2 DEF Quota!Reserve, n
  <2> QED
    BY <2>1, <2>2
<1>3. ASSUME NEW n \in Quota!Numbers, Quota!Release(n)
      PROVE  Quota!TypeOK'
  <2> DEFINE r == reservation[n]
             left == IF usage[r.user] < r.size THEN 0 ELSE usage[r.user] - r.size
             over == [r EXCEPT !.released = TRUE]
  <2>1. r.user \in Users => left \in Nat
    OBVIOUS
  <2>2. over \in [user : Users \cup {NoUser}, size : 0 .. GrossQuota, released : BOOLEAN]
    OBVIOUS
  <2>3. /\ usage' = [usage EXCEPT ![r.user] = left] /\ UNCHANGED <<allocation, initial>>
        /\ reservation' = [reservation EXCEPT ![n] = over]
    BY <1>3 DEF Quota!Release
  <2> HIDE DEF r, left, over
  <2> QED
    BY <2>1, <2>2, <2>3
<1> QED
  BY <1>1, <1>2, <1>3 DEF Quota!Next, Quota!RegisterUser, Quota!Allocate

Sizes == [n \in Quota!Numbers |-> reservation[n].size]

KnownOf(S) == {u \in S : Quota!Known(u)}

Balanced ==
    /\ Total(allocation, KnownOf(Users)) <= GrossQuota
    /\ \A u \in Users : /\ usage[u] = initial[u] + Total(Sizes, Quota!Open(u))
                        /\ usage[u] <= IF Quota!Known(u) THEN allocation[u] ELSE 0

QuotaInv ==
    /\ Quota!TypeOK /\ Balanced
    /\ \A n \in Quota!Made : reservation[n].user \in Users

LEMMA QuotaSets ==
    ASSUME Quota!TypeOK
    PROVE  /\ IsFiniteSet(Quota!Numbers) /\ IsFiniteSet(Quota!Made)
           /\ \A u : IsFiniteSet(Quota!Open(u)) /\ Quota!Open(u) \subseteq Quota!Numbers
           /\ \A n \in Quota!Numbers : Sizes[n] = reservation[n].size /\ Sizes[n] \in Nat
           /\ \A S \in SUBSET Users : IsFiniteSet(S) /\ IsFiniteSet(KnownOf(S))
           /\ \A u \in KnownOf(Users) : allocation[u] \in 0 .. GrossQuota
           /\ GrossQuota \in Nat
<1>1. IsFiniteSet(Quota!Numbers) /\ GrossQuota \in Nat
  BY Settings, FS_Interval DEF Quota!Numbers
<1>2. IsFiniteSet(Quota!Made) /\ \A u : IsFiniteSet(Quota!Open(u)) /\ Quota!Open(u) \subseteq Quota!Numbers
  <2>1. Quota!Made \subseteq Quota!Numbers /\ \A u : Quota!Open(u) \subseteq Quota!Numbers
    BY DEF Quota!Made, Quota!Open
  <2> QED
    BY <1>1, <2>1, FS_Subset
<1>3. \A n \in Quota!Numbers : Sizes[n] = reservation[n].size /\ Sizes[n] \in Nat
  BY <1>1 DEF Quota!TypeOK, Sizes, Quota!Bytes
<1>4. \A S \in SUBSET Users : IsFiniteSet(S) /\ IsFiniteSet(KnownOf(S))
  <2>1. IsFiniteSet(Users)
    BY SuiteAssumption
  <2>2. \A S \in SUBSET Users : KnownOf(S) \subseteq Users
    BY DEF KnownOf
  <2> QED
    BY <2>1, <2>2, FS_Subset
<1>5. \A u \in KnownOf(Users) : allocation[u] \in 0 .. GrossQuota
  BY <1>1 DEF KnownOf, Quota!TypeOK, Quota!Known, Quota!Bytes
<1> QED
  BY <1>1, <1>2, <1>3, <1>4, <1>5

LEMMA AllocatedTotal == \A S : Quota!Allocated(S) = Total(allocation, KnownOf(S))
BY DEF Quota!Allocated, Quota!MapThenSumSet, Quota!MapThenFoldSet, Total, Sums, Pick, KnownOf

LEMMA ReservedTotal ==
    ASSUME NEW S \in SUBSET Quota!Numbers, IsFiniteSet(S)
    PROVE  Quota!MapThenSumSet(LAMBDA n : reservation[n].size, S) = Total(Sizes, S)
<1> DEFINE It(g) == g = [s \in SUBSET S |-> IF s = {} THEN 0
                                            ELSE reservation[Pick(s)].size + g[s \ {Pick(s)}]]
           j == CHOOSE g : It(g)
<1>1. PICK i : (\A s \in SUBSET S : Summed(Sizes, s, i)) /\ Total(Sizes, S) = i[S]
  BY TotalSums
<1>2. \E g : It(g)
  <2>1. PICK g : Sums(Sizes, S, g)
    BY TotalExists
  <2>2. \A s \in SUBSET S : s # {} => Sizes[Pick(s)] = reservation[Pick(s)].size
    BY DEF Pick, Sizes
  <2>3. g = [s \in SUBSET S |-> IF s = {} THEN 0 ELSE Sizes[Pick(s)] + g[s \ {Pick(s)}]]
    BY <2>1 DEF Sums
  <2>4. It(g)
    BY <2>2, <2>3
  <2> QED
    BY <2>4
<1>3. It(j)
  BY <1>2
<1>4. Quota!MapThenSumSet(LAMBDA n : reservation[n].size, S) = j[S]
  BY DEF Quota!MapThenSumSet, Quota!MapThenFoldSet, Pick
<1> HIDE DEF j
<1>5. \A s \in SUBSET S : Summed(Sizes, s, j)
  <2>1. \A s \in SUBSET S : s # {} => Sizes[Pick(s)] = reservation[Pick(s)].size
    BY DEF Pick, Sizes
  <2> QED
    BY <1>3, <2>1 DEF Summed
<1>6. i[S] = j[S]
  <2>1. \A s \in SUBSET S : Summed(Sizes, s, i) /\ Summed(Sizes, s, j)
    BY <1>1, <1>5
  <2> QED
    BY <2>1, TotalUnique
<1> QED
  BY <1>1, <1>4, <1>6

\* The books by the totals.
LEMMA Balance == Quota!TypeOK => (Quota!BooksBalance <=> Balanced)
<1> SUFFICES ASSUME Quota!TypeOK PROVE Quota!BooksBalance <=> Balanced
  OBVIOUS
<1>1. \A u \in Users : Quota!MapThenSumSet(LAMBDA n : reservation[n].size, Quota!Open(u))
                          = Total(Sizes, Quota!Open(u))
  BY QuotaSets, ReservedTotal
<1> QED
  BY <1>1, AllocatedTotal DEF Quota!BooksBalance, Balanced

LEMMA AllocationStep ==
    ASSUME QuotaInv, NEW u \in Users, NEW bytes \in Quota!Bytes, Quota!Set(u, bytes),
           usage[u] <= bytes, UNCHANGED <<usage, reservation, initial>>, Quota!TypeOK'
    PROVE  QuotaInv'
<1> DEFINE rest == KnownOf(Users \ {u})
<1>1. /\ allocation' \in [Users -> Quota!Bytes \cup {Quota!Unknown}] /\ allocation'[u] = bytes
      /\ \A v \in Users \ {u} : allocation'[v] = allocation[v]
  BY DEF QuotaInv, Quota!TypeOK, Quota!Set
<1>2. Quota!Known(u)' /\ \A v \in Users \ {u} : Quota!Known(v)' <=> Quota!Known(v)
  BY <1>1, Settings DEF Quota!Known, Quota!Unknown, Quota!Bytes
<1>3. KnownOf(Users)' = rest \cup {u} /\ u \notin rest /\ rest \subseteq Users
  BY <1>2 DEF KnownOf
<1>4. IsFiniteSet(rest) /\ IsFiniteSet(rest \cup {u})
  <2>1. IsFiniteSet(rest)
    BY QuotaSets DEF QuotaInv
  <2> HIDE DEF rest
  <2> QED
    BY <2>1, FS_AddElement
<1>5. \A v \in rest \cup {u} : allocation'[v] \in Nat
  <2>1. \A v \in rest : allocation[v] \in 0 .. GrossQuota
    BY QuotaSets DEF QuotaInv, KnownOf
  <2> QED
    BY <1>1, <1>3, <2>1, Settings DEF Quota!Bytes
<1>6. Total(allocation, rest) + bytes <= GrossQuota
  BY AllocatedTotal DEF Quota!Set, Quota!Fits
<1> HIDE DEF rest
<1>7. Total(allocation', rest \cup {u}) = bytes + Total(allocation', rest)
  <2>1. (rest \cup {u}) \ {u} = rest
    BY <1>3
  <2>2. Total(allocation', rest \cup {u}) = allocation'[u] + Total(allocation', (rest \cup {u}) \ {u})
    BY <1>4, <1>5, TotalWithout
  <2> QED
    BY <1>1, <2>1, <2>2
<1>8. Total(allocation', rest) = Total(allocation, rest) /\ Total(allocation', rest) \in Nat
  <2>1. \A v \in rest : allocation'[v] = allocation[v] /\ allocation'[v] \in Nat
    BY <1>1, <1>3, <1>5
  <2> QED
    BY <1>4, <2>1, TotalSame, TotalType
<1>9. Total(allocation, KnownOf(Users))' <= GrossQuota
  <2>1. bytes \in Nat /\ GrossQuota \in Nat
    BY Settings DEF Quota!Bytes
  <2> QED
    BY <1>3, <1>6, <1>7, <1>8, <2>1
<1>10. /\ Sizes' = Sizes /\ Quota!Made' = Quota!Made
       /\ \A v : Quota!Open(v)' = Quota!Open(v)
  BY DEF Sizes, Quota!Made, Quota!Open
<1>11. ASSUME NEW v \in Users
       PROVE  /\ usage[v] = initial[v] + Total(Sizes, Quota!Open(v))
              /\ usage[v] <= IF Quota!Known(v)' THEN allocation'[v] ELSE 0
  BY <1>1, <1>2 DEF QuotaInv, Balanced
<1>12. Balanced'
  <2>1. Total(Sizes, Quota!Open(u))' = Total(Sizes, Quota!Open(u))
    BY <1>10
  <2>2. \A v \in Users : /\ usage'[v] = initial'[v] + Total(Sizes, Quota!Open(v))'
                         /\ usage'[v] <= IF Quota!Known(v)' THEN allocation'[v] ELSE 0
    BY <1>10, <1>11
  <2> QED
    BY <1>9, <2>2 DEF Balanced
<1> QED
  BY <1>10, <1>12 DEF QuotaInv

\* A reservation that is opened or closed, by a change of its one number.
LEMMA ReservationStep ==
    ASSUME QuotaInv, NEW u \in Users, NEW n \in Quota!Numbers,
           UNCHANGED <<allocation, initial>>, Quota!TypeOK',
           reservation' = [reservation EXCEPT ![n] = reservation'[n]],
           reservation'[n].user = u, reservation[n].user \in {u, NoUser}
    PROVE  /\ \A v \in Users \ {u} : Quota!Open(v)' = Quota!Open(v)
           /\ \A m \in Quota!Numbers \ {n} : Sizes'[m] = Sizes[m] /\ Sizes'[m] \in Nat
           /\ Quota!Open(u)' \ {n} = Quota!Open(u) \ {n}
           /\ \A m \in Quota!Made' : reservation'[m].user \in Users
           /\ n \in Quota!Open(u)' <=> ~reservation'[n].released
           /\ Sizes'[n] = reservation'[n].size /\ Sizes[n] = reservation[n].size
           /\ \A v : KnownOf(v)' = KnownOf(v) /\ (Quota!Known(v)' <=> Quota!Known(v))
<1>1. \A m \in Quota!Numbers \ {n} : reservation'[m] = reservation[m]
  BY DEF QuotaInv, Quota!TypeOK
<1>2. NoUser \notin Users
  BY SuiteAssumption
<1>3. reservation'[n] # Quota!NoReservation
  BY <1>2 DEF Quota!NoReservation
<1>4. \A m : m \in Quota!Made' <=> m \in Quota!Made \/ m = n
  BY <1>1, <1>3 DEF Quota!Made
<1>5. \A m \in Quota!Made : reservation[m].user \in Users
  BY DEF QuotaInv
<1>6. \A v \in Users \ {u} : Quota!Open(v)' = Quota!Open(v)
  <2>1. ASSUME NEW v \in Users \ {u}, NEW m
        PROVE  m \in Quota!Open(v)' <=> m \in Quota!Open(v)
    <3>1. CASE m = n
      BY <1>2, <3>1 DEF Quota!Open
    <3>2. CASE m # n
      BY <1>1, <1>4, <3>2 DEF Quota!Open, Quota!Made
    <3> QED
      BY <3>1, <3>2
  <2> QED
    BY <2>1
<1>7. \A m \in Quota!Numbers \ {n} : Sizes'[m] = Sizes[m] /\ Sizes'[m] \in Nat
  BY <1>1, QuotaSets DEF Sizes, QuotaInv
<1>8. Quota!Open(u)' \ {n} = Quota!Open(u) \ {n}
  <2>1. ASSUME NEW m, m # n
        PROVE  m \in Quota!Open(u)' <=> m \in Quota!Open(u)
    BY <1>1, <1>4, <2>1 DEF Quota!Open, Quota!Made
  <2> QED
    BY <2>1
<1>9. n \in Quota!Open(u)' <=> ~reservation'[n].released
  BY <1>4 DEF Quota!Open
<1>10. \A m \in Quota!Made' : reservation'[m].user \in Users
  BY <1>1, <1>4, <1>5 DEF Quota!Made
<1>11. Sizes'[n] = reservation'[n].size /\ Sizes[n] = reservation[n].size
  BY DEF Sizes
<1>12. \A v : KnownOf(v)' = KnownOf(v) /\ (Quota!Known(v)' <=> Quota!Known(v))
  BY DEF KnownOf, Quota!Known
<1> QED
  BY <1>6, <1>7, <1>8, <1>9, <1>10, <1>11, <1>12

LEMMA BooksStep ==
    ASSUME QuotaInv, Quota!Next
    PROVE  QuotaInv'
<1>1. Quota!TypeOK /\ Quota!TypeOK' /\ Balanced /\ Quota!Numbers \in SUBSET Nat
  BY QuotaStep DEF QuotaInv, Quota!Numbers
<1>2. ASSUME NEW u \in Users, NEW bytes \in Quota!Bytes, Quota!Set(u, bytes), usage[u] <= bytes,
             UNCHANGED <<usage, reservation, initial>>
      PROVE  QuotaInv'
  BY <1>1, <1>2, AllocationStep
<1>3. ASSUME NEW u \in Users, NEW n \in Quota!Numbers,
             UNCHANGED <<allocation, initial>>,
             reservation' = [reservation EXCEPT ![n] = reservation'[n]],
             reservation'[n].user = u, reservation[n].user \in {u, NoUser},
             \A v \in Users \ {u} : usage'[v] = usage[v],
             usage'[u] = initial[u] + Total(Sizes', Quota!Open(u)'),
             usage'[u] <= IF Quota!Known(u) THEN allocation[u] ELSE 0
      PROVE  QuotaInv'
  <2>1. /\ \A v \in Users \ {u} : Quota!Open(v)' = Quota!Open(v)
        /\ \A m \in Quota!Numbers \ {n} : Sizes'[m] = Sizes[m] /\ Sizes'[m] \in Nat
        /\ n \notin UNION {Quota!Open(v) : v \in Users \ {u}}
        /\ \A m \in Quota!Made' : reservation'[m].user \in Users
        /\ \A v : KnownOf(v)' = KnownOf(v) /\ (Quota!Known(v)' <=> Quota!Known(v))
    <3>1. n \notin UNION {Quota!Open(v) : v \in Users \ {u}}
      BY <1>3, SuiteAssumption DEF Quota!Open
    <3> QED
      BY <1>1, <1>3, <3>1, ReservationStep
  <2>2. ASSUME NEW v \in Users
        PROVE  /\ usage'[v] = initial[v] + Total(Sizes', Quota!Open(v)')
               /\ usage'[v] <= IF Quota!Known(v) THEN allocation[v] ELSE 0
    <3>1. CASE v = u
      BY <1>3, <3>1
    <3>2. CASE v # u
      <4>1. Quota!Open(v)' = Quota!Open(v) /\ n \notin Quota!Open(v) /\ usage'[v] = usage[v]
        BY <1>3, <2>1, <3>2
      <4>2. IsFiniteSet(Quota!Open(v)) /\ \A m \in Quota!Open(v) : Sizes'[m] = Sizes[m]
        BY <1>1, <2>1, <4>1, QuotaSets
      <4>3. Total(Sizes', Quota!Open(v)) = Total(Sizes, Quota!Open(v))
        BY <4>2, TotalSame
      <4> QED
        BY <1>1, <4>1, <4>3 DEF Balanced
    <3> QED
      BY <3>1, <3>2
  <2>3. Balanced'
    <3>1. Total(allocation, KnownOf(Users))' = Total(allocation, KnownOf(Users))
      BY <1>3, <2>1
    <3>2. \A v \in Users : /\ usage'[v] = initial'[v] + Total(Sizes, Quota!Open(v))'
                           /\ usage'[v] <= IF Quota!Known(v)' THEN allocation'[v] ELSE 0
      BY <1>3, <2>1, <2>2
    <3> QED
      BY <1>1, <3>1, <3>2 DEF Balanced
  <2> QED
    BY <1>1, <2>1, <2>3 DEF QuotaInv
<1>4. ASSUME NEW u \in Users, NEW size \in Quota!Bytes, Quota!Reserve(u, size)
      PROVE  QuotaInv'
  <2> DEFINE n == Quota!Min(Quota!Numbers \ Quota!Made)
             r == [user |-> u, size |-> size, released |-> FALSE]
  <2>1. n \in Quota!Numbers \ Quota!Made
    <3>1. Quota!Numbers \ Quota!Made # {} /\ Quota!Numbers \ Quota!Made \in SUBSET Nat
      <4>1. Quota!Made # Quota!Numbers
        BY <1>4 DEF Quota!Reserve
      <4> QED
        BY <1>1, <4>1 DEF Quota!Made
    <3> QED
      BY <3>1, LeastNumber DEF Quota!Min
  <2>2. /\ reservation' = [reservation EXCEPT ![n] = r] /\ usage' = [usage EXCEPT ![u] = @ + size]
        /\ UNCHANGED <<allocation, initial>>
        /\ Quota!Known(u) /\ size <= allocation[u] - usage[u]
    BY <1>4 DEF Quota!Reserve
  <2> HIDE DEF n
  <2>3. /\ reservation'[n] = r /\ reservation[n] = Quota!NoReservation
        /\ reservation' = [reservation EXCEPT ![n] = reservation'[n]]
    BY <1>1, <2>1, <2>2 DEF Quota!TypeOK, Quota!Made
  <2>4. /\ n \notin Quota!Open(u) /\ Quota!Open(u)' = Quota!Open(u) \cup {n}
        /\ \A m \in Quota!Numbers \ {n} : Sizes'[m] = Sizes[m] /\ Sizes'[m] \in Nat
        /\ Sizes'[n] = size /\ size \in Nat
    <3>1. n \notin Quota!Open(u) /\ size \in Nat
      BY <2>1, Settings DEF Quota!Open, Quota!Bytes
    <3>2. reservation'[n].user = u /\ reservation[n].user \in {u, NoUser}
          /\ ~reservation'[n].released /\ reservation'[n].size = size
      BY <2>3 DEF Quota!NoReservation
    <3>3. /\ Quota!Open(u)' \ {n} = Quota!Open(u) \ {n} /\ n \in Quota!Open(u)'
          /\ \A m \in Quota!Numbers \ {n} : Sizes'[m] = Sizes[m] /\ Sizes'[m] \in Nat
          /\ Sizes'[n] = reservation'[n].size
      BY <1>1, <2>1, <2>2, <2>3, <3>2, ReservationStep
    <3> QED
      BY <3>1, <3>2, <3>3
  <2>5. Total(Sizes', Quota!Open(u)') = size + Total(Sizes, Quota!Open(u))
    <3> DEFINE S == Quota!Open(u)
    <3>1. IsFiniteSet(S) /\ S \subseteq Quota!Numbers
      BY <1>1, QuotaSets
    <3> HIDE DEF S
    <3>2. Total(Sizes', S) = Total(Sizes, S)
      <4>1. \A m \in S : Sizes'[m] = Sizes[m]
        BY <2>4, <3>1 DEF S
      <4> QED
        BY <3>1, <4>1, TotalSame
    <3>3. Total(Sizes', S \cup {n}) = Sizes'[n] + Total(Sizes', (S \cup {n}) \ {n})
      <4>1. IsFiniteSet(S \cup {n}) /\ \A m \in S \cup {n} : Sizes'[m] \in Nat
        BY <2>4, <3>1, FS_AddElement DEF S
      <4> QED
        BY <4>1, TotalWithout
    <3>4. (S \cup {n}) \ {n} = S
      BY <2>4 DEF S
    <3> QED
      BY <2>4, <3>2, <3>3, <3>4 DEF S
  <2>6. /\ usage'[u] = usage[u] + size /\ \A v \in Users \ {u} : usage'[v] = usage[v]
        /\ usage[u] \in Nat /\ initial[u] \in Nat /\ allocation[u] \in Nat /\ size \in Nat
    BY <1>1, <2>2, <2>4, Settings DEF Quota!TypeOK, Quota!Bytes, Quota!Known, Quota!Unknown
  <2>7. Total(Sizes, Quota!Open(u)) \in Nat
    BY <1>1, QuotaSets, TotalType
  <2>8. usage'[u] = initial[u] + Total(Sizes', Quota!Open(u)')
    BY <1>1, <2>5, <2>6, <2>7 DEF Balanced
  <2>9. usage'[u] <= IF Quota!Known(u) THEN allocation[u] ELSE 0
    BY <2>2, <2>6
  <2>10. reservation'[n].user = u /\ reservation[n].user \in {u, NoUser}
    BY <2>3 DEF Quota!NoReservation
  <2> QED
    BY <1>3, <2>1, <2>2, <2>3, <2>6, <2>8, <2>9, <2>10
<1>5. ASSUME NEW n \in Quota!Numbers, Quota!Release(n)
      PROVE  QuotaInv'
  <2>0. PICK u \in Users : u = reservation[n].user
    BY <1>5 DEF QuotaInv, Quota!Release
  <2> DEFINE r == reservation[n]
             over == [r EXCEPT !.released = TRUE]
             left == IF usage[u] < r.size THEN 0 ELSE usage[u] - r.size
  <2>1. u \in Users /\ u = r.user /\ n \in Quota!Open(u) /\ ~r.released
    BY <1>5, <2>0 DEF Quota!Release, Quota!Open
  <2>2. /\ reservation' = [reservation EXCEPT ![n] = over] /\ usage' = [usage EXCEPT ![u] = left]
        /\ UNCHANGED <<allocation, initial>>
    BY <1>5, <2>0 DEF Quota!Release
  <2>3. /\ reservation'[n] = over /\ over.user = u /\ over.released /\ over.size = r.size
        /\ reservation' = [reservation EXCEPT ![n] = reservation'[n]]
        /\ r.size \in Nat
    BY <1>1, <2>0, <2>2, Settings DEF Quota!TypeOK, Quota!Bytes
  <2>4. usage'[u] = left /\ \A v \in Users \ {u} : usage'[v] = usage[v]
    BY <1>1, <2>1, <2>2 DEF Quota!TypeOK
  <2>5. usage[u] \in Nat /\ initial[u] \in Nat
    BY <1>1, <2>1, Settings DEF Quota!TypeOK, Quota!Bytes
  <2>6. usage[u] <= IF Quota!Known(u) THEN allocation[u] ELSE 0
    BY <1>1, <2>1 DEF Balanced
  <2>7. usage[u] = initial[u] + Total(Sizes, Quota!Open(u))
    BY <1>1, <2>1 DEF Balanced
  <2>8. Quota!Open(u)' = Quota!Open(u) \ {n} /\ \A m \in Quota!Numbers \ {n} : Sizes'[m] = Sizes[m]
    <3>1. reservation'[n].user = u /\ reservation[n].user \in {u, NoUser} /\ reservation'[n].released
      BY <2>0, <2>3
    <3>2. UNCHANGED <<allocation, initial>>
      BY <2>2
    <3>3. reservation' = [reservation EXCEPT ![n] = reservation'[n]]
      BY <2>3
    <3> HIDE DEF over, left
    <3>4. /\ Quota!Open(u)' \ {n} = Quota!Open(u) \ {n} /\ n \notin Quota!Open(u)'
          /\ \A m \in Quota!Numbers \ {n} : Sizes'[m] = Sizes[m]
      BY <1>1, <2>1, <3>1, <3>2, <3>3, ReservationStep
    <3> QED
      BY <3>4
  <2> HIDE DEF over, left
  <2>9. /\ Total(Sizes, Quota!Open(u)) = r.size + Total(Sizes, Quota!Open(u) \ {n})
        /\ Total(Sizes, Quota!Open(u) \ {n}) \in Nat
    <3>1. /\ IsFiniteSet(Quota!Open(u)) /\ \A m \in Quota!Open(u) : Sizes[m] \in Nat
          /\ Sizes[n] = r.size
      BY <1>1, QuotaSets
    <3>2. IsFiniteSet(Quota!Open(u) \ {n})
      BY <3>1, FS_Subset
    <3> QED
      BY <2>1, <3>1, <3>2, TotalWithout, TotalType
  <2>10. Total(Sizes', Quota!Open(u)') = Total(Sizes, Quota!Open(u) \ {n})
    <3>1. /\ \A m \in Quota!Open(u) \ {n} : Sizes'[m] = Sizes[m]
          /\ IsFiniteSet(Quota!Open(u) \ {n})
      BY <1>1, <2>8, QuotaSets, FS_Subset
    <3>2. Total(Sizes', Quota!Open(u) \ {n}) = Total(Sizes, Quota!Open(u) \ {n})
      BY <3>1, TotalSame
    <3> QED
      BY <2>8, <3>2
  <2>11. left = usage[u] - r.size /\ left \in Nat
    BY <2>3, <2>5, <2>7, <2>9 DEF left
  <2>12. usage'[u] = initial[u] + Total(Sizes', Quota!Open(u)')
    BY <2>3, <2>4, <2>5, <2>7, <2>9, <2>10, <2>11
  <2>13. usage'[u] <= IF Quota!Known(u) THEN allocation[u] ELSE 0
    <3>1. allocation[u] \in Nat
      BY <1>1, <2>1, Settings DEF Quota!TypeOK, Quota!Bytes, Quota!Unknown
    <3> QED
      BY <2>3, <2>4, <2>5, <2>6, <2>11, <3>1
  <2>14. reservation'[n].user = u /\ reservation[n].user \in {u, NoUser}
    BY <2>0, <2>3
  <2> HIDE DEF r
  <2> QED
    BY <1>3, <2>1, <2>2, <2>3, <2>4, <2>12, <2>13, <2>14
<1>6. ASSUME NEW a, NEW u \in Users, NEW bytes \in Quota!Bytes,
             Quota!RegisterUser(a, u, bytes) \/ Quota!Allocate(a, u, bytes)
      PROVE  QuotaInv'
  <2>1. Quota!Set(u, bytes) /\ UNCHANGED <<usage, reservation, initial>>
    BY <1>6 DEF Quota!RegisterUser, Quota!Allocate
  <2>2. usage[u] <= bytes
    <3>1. usage[u] <= (IF Quota!Known(u) THEN allocation[u] ELSE 0) /\ usage[u] \in Nat /\ bytes \in Nat
      BY <1>1, Settings DEF Balanced, Quota!TypeOK, Quota!Bytes
    <3> QED
      BY <1>6, <3>1 DEF Quota!RegisterUser, Quota!Allocate
  <2> QED
    BY <1>2, <2>1, <2>2
<1> QED
  BY <1>4, <1>5, <1>6 DEF Quota!Next

LEMMA BooksHold == QuotaInv => Quota!BooksBalance
BY Balance DEF QuotaInv

-----------------------------------------------------------------------------
(* The audit log: its numbers go up one at a time, to the last one recorded.  *)

LEMMA AuditStep == ASSUME Audit!TypeOK, Audit!Next PROVE Audit!TypeOK'
<1> USE Settings DEF Audit!TypeOK
<1> PICK a \in Audit!Actors, s \in Users \cup {NoUser} : Audit!Record(a, s)
  BY DEF Audit!Next
<1> DEFINE e == [number |-> recorded + 1, tenant |-> a.tenant, role |-> a.role,
                 actor |-> a.user, subject |-> s]
           all == Append(auditLog, e)
<1>1. e \in Audit!AuditEvents
  <2>1. recorded + 1 \in 1 .. MaxRecorded
    BY DEF Audit!Record
  <2>2. /\ a.tenant \in Tenants /\ a.role \in Audit!AdminRoles \cup {"user"}
        /\ a.user \in Users \cup {NoUser}
    BY DEF Audit!Actors, Audit!UserActors, Audit!AdminActors
  <2> QED
    BY <2>1, <2>2 DEF Audit!AuditEvents
<1> HIDE DEF e
<1>2. all \in Seq(Audit!AuditEvents) /\ Len(all) = Len(auditLog) + 1
  BY <1>1
<1>3. auditLog' = IF Len(all) <= MaxEvents THEN all ELSE Tail(all)
  BY DEF Audit!Record, Audit!Bounded, e
<1> HIDE DEF all
<1>4. auditLog' \in Seq(Audit!AuditEvents) /\ Len(auditLog') <= MaxEvents
  <2>1. CASE Len(all) <= MaxEvents
    BY <1>2, <1>3, <2>1
  <2>2. CASE ~(Len(all) <= MaxEvents)
    <3>1. all # <<>> /\ auditLog' = Tail(all)
      BY <1>2, <1>3, <2>2
    <3> QED
      BY <1>2, <3>1, HeadTailProperties
  <2> QED
    BY <2>1, <2>2
<1> QED
  BY <1>4 DEF Audit!Record

AuditInv ==
    /\ Audit!TypeOK
    /\ \A i \in 1 .. Len(auditLog) : auditLog[i].number = recorded - Len(auditLog) + i
    /\ recorded >= MaxEvents => Len(auditLog) = MaxEvents
    /\ recorded < MaxEvents => Len(auditLog) = recorded

LEMMA RecordStep == ASSUME AuditInv, Audit!Next PROVE AuditInv'
<1> PICK a \in Audit!Actors, s \in Users \cup {NoUser} : Audit!Record(a, s)
  BY DEF Audit!Next
<1> DEFINE e == [number |-> recorded + 1, tenant |-> a.tenant, role |-> a.role,
                 actor |-> a.user, subject |-> s]
           all == Append(auditLog, e)
           n == Len(auditLog)
<1>1. /\ auditLog' = (IF Len(all) <= MaxEvents THEN all ELSE Tail(all))
      /\ recorded' = recorded + 1 /\ recorded \in Nat /\ n \in Nat /\ Audit!TypeOK'
      /\ MaxEvents \in Nat \ {0} /\ n <= MaxEvents
  BY Settings, AuditStep DEF Audit!Record, Audit!Bounded, Audit!TypeOK, AuditInv
<1>0. /\ auditLog \in Seq(Audit!AuditEvents)
      /\ \A i \in 1 .. n : auditLog[i].number = recorded - n + i
      /\ recorded >= MaxEvents => n = MaxEvents
      /\ recorded < MaxEvents => n = recorded
  BY DEF AuditInv, Audit!TypeOK
<1>2. e.number = recorded + 1
  OBVIOUS
<1> HIDE DEF e
<1>3. all \in Seq(Audit!AuditEvents \cup {e}) /\ Len(all) = n + 1
      /\ (\A i \in 1 .. n : all[i] = auditLog[i]) /\ all[n + 1] = e
  BY <1>0
<1> HIDE DEF all, n
<1>4. \A i \in 1 .. n + 1 : all[i].number = recorded - n + i
  <2>1. \A i \in 1 .. n : all[i].number = recorded - n + i
    BY <1>0, <1>3
  <2>2. all[n + 1].number = recorded - n + (n + 1)
    BY <1>1, <1>2, <1>3
  <2>3. \A i \in 1 .. n + 1 : i \in 1 .. n \/ i = n + 1
    BY <1>1
  <2> QED
    BY <2>1, <2>2, <2>3
<1>5. CASE n + 1 <= MaxEvents
  <2>1. auditLog' = all
    BY <1>1, <1>3, <1>5
  <2>2. Len(auditLog') = n + 1
    BY <1>3, <2>1
  <2>3. \A i \in 1 .. Len(auditLog') : auditLog'[i].number = recorded' - Len(auditLog') + i
    <3>1. ASSUME NEW i \in 1 .. n + 1
          PROVE  all[i].number = recorded' - (n + 1) + i
      <4>1. all[i].number = recorded - n + i
        BY <1>4
      <4>2. recorded - n + i = recorded + 1 - (n + 1) + i
        BY <1>1
      <4> QED
        BY <1>1, <4>1, <4>2
    <3> QED
      BY <2>1, <2>2, <3>1
  <2>4. recorded = n /\ recorded' = n + 1
    BY <1>0, <1>1, <1>5
  <2>5. /\ recorded' >= MaxEvents => Len(auditLog') = MaxEvents
        /\ recorded' < MaxEvents => Len(auditLog') = recorded'
    BY <1>1, <1>5, <2>2, <2>4
  <2> QED
    BY <1>1, <2>3, <2>5 DEF AuditInv
<1>6. CASE ~(n + 1 <= MaxEvents)
  <2>1. auditLog' = Tail(all) /\ all # <<>>
    BY <1>1, <1>3, <1>6
  <2>2. Len(auditLog') = n /\ \A i \in 1 .. n : auditLog'[i] = all[i + 1]
    <3>1. /\ Len(Tail(all)) = Len(all) - 1
          /\ \A i \in 1 .. Len(Tail(all)) : Tail(all)[i] = all[i + 1]
      BY <1>3, <2>1, HeadTailProperties
    <3>2. Len(all) - 1 = n
      BY <1>1, <1>3
    <3> QED
      BY <2>1, <3>1, <3>2
  <2>3. \A i \in 1 .. Len(auditLog') : auditLog'[i].number = recorded' - Len(auditLog') + i
    <3>1. \A i \in 1 .. n : i + 1 \in 1 .. n + 1
      BY <1>1
    <3> QED
      <4>1. ASSUME NEW i \in 1 .. n
            PROVE  auditLog'[i].number = recorded' - n + i
        <5>1. all[i + 1].number = recorded - n + (i + 1)
          BY <1>4, <3>1
        <5>2. recorded - n + (i + 1) = recorded + 1 - n + i
          BY <1>1
        <5> QED
          BY <1>1, <2>2, <5>1, <5>2
      <4> QED
        BY <2>2, <4>1
  <2>4. n = MaxEvents /\ recorded >= MaxEvents
    BY <1>0, <1>1, <1>6
  <2>5. recorded' >= MaxEvents
    BY <1>1, <2>4
  <2>6. /\ recorded' >= MaxEvents => Len(auditLog') = MaxEvents
        /\ recorded' < MaxEvents => Len(auditLog') = recorded'
    BY <1>1, <2>2, <2>4, <2>5
  <2> QED
    BY <1>1, <2>3, <2>6 DEF AuditInv
<1> QED
  BY <1>5, <1>6

\* What is shown is a selection of the log, in its order.
LEMMA FilteredPlaces ==
    ASSUME Audit!TypeOK, NEW a, NEW s
    PROVE  LET t == Audit!Filtered(a, s) IN
             /\ t \in Seq(Audit!AuditEvents) /\ Len(t) <= Len(auditLog)
             /\ \E pos \in [1 .. Len(t) -> 1 .. Len(auditLog)] :
                   /\ \A j \in 1 .. Len(t) : t[j] = auditLog[pos[j]] /\ Audit!Shown(a, s, t[j])
                   /\ \A j, k \in 1 .. Len(t) : j < k => pos[j] < pos[k]
<1> DEFINE P == {e \in Audit!AuditEvents : Audit!Shown(a, s, e)}
           It(F) == F = [i \in 0 .. Len(auditLog) |->
                           IF i = 0 THEN <<>>
                           ELSE IF Audit!Shown(a, s, auditLog[i]) THEN Append(F[i - 1], auditLog[i])
                           ELSE F[i - 1]]
           kept == CHOOSE F : It(F)
           n == Len(auditLog)
<1>1. auditLog \in Seq(Audit!AuditEvents) /\ n \in Nat
  BY DEF Audit!TypeOK
<1>2. \A i \in 1 .. n : auditLog[i] \in P <=> Audit!Shown(a, s, auditLog[i])
  BY <1>1
<1> HIDE DEF P
<1>3. PICK G : G = [i \in 0 .. n |-> PickedNext(auditLog, P, G, i)]
  BY <1>1, PickedExists
<1>4. It(G)
  <2>1. \A i \in 0 .. n : PickedNext(auditLog, P, G, i)
                             = IF i = 0 THEN <<>>
                               ELSE IF Audit!Shown(a, s, auditLog[i]) THEN Append(G[i - 1], auditLog[i])
                               ELSE G[i - 1]
    BY <1>2 DEF PickedNext
  <2> QED
    BY <1>3, <2>1
<1>5. It(kept)
  BY <1>4
<1>6. Audit!Filtered(a, s) = kept[n]
  BY DEF Audit!Filtered
<1> HIDE DEF kept
<1>7. Picked(auditLog, P, kept)
  <2>1. ASSUME NEW i \in 0 .. n
        PROVE  kept[i] = PickedNext(auditLog, P, kept, i)
    <3>1. kept[i] = IF i = 0 THEN <<>>
                    ELSE IF Audit!Shown(a, s, auditLog[i]) THEN Append(kept[i - 1], auditLog[i])
                    ELSE kept[i - 1]
      BY <1>5
    <3>2. i # 0 => (auditLog[i] \in P <=> Audit!Shown(a, s, auditLog[i]))
      BY <1>2
    <3> QED
      BY <3>1, <3>2 DEF PickedNext
  <2> QED
    BY <2>1 DEF Picked
<1> DEFINE t == kept[n]
<1>8. t \in Seq(Audit!AuditEvents) /\ Places(auditLog, P, t, n) # {} /\ Len(t) <= n
  BY <1>1, <1>7, PickedPlaces
<1>9. PICK pos \in [1 .. Len(t) -> 1 .. n] :
          /\ \A j \in 1 .. Len(t) : t[j] = auditLog[pos[j]] /\ t[j] \in P
          /\ \A j, k \in 1 .. Len(t) : j < k => pos[j] < pos[k]
  BY <1>8 DEF Places
<1>10. \A j \in 1 .. Len(t) : Audit!Shown(a, s, t[j])
  BY <1>9 DEF P
<1> QED
  BY <1>6, <1>8, <1>9, <1>10

LEMMA LogShows == AuditInv => Audit!LogShowsItsOwn
<1> SUFFICES ASSUME AuditInv PROVE Audit!LogShowsItsOwn
  OBVIOUS
<1> USE Settings
<1>0. /\ Audit!TypeOK /\ auditLog \in Seq(Audit!AuditEvents) /\ Len(auditLog) <= MaxEvents
      /\ recorded \in Nat /\ Len(auditLog) \in Nat
  BY DEF AuditInv, Audit!TypeOK
<1>1. ASSUME NEW a \in Audit!Actors, NEW s \in Users \cup {NoUser}
      PROVE  LET seen == Audit!View(a, s, MaxEvents) IN
             /\ Audit!View(a, s, 1) = IF seen = <<>> THEN <<>> ELSE <<seen[1]>>
             /\ \A i \in DOMAIN seen :
                   /\ seen[i].tenant = a.tenant
                   /\ a.role = "user" => a.user \in {seen[i].actor, seen[i].subject}
                   /\ a.role = "tenant_master" => masterLogAccess
                   /\ i > 1 => seen[i].number < seen[i - 1].number
  <2> DEFINE t == Audit!Filtered(a, s)
             n == Len(t)
             seen == Audit!View(a, s, MaxEvents)
  <2>1. /\ t \in Seq(Audit!AuditEvents) /\ Len(t) <= Len(auditLog)
        /\ \E pos \in [1 .. Len(t) -> 1 .. Len(auditLog)] :
              /\ \A j \in 1 .. Len(t) : t[j] = auditLog[pos[j]] /\ Audit!Shown(a, s, t[j])
              /\ \A j, k \in 1 .. Len(t) : j < k => pos[j] < pos[k]
    BY <1>0, FilteredPlaces
  <2>2. /\ seen = IF ~Audit!MayView(a, s) THEN <<>>
                  ELSE Audit!Reverse(SubSeq(t, IF n > MaxEvents THEN n - MaxEvents + 1 ELSE 1, n))
        /\ Audit!View(a, s, 1) = IF ~Audit!MayView(a, s) THEN <<>>
                                 ELSE Audit!Reverse(SubSeq(t, IF n > 1 THEN n - 1 + 1 ELSE 1, n))
    BY DEF Audit!View
  <2> HIDE DEF t, seen
  <2>3. PICK pos \in [1 .. n -> 1 .. Len(auditLog)] :
              /\ \A j \in 1 .. n : t[j] = auditLog[pos[j]] /\ Audit!Shown(a, s, t[j])
              /\ \A j, k \in 1 .. n : j < k => pos[j] < pos[k]
    BY <2>1
  <2>4. n \in Nat /\ n <= MaxEvents
    BY <1>0, <2>1
  <2>5. CASE ~Audit!MayView(a, s)
    <3>1. seen = <<>> /\ Audit!View(a, s, 1) = <<>>
      BY <2>2, <2>5
    <3>2. DOMAIN <<>> = {}
      OBVIOUS
    <3> QED
      BY <3>1, <3>2 DEF seen
  <2>6. CASE Audit!MayView(a, s)
    <3>1. /\ SubSeq(t, 1, n) = t
          /\ (IF n > MaxEvents THEN n - MaxEvents + 1 ELSE 1) = 1
      BY <2>1, <2>4
    <3>2. seen = [i \in 1 .. n |-> t[n - i + 1]]
      BY <2>2, <2>6, <3>1 DEF Audit!Reverse
    <3>3. a.role = "tenant_master" => masterLogAccess
      BY <2>6 DEF Audit!MayView, Audit!Authorized, Audit!Request
    <3>4. ASSUME NEW i \in 1 .. n
          PROVE  /\ seen[i].tenant = a.tenant
                 /\ a.role = "user" => a.user \in {seen[i].actor, seen[i].subject}
                 /\ i > 1 => seen[i].number < seen[i - 1].number
      <4>1. n - i + 1 \in 1 .. n /\ seen[i] = t[n - i + 1]
        BY <2>4, <3>2
      <4>2. Audit!Shown(a, s, seen[i])
        BY <2>3, <4>1
      <4>3. ASSUME i > 1
            PROVE  seen[i].number < seen[i - 1].number
        <5>1. n - i + 2 \in 1 .. n /\ seen[i - 1] = t[n - i + 2] /\ n - i + 1 < n - i + 2
          BY <2>4, <3>2, <4>3
        <5> DEFINE j == n - i + 1
                   k == n - i + 2
        <5>2. /\ pos[j] < pos[k] /\ t[j] = auditLog[pos[j]] /\ t[k] = auditLog[pos[k]]
              /\ pos[j] \in 1 .. Len(auditLog) /\ pos[k] \in 1 .. Len(auditLog)
          BY <2>3, <4>1, <5>1
        <5>3. /\ auditLog[pos[j]].number = recorded - Len(auditLog) + pos[j]
              /\ auditLog[pos[k]].number = recorded - Len(auditLog) + pos[k]
          BY <5>2 DEF AuditInv
        <5> QED
          BY <1>0, <4>1, <5>1, <5>2, <5>3
      <4> QED
        BY <4>2, <4>3 DEF Audit!Shown
    <3>5. Audit!View(a, s, 1) = IF seen = <<>> THEN <<>> ELSE <<seen[1]>>
      <4>1. CASE n = 0
        <5>1. SubSeq(t, 1, n) = <<>> /\ seen = <<>> /\ (IF n > 1 THEN n - 1 + 1 ELSE 1) = 1
          BY <3>2, <4>1
        <5>2. Audit!View(a, s, 1) = Audit!Reverse(<<>>)
          BY <2>2, <2>6, <5>1
        <5> QED
          BY <5>1, <5>2 DEF Audit!Reverse
      <4>2. CASE n # 0
        <5>1. /\ (IF n > 1 THEN n - 1 + 1 ELSE 1) = n /\ n \in 1 .. n /\ Len(seen) = n
              /\ seen[1] = t[n]
          <6>1. (IF n > 1 THEN n - 1 + 1 ELSE 1) = n /\ n \in 1 .. n /\ 1 \in 1 .. n
                /\ n - 1 + 1 = n
            <7> HIDE DEF n
            <7> QED
              BY <2>4, <4>2
          <6> HIDE DEF n
          <6> QED
            BY <2>4, <3>2, <6>1
        <5>2. SubSeq(t, n, n) = <<t[n]>>
          <6>1. n \in 1 .. Len(t) /\ n - n + 1 = 1
            BY <5>1
          <6>2. SubSeq(t, n, n) = [i \in 1 .. 1 |-> t[i + n - 1]]
            BY <2>1, <6>1, SubSeqProperties
          <6> QED
            BY <6>1, <6>2
        <5>3. Audit!View(a, s, 1) = Audit!Reverse(<<t[n]>>)
          BY <2>2, <2>6, <5>1, <5>2
        <5>4. Audit!Reverse(<<t[n]>>) = <<t[n]>>
          BY DEF Audit!Reverse
        <5>5. seen # <<>>
          BY <4>2, <5>1
        <5> QED
          BY <5>1, <5>3, <5>4, <5>5
      <4> QED
        BY <4>1, <4>2
    <3>6. DOMAIN seen = 1 .. n
      BY <3>2
    <3> QED
      BY <3>3, <3>4, <3>5, <3>6 DEF seen
  <2> QED
    BY <2>5, <2>6 DEF seen
<1>2. /\ \A i \in DOMAIN auditLog : auditLog[i].number = recorded - Len(auditLog) + i
      /\ recorded >= MaxEvents => Len(auditLog) = MaxEvents
  BY <1>0 DEF AuditInv
<1> QED
  BY <1>1, <1>2 DEF Audit!LogShowsItsOwn

-----------------------------------------------------------------------------
(* The abuse guard: types.  A subject's count never passes its failures.      *)

CountInv ==
    /\ Abuse!TypeOK
    /\ \A s \in Subjects : failure[s].count <= Len(failedAt[s]) /\ Len(failedAt[s]) <= MaxFailures

\* The keys of the limiter's buckets: each once, in the order they came.
KeyLists == {keys \in Seq(Abuse!Keys) : \A i, j \in 1 .. Len(keys) : keys[i] = keys[j] => i = j}

LEMMA InsertedOnce ==
    ASSUME NEW keys \in KeyLists, NEW k \in Abuse!Keys
    PROVE  Abuse!Inserted(keys, k) \in KeyLists
<1> keys \in Seq(Abuse!Keys) /\ \A i, j \in 1 .. Len(keys) : keys[i] = keys[j] => i = j
  BY DEF KeyLists
<1>1. CASE k \in Abuse!ToSet(keys)
  BY <1>1 DEF Abuse!Inserted, KeyLists
<1>2. CASE k \notin Abuse!ToSet(keys)
  <2>1. \A i \in 1 .. Len(keys) : keys[i] # k
    BY <1>2 DEF Abuse!ToSet
  <2> DEFINE more == Append(keys, k)
  <2>2. /\ more \in Seq(Abuse!Keys) /\ Len(more) = Len(keys) + 1 /\ more[Len(keys) + 1] = k
        /\ \A i \in 1 .. Len(keys) : more[i] = keys[i]
    OBVIOUS
  <2> HIDE DEF more
  <2>3. ASSUME NEW i \in 1 .. Len(more), NEW j \in 1 .. Len(more), more[i] = more[j]
        PROVE  i = j
    <3>1. i \in 1 .. Len(keys) \/ i = Len(keys) + 1
      BY <2>2
    <3>2. j \in 1 .. Len(keys) \/ j = Len(keys) + 1
      BY <2>2
    <3> QED
      BY <2>1, <2>2, <2>3, <3>1, <3>2
  <2>4. more \in KeyLists
    BY <2>2, <2>3 DEF KeyLists
  <2> QED
    BY <1>2, <2>4 DEF Abuse!Inserted, more
<1> QED
  BY <1>1, <1>2

LEMMA PrunedOnce ==
    ASSUME NEW keys \in KeyLists
    PROVE  Abuse!Pruned(keys) \in KeyLists /\ Len(Abuse!Pruned(keys)) <= MaxBuckets
<1> USE Settings
<1>0. keys \in Seq(Abuse!Keys) /\ \A i, j \in 1 .. Len(keys) : keys[i] = keys[j] => i = j
  BY DEF KeyLists
<1>1. CASE Len(keys) <= MaxBuckets
  BY <1>1 DEF Abuse!Pruned
<1>2. CASE ~(Len(keys) <= MaxBuckets)
  <2> DEFINE from == Len(keys) - MaxBuckets + 1
             left == SubSeq(keys, from, Len(keys))
  <2>1. /\ from \in Int /\ Len(keys) \in Int /\ from <= Len(keys) /\ from >= 1
        /\ Len(keys) - from + 1 = MaxBuckets
        /\ \A i \in from .. Len(keys) : keys[i] \in Abuse!Keys
    BY <1>0, <1>2
  <2> HIDE DEF from
  <2>2. /\ left \in Seq(Abuse!Keys) /\ Len(left) = MaxBuckets
        /\ \A i \in 1 .. MaxBuckets : left[i] = keys[from + i - 1]
    BY <2>1, SubSeqProperties
  <2> HIDE DEF left
  <2>3. ASSUME NEW i \in 1 .. Len(left), NEW j \in 1 .. Len(left), left[i] = left[j]
        PROVE  i = j
    <3>1. i \in 1 .. MaxBuckets /\ j \in 1 .. MaxBuckets
      BY <2>2
    <3>2. keys[from + i - 1] = keys[from + j - 1]
      BY <2>2, <2>3, <3>1
    <3>3. from + i - 1 \in 1 .. Len(keys) /\ from + j - 1 \in 1 .. Len(keys)
      BY <2>1, <3>1
    <3>4. from + i - 1 = from + j - 1
      BY <1>0, <3>2, <3>3
    <3> QED
      BY <2>1, <3>1, <3>4
  <2>4. Abuse!Pruned(keys) = left
    BY <1>2 DEF Abuse!Pruned, left, from
  <2> QED
    BY <2>2, <2>3, <2>4 DEF KeyLists
<1> QED
  BY <1>1, <1>2

LEMMA ConsumeStep ==
    ASSUME CountInv, NEW call \in Abuse!Calls, Abuse!Consume(call)
    PROVE  CountInv'
<1> USE Settings
<1>1. call[1] \in Abuse!Keys /\ call[2] \in Abuse!Keys
  BY DEF Abuse!Calls, Abuse!Keys
<1>2. order \in KeyLists
  <2>1. /\ order \in Seq(Abuse!Keys) /\ DOMAIN order = 1 .. Len(order)
        /\ \A i, j \in DOMAIN order : order[i] = order[j] => i = j
    BY DEF CountInv, Abuse!TypeOK, Abuse!IsInjective
  <2> QED
    BY <2>1 DEF KeyLists
<1> DEFINE added == Abuse!Inserted(Abuse!Inserted(order, call[1]), call[2])
           left == Abuse!ToSet(Abuse!Pruned(added))
           counted == [k \in Abuse!Keys |->
               IF k \notin left THEN Abuse!NoBucket
               ELSE IF k \in Abuse!ToSet(call) THEN [Abuse!Current(k) EXCEPT !.count = @ + 1]
               ELSE bucket[k]]
<1>3. added \in KeyLists
  BY <1>1, <1>2, InsertedOnce
<1>4. Abuse!Pruned(added) \in KeyLists /\ Len(Abuse!Pruned(added)) <= MaxBuckets
  BY <1>3, PrunedOnce
<1>5. /\ order' = Abuse!Pruned(added) /\ bucket' = counted
      /\ evicted' = evicted \cup (Abuse!ToSet(added) \ left)
      /\ admitted' = [k \in Abuse!Keys |->
              IF k \in Abuse!ToSet(call) THEN [admitted[k] EXCEPT ![now] = @ + 1] ELSE admitted[k]]
      /\ UNCHANGED <<now, failure, lockedUntil, quarantinedUntil, failedAt>>
  BY DEF Abuse!Consume, Abuse!guard
<1>6. Abuse!ToSet(added) \subseteq Abuse!Keys
  BY <1>3 DEF Abuse!ToSet, KeyLists
<1> HIDE DEF added, left
<1>7. order' \in Seq(Abuse!Keys) /\ Abuse!IsInjective(order') /\ Len(order') <= MaxBuckets
  <2>1. order' \in Seq(Abuse!Keys) /\ DOMAIN order' = 1 .. Len(order')
    BY <1>4, <1>5 DEF KeyLists
  <2> QED
    BY <1>4, <1>5, <2>1 DEF KeyLists, Abuse!IsInjective
<1>8. counted \in [Abuse!Keys -> [startedAt : Abuse!Times, count : Nat]]
  <2> SUFFICES ASSUME NEW k \in Abuse!Keys
               PROVE  counted[k] \in [startedAt : Abuse!Times, count : Nat]
    OBVIOUS
  <2>1. bucket[k] \in [startedAt : Abuse!Times, count : Nat] /\ now \in Abuse!Times
    BY DEF CountInv, Abuse!TypeOK
  <2>2. Abuse!Current(k) \in [startedAt : Abuse!Times, count : Nat]
    BY <2>1 DEF Abuse!Current
  <2>3. Abuse!NoBucket \in [startedAt : Abuse!Times, count : Nat]
    BY DEF Abuse!NoBucket, Abuse!Times
  <2> QED
    BY <2>1, <2>2, <2>3
<1> HIDE DEF counted
<1>9. admitted' \in [Abuse!Keys -> [Abuse!Times -> Nat]]
  <2>1. now \in Abuse!Times /\ \A k \in Abuse!Keys : admitted[k] \in [Abuse!Times -> Nat]
    BY DEF CountInv, Abuse!TypeOK
  <2>2. \A k \in Abuse!Keys : [admitted[k] EXCEPT ![now] = @ + 1] \in [Abuse!Times -> Nat]
    BY <2>1
  <2> QED
    BY <1>5, <2>1, <2>2
<1> QED
  BY <1>5, <1>6, <1>7, <1>8, <1>9 DEF CountInv, Abuse!TypeOK

LEMMA AbuseStep ==
    ASSUME CountInv, Abuse!Next
    PROVE  CountInv'
<1> USE Settings
<1>1. CASE Abuse!Tick
  BY <1>1 DEF Abuse!Tick, Abuse!limiter, Abuse!guard, CountInv, Abuse!TypeOK, Abuse!Times
<1>2. ASSUME NEW call \in Abuse!Calls, Abuse!Check(call)
      PROVE  CountInv'
  BY <1>2, ConsumeStep DEF Abuse!Check
<1>3. ASSUME NEW s \in Subjects, Abuse!RecordFailure(s)
      PROVE  CountInv'
  <2> DEFINE counted == IF failure[s].count > 0 /\ now - failure[s].startedAt < FailureWindow
                          THEN [failure[s] EXCEPT !.count = @ + 1]
                          ELSE [startedAt |-> now, count |-> 1]
             more == Append(failedAt[s], now)
  <2>1. /\ Len(failedAt[s]) < MaxFailures
        /\ failure' = [failure EXCEPT ![s] = counted]
        /\ failedAt' = [failedAt EXCEPT ![s] = more]
        /\ UNCHANGED <<now, bucket, order, admitted, evicted>>
    BY <1>3 DEF Abuse!RecordFailure, Abuse!limiter
  <2>2. /\ lockedUntil' \in [Subjects -> Nat] /\ quarantinedUntil' \in [Subjects -> Nat]
    <3>1. now + LockoutTime \in Nat /\ now + QuarantineTime \in Nat
      BY DEF CountInv, Abuse!TypeOK, Abuse!Times
    <3> QED
      BY <1>3, <3>1 DEF Abuse!RecordFailure, CountInv, Abuse!TypeOK
  <2>3. /\ failure[s] \in [startedAt : Abuse!Times, count : 0 .. MaxFailures]
        /\ failedAt[s] \in Seq(Abuse!Times) /\ now \in Abuse!Times
        /\ failure[s].count <= Len(failedAt[s])
    BY DEF CountInv, Abuse!TypeOK
  <2>4. /\ counted \in [startedAt : Abuse!Times, count : 0 .. MaxFailures]
        /\ counted.count <= Len(failedAt[s]) + 1
    <3> DEFINE n == Len(failedAt[s])
    <3>0. n \in Nat /\ n + 1 <= MaxFailures /\ 1 \in 0 .. MaxFailures
      <4>1. n \in Nat
        BY <2>3, LenProperties
      <4>2. n < MaxFailures
        BY <2>1
      <4> HIDE DEF n
      <4> QED
        BY <4>1, <4>2
    <3>1. ASSUME NEW f \in [startedAt : Abuse!Times, count : 0 .. MaxFailures], f.count <= n
          PROVE  LET g == [f EXCEPT !.count = @ + 1] IN
                 /\ g \in [startedAt : Abuse!Times, count : 0 .. MaxFailures]
                 /\ g.count <= n + 1
      <4> HIDE DEF n
      <4>1. f.count + 1 \in 0 .. MaxFailures /\ f.count + 1 <= n + 1
        BY <3>0, <3>1
      <4> QED
        BY <4>1
    <3>2. LET g == [startedAt |-> now, count |-> 1] IN
          /\ g \in [startedAt : Abuse!Times, count : 0 .. MaxFailures] /\ g.count <= n + 1
      BY <2>3, <3>0
    <3> QED
      BY <2>3, <3>1, <3>2
  <2>5. more \in Seq(Abuse!Times) /\ Len(more) = Len(failedAt[s]) + 1
    BY <2>3
  <2> HIDE DEF counted, more
  <2> QED
    <3>1. /\ failure' \in [Subjects -> [startedAt : Abuse!Times, count : 0 .. MaxFailures]]
          /\ failedAt' \in [Subjects -> Seq(Abuse!Times)]
      BY <2>1, <2>4, <2>5 DEF CountInv, Abuse!TypeOK
    <3>2. \A u \in Subjects : failure'[u].count <= Len(failedAt'[u]) /\ Len(failedAt'[u]) <= MaxFailures
      <4>1. Len(failedAt[s]) + 1 <= MaxFailures
        BY <2>1, <2>3
      <4>2. failure'[s] = counted /\ failedAt'[s] = more
        BY <2>1 DEF CountInv, Abuse!TypeOK
      <4>3. \A u \in Subjects \ {s} : failure'[u] = failure[u] /\ failedAt'[u] = failedAt[u]
        BY <2>1 DEF CountInv, Abuse!TypeOK
      <4> QED
        BY <2>4, <2>5, <4>1, <4>2, <4>3 DEF CountInv
    <3> QED
      BY <2>1, <2>2, <3>1, <3>2 DEF CountInv, Abuse!TypeOK
<1>4. ASSUME NEW s \in Subjects, Abuse!Forget(s),
             UNCHANGED <<now, bucket, order, admitted, evicted>>,
             quarantinedUntil' \in [Subjects -> Nat]
      PROVE  CountInv'
  <2>1. Abuse!NoBucket \in [startedAt : Abuse!Times, count : 0 .. MaxFailures]
    BY DEF Abuse!NoBucket, Abuse!Times
  <2>2. Abuse!NoBucket.count = 0
    BY DEF Abuse!NoBucket
  <2>3. <<>> \in Seq(Abuse!Times) /\ Len(<<>>) = 0
    OBVIOUS
  <2> QED
    BY <1>4, <2>1, <2>2, <2>3 DEF Abuse!Forget, CountInv, Abuse!TypeOK
<1>5. ASSUME NEW s \in Subjects, NEW time \in {1, QuarantineTime + 1},
             Abuse!QuarantineSubject(s, time)
      PROVE  CountInv'
  <2>1. now + time \in Nat
    BY DEF CountInv, Abuse!TypeOK, Abuse!Times
  <2> QED
    BY <1>5, <2>1 DEF Abuse!QuarantineSubject, Abuse!limiter, CountInv, Abuse!TypeOK
<1>6. ASSUME NEW s \in Subjects, Abuse!RecordSuccess(s) \/ Abuse!ReleaseSubject(s)
      PROVE  CountInv'
  <2>1. quarantinedUntil' \in [Subjects -> Nat]
    <3>1. quarantinedUntil \in [Subjects -> Nat]
      BY DEF CountInv, Abuse!TypeOK
    <3>2. quarantinedUntil' = quarantinedUntil \/ quarantinedUntil' = [quarantinedUntil EXCEPT ![s] = 0]
      BY <1>6 DEF Abuse!RecordSuccess, Abuse!ReleaseSubject
    <3> QED
      BY <3>1, <3>2
  <2> QED
    BY <1>4, <1>6, <2>1 DEF Abuse!RecordSuccess, Abuse!ReleaseSubject, Abuse!limiter
<1> QED
  BY <1>1, <1>2, <1>3, <1>5, <1>6 DEF Abuse!Next

-----------------------------------------------------------------------------
(* The rate limiter: what a bucket has counted, and what was let through in   *)
(* the length of a window before it was opened.                               *)

From(b) == {u \in Abuse!Times : u >= b}
Between(t, b) == {u \in Abuse!Times : t <= u /\ u < b}
Length(t) == Abuse!Span(t, t + Window - 1)

Counted(a, b, c) ==
    /\ c <= Limit /\ c = Total(a, From(b))
    /\ \A u \in Abuse!Times : u >= b + Window => a[u] = 0
    /\ \A t \in Abuse!Times : t + Window > b => Total(a, Between(t, b)) <= Limit

SpansHold(a) == \A t \in Abuse!Times : Total(a, Length(t)) <= 2 * Limit

KeyInv(k) ==
    /\ \A u \in Abuse!Times : u > now => admitted[k][u] = 0
    /\ k \notin evicted =>
          /\ SpansHold(admitted[k])
          /\ Abuse!Kept(k) => /\ bucket[k].startedAt <= now
                              /\ Counted(admitted[k], bucket[k].startedAt, bucket[k].count)
          /\ ~Abuse!Kept(k) => \A u \in Abuse!Times : admitted[k][u] = 0

LEMMA Rule ==
    /\ Abuse!Times \in SUBSET Nat /\ Limit \in Nat \ {0} /\ Window \in Nat \ {0}
    /\ \A t \in Abuse!Times : t \in Nat
BY SuiteAssumption DEF Abuse!Times

LEMMA Clock ==
    /\ Abuse!Times \in SUBSET Nat
    /\ \A S \in SUBSET Abuse!Times : IsFiniteSet(S)
    /\ \A a \in [Abuse!Times -> Nat], S \in SUBSET Abuse!Times : Total(a, S) \in Nat
    /\ \A a \in [Abuse!Times -> Nat], S \in SUBSET Abuse!Times : \A R \in SUBSET S :
          Total(a, R) <= Total(a, S)
    /\ \A t : Length(t) \in SUBSET Abuse!Times /\ From(t) \in SUBSET Abuse!Times
    /\ \A t, b : Between(t, b) \in SUBSET Abuse!Times
    /\ Limit \in Nat \ {0} /\ Window \in Nat \ {0}
<1>1. Abuse!Times \in SUBSET Nat /\ Limit \in Nat \ {0} /\ Window \in Nat \ {0}
  BY SuiteAssumption DEF Abuse!Times
<1>2. \A S \in SUBSET Abuse!Times : IsFiniteSet(S)
  <2>1. IsFiniteSet(Abuse!Times)
    BY Settings, FS_Interval DEF Abuse!Times
  <2> QED
    BY <2>1, FS_Subset
<1>3. \A a \in [Abuse!Times -> Nat], S \in SUBSET Abuse!Times : Total(a, S) \in Nat
  BY <1>2, TotalType
<1>4. ASSUME NEW a \in [Abuse!Times -> Nat], NEW S \in SUBSET Abuse!Times, NEW R \in SUBSET S
      PROVE  Total(a, R) <= Total(a, S)
  BY <1>2, TotalMonotone
<1>5. /\ \A t : Length(t) \in SUBSET Abuse!Times /\ From(t) \in SUBSET Abuse!Times
      /\ \A t, b : Between(t, b) \in SUBSET Abuse!Times
  BY DEF Length, From, Between, Abuse!Span
<1> QED
  BY <1>1, <1>2, <1>3, <1>4, <1>5

\* A span that reaches into the bucket's window is what the bucket counted and what came before.
LEMMA SpanAtBucket ==
    ASSUME NEW a \in [Abuse!Times -> Nat], NEW b \in Abuse!Times, NEW c \in Nat, Counted(a, b, c),
           NEW t \in Abuse!Times, t + Window > b
    PROVE  Total(a, Length(t)) <= 2 * Limit
<1> DEFINE S == Length(t)
           R == S \cap From(b)
<1>1. S \in SUBSET Abuse!Times /\ R \in SUBSET S /\ IsFiniteSet(S) /\ R \in SUBSET From(b)
      /\ S \ R \in SUBSET Between(t, b)
  <2>1. S \ R \in SUBSET Between(t, b)
    <3>1. ASSUME NEW u \in S \ R
          PROVE  u \in Between(t, b)
      <4>1. u \in Abuse!Times /\ t <= u /\ ~(u >= b)
        BY <3>1 DEF Length, Abuse!Span, From
      <4> QED
        BY <4>1, Rule DEF Between
    <3> QED
      BY <3>1
  <2> HIDE DEF R
  <2> QED
    BY <2>1, Clock DEF R
<1> HIDE DEF S, R
<1>2. Total(a, S) = Total(a, R) + Total(a, S \ R)
  <2>1. IsFiniteSet(S) /\ R \in SUBSET S /\ \A x \in S : a[x] \in Nat
    BY <1>1
  <2> QED
    BY <2>1, TotalUnion
<1>3. Total(a, R) <= Total(a, From(b)) /\ Total(a, S \ R) <= Total(a, Between(t, b))
  BY <1>1, Clock
<1>4. Total(a, From(b)) <= Limit /\ Total(a, Between(t, b)) <= Limit
  BY DEF Counted
<1>5. /\ Total(a, R) \in Nat /\ Total(a, S \ R) \in Nat /\ Limit \in Nat
      /\ Total(a, From(b)) \in Nat /\ Total(a, Between(t, b)) \in Nat
  <2>1. R \in SUBSET Abuse!Times /\ S \ R \in SUBSET Abuse!Times
    BY <1>1
  <2> QED
    BY <2>1, Clock
<1> QED
  BY <1>2, <1>3, <1>4, <1>5 DEF S

\* One call more, at a time.
More(a, n) == [a EXCEPT ![n] = @ + 1]

LEMMA OneMore ==
    ASSUME NEW a \in [Abuse!Times -> Nat], NEW n \in Abuse!Times,
           NEW S \in SUBSET Abuse!Times
    PROVE  /\ More(a, n) \in [Abuse!Times -> Nat]
           /\ n \notin S => Total(More(a, n), S) = Total(a, S)
           /\ n \in S => Total(More(a, n), S) = Total(a, S) + 1
<1> DEFINE more == More(a, n)
<1>1. /\ more \in [Abuse!Times -> Nat] /\ more[n] = a[n] + 1 /\ a[n] \in Nat
      /\ \A y \in Abuse!Times \ {n} : a[y] = more[y]
  BY DEF More
<1> HIDE DEF more
<1>2. /\ IsFiniteSet(S) /\ Total(more, S) \in Nat /\ Total(a, S) \in Nat
      /\ \A y \in S : a[y] \in Nat /\ more[y] \in Nat
      /\ \A y \in S \ {n} : a[y] = more[y]
  BY <1>1, Clock
<1>3. /\ n \notin S => Total(more, S) = Total(a, S)
      /\ n \in S => Total(more, S) + a[n] = Total(a, S) + more[n]
  BY <1>2, TotalChanged
<1>4. n \in S => Total(more, S) = Total(a, S) + 1
  BY <1>1, <1>2, <1>3
<1> QED
  BY <1>1, <1>3, <1>4 DEF more

\* Every span, from those that end before the bucket and the bucket itself.
LEMMA SpansAfter ==
    ASSUME NEW a \in [Abuse!Times -> Nat], NEW n \in Abuse!Times, NEW b \in Abuse!Times,
           NEW c \in Nat, b <= n, SpansHold(a), Counted(More(a, n), b, c)
    PROVE  SpansHold(More(a, n))
<1> DEFINE more == More(a, n)
<1>1. more \in [Abuse!Times -> Nat]
  BY OneMore, Clock
<1>2. ASSUME NEW t \in Abuse!Times
      PROVE  Total(more, Length(t)) <= 2 * Limit
  <2>1. CASE t + Window > b
    <3> HIDE DEF more
    <3>1. Counted(more, b, c)
      BY DEF more
    <3> QED
      BY <1>1, <2>1, <3>1, SpanAtBucket
  <2>2. CASE ~(t + Window > b)
    <3>1. n \notin Length(t)
      BY <2>2, Rule DEF Length, Abuse!Span
    <3>2. Total(more, Length(t)) = Total(a, Length(t))
      <4>1. Length(t) \in SUBSET Abuse!Times
        BY Clock
      <4> QED
        BY <3>1, <4>1, OneMore
    <3> HIDE DEF more
    <3> QED
      BY <3>2 DEF SpansHold
  <2> QED
    BY <2>1, <2>2
<1> QED
  BY <1>2 DEF SpansHold

LEMMA SameBucket ==
    ASSUME NEW a \in [Abuse!Times -> Nat], NEW n \in Abuse!Times, NEW b \in Abuse!Times,
           NEW c \in Nat, b <= n, n - b < Window, c + 1 <= Limit, SpansHold(a), Counted(a, b, c)
    PROVE  /\ Counted(More(a, n), b, c + 1)
           /\ SpansHold(More(a, n))
<1> DEFINE more == More(a, n)
<1>1. /\ Total(more, From(b)) = Total(a, From(b)) + 1
      /\ \A t \in Abuse!Times : Total(more, Between(t, b)) = Total(a, Between(t, b))
  <2>1. n \in From(b) /\ From(b) \in SUBSET Abuse!Times
    BY Rule DEF From
  <2>2. Total(more, From(b)) = Total(a, From(b)) + 1
    BY <2>1, OneMore
  <2>3. ASSUME NEW t \in Abuse!Times
        PROVE  Total(more, Between(t, b)) = Total(a, Between(t, b))
    <3>1. n \notin Between(t, b) /\ Between(t, b) \in SUBSET Abuse!Times
      BY Rule DEF Between
    <3> QED
      BY <3>1, OneMore
  <2> QED
    BY <2>2, <2>3
<1>2. \A u \in Abuse!Times : u >= b + Window => more[u] = 0
  <2>1. ASSUME NEW u \in Abuse!Times, u >= b + Window
        PROVE  more[u] = 0
    <3>1. u # n /\ a[u] = 0
      BY <2>1, Rule DEF Counted
    <3> QED
      BY <3>1 DEF More
  <2> QED
    BY <2>1
<1> HIDE DEF more
<1>3. Counted(more, b, c + 1)
  BY <1>1, <1>2 DEF Counted
<1>4. c + 1 \in Nat
  OBVIOUS
<1> QED
  BY <1>3, <1>4, SpansAfter DEF more

LEMMA NewBucket ==
    ASSUME NEW a \in [Abuse!Times -> Nat], NEW n \in Abuse!Times, SpansHold(a),
           \A u \in Abuse!Times : u >= n => a[u] = 0,
           \A t \in Abuse!Times : t + Window > n => Total(a, Between(t, n)) <= Limit
    PROVE  /\ Counted(More(a, n), n, 1)
           /\ SpansHold(More(a, n))
<1> DEFINE more == More(a, n)
<1>1. /\ Total(more, From(n)) = Total(a, From(n)) + 1
      /\ \A t \in Abuse!Times : Total(more, Between(t, n)) = Total(a, Between(t, n))
  <2>1. n \in From(n) /\ From(n) \in SUBSET Abuse!Times
    BY Rule DEF From
  <2>2. Total(more, From(n)) = Total(a, From(n)) + 1
    BY <2>1, OneMore
  <2>3. ASSUME NEW t \in Abuse!Times
        PROVE  Total(more, Between(t, n)) = Total(a, Between(t, n))
    <3>1. n \notin Between(t, n) /\ Between(t, n) \in SUBSET Abuse!Times
      BY Rule DEF Between
    <3> QED
      BY <3>1, OneMore
  <2> QED
    BY <2>2, <2>3
<1>2. \A u \in Abuse!Times : u >= n + Window => more[u] = 0
  <2>1. ASSUME NEW u \in Abuse!Times, u >= n + Window
        PROVE  more[u] = 0
    <3>1. u # n /\ a[u] = 0
      BY <2>1, Rule
    <3> QED
      BY <3>1 DEF More
  <2> QED
    BY <2>1
<1>3. Total(a, From(n)) = 0
  <2>1. IsFiniteSet(From(n)) /\ \A u \in From(n) : a[u] = 0
    BY Clock DEF From
  <2> QED
    BY <2>1, TotalZero
<1> HIDE DEF more
<1>4. Counted(more, n, 1)
  BY <1>1, <1>2, <1>3, Clock DEF Counted
<1>5. n <= n /\ 1 \in Nat
  BY Rule
<1> QED
  BY <1>4, <1>5, SpansAfter DEF more

\* When a bucket's window is over, nothing was let through since.
LEMMA BucketOver ==
    ASSUME NEW a \in [Abuse!Times -> Nat], NEW n \in Abuse!Times, NEW b \in Abuse!Times,
           NEW c \in Nat, b <= n, ~(n - b < Window), Counted(a, b, c)
    PROVE  /\ \A u \in Abuse!Times : u >= n => a[u] = 0
           /\ \A t \in Abuse!Times : t + Window > n => Total(a, Between(t, n)) <= Limit
<1>1. \A u \in Abuse!Times : u >= n => a[u] = 0
  BY Clock DEF Counted
<1>2. ASSUME NEW t \in Abuse!Times, t + Window > n
      PROVE  Total(a, Between(t, n)) <= Limit
  <2>1. Between(t, n) \in SUBSET From(b)
    <3>1. ASSUME NEW u \in Between(t, n)
          PROVE  u \in From(b)
      <4>1. u \in Abuse!Times /\ t <= u
        BY <3>1 DEF Between
      <4> QED
        BY <1>2, <4>1, Rule DEF From
    <3> QED
      BY <3>1
  <2>2. Total(a, Between(t, n)) <= Total(a, From(b)) /\ Total(a, From(b)) <= Limit
    BY <2>1, Clock DEF Counted
  <2>3. Total(a, Between(t, n)) \in Nat /\ Total(a, From(b)) \in Nat
    BY Clock
  <2> QED
    BY <2>2, <2>3, Clock
<1> QED
  BY <1>1, <1>2

LEMMA InsertedKeys ==
    ASSUME NEW keys \in Seq(Abuse!Keys), NEW k
    PROVE  Abuse!ToSet(Abuse!Inserted(keys, k)) = Abuse!ToSet(keys) \cup {k}
<1>1. CASE k \in Abuse!ToSet(keys)
  BY <1>1 DEF Abuse!Inserted
<1>2. CASE k \notin Abuse!ToSet(keys)
  <2> DEFINE more == Append(keys, k)
             n == Len(keys)
  <2>1. /\ n \in Nat /\ Len(more) = n + 1 /\ more[n + 1] = k /\ DOMAIN more = 1 .. n + 1
        /\ DOMAIN keys = 1 .. n /\ \A i \in 1 .. n : more[i] = keys[i]
    OBVIOUS
  <2> HIDE DEF more, n
  <2>2. \A i : i \in 1 .. n + 1 <=> i \in 1 .. n \/ i = n + 1
    BY <2>1
  <2>3. ASSUME NEW x
        PROVE  x \in Abuse!ToSet(more) <=> x \in Abuse!ToSet(keys) \/ x = k
    <3>1. x \in Abuse!ToSet(more) <=> \E i \in 1 .. n + 1 : x = more[i]
      BY <2>1 DEF Abuse!ToSet
    <3>2. x \in Abuse!ToSet(keys) <=> \E i \in 1 .. n : x = keys[i]
      BY <2>1 DEF Abuse!ToSet
    <3> QED
      BY <2>1, <2>2, <3>1, <3>2
  <2> QED
    BY <1>2, <2>3 DEF Abuse!Inserted, more
<1> QED
  BY <1>1, <1>2

LEMMA PrunedKeys ==
    ASSUME NEW keys \in KeyLists
    PROVE  Abuse!ToSet(Abuse!Pruned(keys)) \subseteq Abuse!ToSet(keys)
<1>0. keys \in Seq(Abuse!Keys) /\ Len(keys) \in Nat /\ DOMAIN keys = 1 .. Len(keys)
      /\ MaxBuckets \in Nat \ {0}
  BY Settings DEF KeyLists
<1>1. CASE Len(keys) <= MaxBuckets
  BY <1>1 DEF Abuse!Pruned
<1>2. CASE ~(Len(keys) <= MaxBuckets)
  <2> DEFINE from == Len(keys) - MaxBuckets + 1
             left == SubSeq(keys, from, Len(keys))
  <2>1. /\ from \in Int /\ Len(keys) \in Int /\ from <= Len(keys) /\ from >= 1
        /\ Len(keys) - from + 1 = MaxBuckets
        /\ \A i \in from .. Len(keys) : keys[i] \in Abuse!Keys
        /\ \A i \in 1 .. MaxBuckets : from + i - 1 \in 1 .. Len(keys)
    BY <1>0, <1>2
  <2> HIDE DEF from
  <2>2. /\ left \in Seq(Abuse!Keys) /\ Len(left) = MaxBuckets
        /\ \A i \in 1 .. MaxBuckets : left[i] = keys[from + i - 1]
    BY <2>1, SubSeqProperties
  <2> HIDE DEF left
  <2>3. DOMAIN left = 1 .. MaxBuckets
    BY <2>2
  <2>4. Abuse!ToSet(left) \subseteq Abuse!ToSet(keys)
    BY <1>0, <2>1, <2>2, <2>3 DEF Abuse!ToSet
  <2> QED
    BY <1>2, <2>4 DEF Abuse!Pruned, left, from
<1> QED
  BY <1>1, <1>2

LEMMA KeysStep ==
    ASSUME CountInv, \A k \in Abuse!Keys : KeyInv(k), NEW call \in Abuse!Calls, Abuse!Consume(call)
    PROVE  \A k \in Abuse!Keys : KeyInv(k)'
<1>1. call[1] \in Abuse!Keys /\ call[2] \in Abuse!Keys /\ Abuse!ToSet(call) = {call[1], call[2]}
  BY DEF Abuse!Calls, Abuse!Keys, Abuse!ToSet
<1>2. order \in KeyLists /\ order \in Seq(Abuse!Keys)
  <2>1. /\ order \in Seq(Abuse!Keys) /\ DOMAIN order = 1 .. Len(order)
        /\ \A i, j \in DOMAIN order : order[i] = order[j] => i = j
    BY DEF CountInv, Abuse!TypeOK, Abuse!IsInjective
  <2> QED
    BY <2>1 DEF KeyLists
<1> DEFINE first == Abuse!Inserted(order, call[1])
           added == Abuse!Inserted(first, call[2])
           left == Abuse!ToSet(Abuse!Pruned(added))
<1>3. first \in KeyLists /\ first \in Seq(Abuse!Keys) /\ added \in KeyLists
  <2>1. first \in KeyLists
    BY <1>1, <1>2, InsertedOnce
  <2> HIDE DEF first
  <2> QED
    BY <1>1, <2>1, InsertedOnce DEF KeyLists
<1>4. Abuse!ToSet(added) = Abuse!ToSet(order) \cup Abuse!ToSet(call)
  <2>1. Abuse!ToSet(first) = Abuse!ToSet(order) \cup {call[1]}
    BY <1>2, InsertedKeys
  <2> HIDE DEF first
  <2>2. Abuse!ToSet(added) = Abuse!ToSet(first) \cup {call[2]}
    BY <1>3, InsertedKeys
  <2> QED
    BY <1>1, <2>1, <2>2
<1>5. left \subseteq Abuse!ToSet(added)
  <2> HIDE DEF added
  <2> QED
    BY <1>3, PrunedKeys
<1>6. /\ Abuse!Limited(call) = {}
      /\ order' = Abuse!Pruned(added)
      /\ bucket' = [k \in Abuse!Keys |->
              IF k \notin left THEN Abuse!NoBucket
              ELSE IF k \in Abuse!ToSet(call) THEN [Abuse!Current(k) EXCEPT !.count = @ + 1]
              ELSE bucket[k]]
      /\ evicted' = evicted \cup (Abuse!ToSet(added) \ left)
      /\ admitted' = [k \in Abuse!Keys |->
              IF k \in Abuse!ToSet(call) THEN [admitted[k] EXCEPT ![now] = @ + 1] ELSE admitted[k]]
      /\ now' = now
  BY DEF Abuse!Consume
<1>7. \A k : Abuse!Kept(k)' <=> k \in left
  BY <1>6 DEF Abuse!Kept
<1> HIDE DEF first, added, left
<1> TAKE k \in Abuse!Keys
<1>8. KeyInv(k)
  OBVIOUS
<1>9. /\ admitted[k] \in [Abuse!Times -> Nat] /\ now \in Abuse!Times
      /\ bucket[k] \in [startedAt : Abuse!Times, count : Nat]
  BY DEF CountInv, Abuse!TypeOK
<1>10. CASE k \in Abuse!ToSet(call)
  <2> DEFINE a == admitted[k]
  <2>1. admitted'[k] = More(a, now)
    BY <1>6, <1>10 DEF More
  <2>2. ASSUME NEW u \in Abuse!Times, u > now
        PROVE  admitted'[k][u] = 0
    <3>1. a[u] = 0 /\ u # now
      BY <1>8, <1>9, <2>2, Rule DEF KeyInv
    <3> QED
      BY <2>1, <3>1 DEF More
  <2>3. ASSUME k \notin evicted'
        PROVE  /\ SpansHold(admitted'[k]) /\ Abuse!Kept(k)' /\ bucket'[k].startedAt <= now
               /\ Counted(admitted'[k], bucket'[k].startedAt, bucket'[k].count)
    <3>1. k \in left /\ k \notin evicted
      BY <1>4, <1>6, <1>10, <2>3
    <3>2. /\ bucket'[k] = [Abuse!Current(k) EXCEPT !.count = @ + 1]
          /\ Abuse!Current(k).count + 1 <= Limit
      <4>1. ~(Abuse!Current(k).count + 1 > Limit)
        BY <1>6, <1>10 DEF Abuse!Limited
      <4>2. Abuse!Current(k).count \in Nat
        BY <1>9 DEF Abuse!Current
      <4> QED
        BY <1>6, <1>10, <3>1, <4>1, <4>2, Rule
    <3>3. SpansHold(a)
      BY <1>8, <3>1 DEF KeyInv
    <3> HIDE DEF a
    <3>4. CASE Abuse!Kept(k) /\ now - bucket[k].startedAt < Window
      <4> DEFINE b == bucket[k].startedAt
                 c == bucket[k].count
      <4>1. bucket'[k].startedAt = b /\ bucket'[k].count = c + 1 /\ c + 1 <= Limit
        BY <1>9, <3>2, <3>4 DEF Abuse!Current
      <4>2. b <= now /\ Counted(a, b, c)
        BY <1>8, <3>1, <3>4 DEF KeyInv, a
      <4>3. a \in [Abuse!Times -> Nat] /\ b \in Abuse!Times /\ c \in Nat
        BY <1>9 DEF a
      <4> HIDE DEF b, c
      <4>4. Counted(More(a, now), b, c + 1) /\ SpansHold(More(a, now))
        BY <1>9, <3>3, <3>4, <4>1, <4>2, <4>3, SameBucket DEF b
      <4> QED
        BY <1>7, <2>1, <3>1, <4>1, <4>2, <4>4
    <3>5. CASE ~(Abuse!Kept(k) /\ now - bucket[k].startedAt < Window)
      <4>1. bucket'[k].startedAt = now /\ bucket'[k].count = 1
        BY <3>2, <3>5 DEF Abuse!Current
      <4>2. /\ \A u \in Abuse!Times : u >= now => a[u] = 0
            /\ \A t \in Abuse!Times : t + Window > now => Total(a, Between(t, now)) <= Limit
        <5>1. CASE Abuse!Kept(k)
          <6> DEFINE b == bucket[k].startedAt
                     c == bucket[k].count
          <6>1. b <= now /\ Counted(a, b, c) /\ ~(now - b < Window)
            BY <1>8, <3>1, <3>5, <5>1 DEF KeyInv, a
          <6>2. a \in [Abuse!Times -> Nat] /\ b \in Abuse!Times /\ c \in Nat
            BY <1>9 DEF a
          <6> HIDE DEF b, c
          <6> QED
            BY <1>9, <6>1, <6>2, BucketOver
        <5>2. CASE ~Abuse!Kept(k)
          <6>1. \A u \in Abuse!Times : a[u] = 0
            BY <1>8, <3>1, <5>2 DEF KeyInv, a
          <6>2. ASSUME NEW t \in Abuse!Times
                PROVE  Total(a, Between(t, now)) <= Limit
            <7>1. Between(t, now) \in SUBSET Abuse!Times /\ IsFiniteSet(Between(t, now))
              BY Clock
            <7>2. Total(a, Between(t, now)) = 0
              BY <6>1, <7>1, TotalZero
            <7> QED
              BY <7>2, Rule
          <6> QED
            BY <6>1, <6>2
        <5> QED
          BY <5>1, <5>2
      <4>3. a \in [Abuse!Times -> Nat]
        BY <1>9 DEF a
      <4>4. Counted(More(a, now), now, 1) /\ SpansHold(More(a, now))
        BY <1>9, <3>3, <4>2, <4>3, NewBucket
      <4>5. now <= now
        BY <1>9, Rule
      <4> QED
        BY <1>7, <2>1, <3>1, <4>1, <4>4, <4>5
    <3> QED
      BY <3>4, <3>5
  <2> QED
    BY <1>6, <2>2, <2>3 DEF KeyInv
<1>11. CASE k \notin Abuse!ToSet(call)
  <2>1. admitted'[k] = admitted[k]
    BY <1>6, <1>11
  <2>2. ASSUME k \notin evicted'
        PROVE  /\ k \notin evicted /\ (Abuse!Kept(k)' <=> Abuse!Kept(k))
               /\ Abuse!Kept(k)' => bucket'[k] = bucket[k]
    <3>1. k \notin evicted /\ (k \in left \/ k \notin Abuse!ToSet(added))
      BY <1>6, <2>2
    <3>2. k \in Abuse!ToSet(added) <=> Abuse!Kept(k)
      BY <1>4, <1>11 DEF Abuse!Kept
    <3> QED
      BY <1>5, <1>6, <1>7, <1>11, <3>1, <3>2
  <2> QED
    BY <1>6, <1>8, <2>1, <2>2 DEF KeyInv
<1> QED
  BY <1>10, <1>11

-----------------------------------------------------------------------------
(* The guard: of `f`, the times of a subject's failures since it was last     *)
(* forgotten, the last `c` are those of the window opened at `p`.             *)

TimesInv(f, n, c, p) ==
    /\ c <= Len(f) /\ (c = 0 => Len(f) = 0) /\ p <= n
    /\ \A i \in 1 .. Len(f) : /\ f[i] <= n
                              /\ i <= Len(f) - c => f[i] < p
                              /\ i > Len(f) - c => p <= f[i] /\ f[i] < p + FailureWindow
    /\ \A i, j \in 1 .. Len(f) : i <= j => f[i] <= f[j]

\* What a lockout until `l` covers: the threshold in this window, in those before it, and twice
\* the threshold in any.
CoverInv(f, c, p, l) ==
    /\ c >= FailureThreshold => l >= f[Len(f)] + LockoutTime
    /\ \A i \in 1 .. Len(f) :
          /\ (Len(f) - c - i + 1 >= FailureThreshold /\ f[i] + FailureWindow > p)
                => l >= f[i] + LockoutTime
          /\ (i + 2 * FailureThreshold - 2 <= Len(f)
                /\ f[i + 2 * FailureThreshold - 2] < f[i] + FailureWindow)
                => l >= f[i] + LockoutTime

FailureInv(s) ==
    /\ TimesInv(failedAt[s], now, failure[s].count, failure[s].startedAt)
    /\ CoverInv(failedAt[s], failure[s].count, failure[s].startedAt, lockedUntil[s])

LEMMA GuardRule ==
    /\ Abuse!Times \in SUBSET Nat /\ (\A t \in Abuse!Times : t \in Nat)
    /\ FailureThreshold \in Nat \ {0} /\ FailureWindow \in Nat \ {0} /\ LockoutTime \in Nat
BY SuiteAssumption DEF Abuse!Times

\* One failure more, in the window that is open or in a new one.
LEMMA FailureCounted ==
    ASSUME NEW f \in Seq(Abuse!Times), NEW n \in Abuse!Times, NEW p \in Abuse!Times,
           NEW c \in Nat, NEW l \in Nat, TimesInv(f, n, c, p), CoverInv(f, c, p, l),
           NEW d \in Nat, NEW q \in Abuse!Times, NEW k \in Nat,
           \/ c > 0 /\ n - p < FailureWindow /\ d = c + 1 /\ q = p
           \/ ~(c > 0 /\ n - p < FailureWindow) /\ d = 1 /\ q = n,
           k = IF d >= FailureThreshold THEN n + LockoutTime ELSE l
    PROVE  TimesInv(Append(f, n), n, d, q) /\ CoverInv(Append(f, n), d, q, k)
<1> USE GuardRule
<1> DEFINE m == Len(f)
           g == Append(f, n)
<1>1. /\ m \in Nat /\ Len(g) = m + 1 /\ g[m + 1] = n
      /\ \A i \in 1 .. m : g[i] = f[i] /\ f[i] \in Nat
      /\ n \in Nat /\ p \in Nat /\ q \in Nat
  <2>1. \A i \in 1 .. m : f[i] \in Abuse!Times
    OBVIOUS
  <2>2. m \in Nat /\ Len(g) = m + 1 /\ g[m + 1] = n /\ \A i \in 1 .. m : g[i] = f[i]
    OBVIOUS
  <2> HIDE DEF g, m
  <2> QED
    BY <2>1, <2>2
<1> HIDE DEF g
<1>2. /\ c <= m /\ (c = 0 => m = 0) /\ p <= n
      /\ \A i \in 1 .. m : /\ f[i] <= n
                           /\ i <= m - c => f[i] < p
                           /\ i > m - c => p <= f[i] /\ f[i] < p + FailureWindow
      /\ \A i, j \in 1 .. m : i <= j => f[i] <= f[j]
  BY DEF TimesInv
<1>3. /\ c >= FailureThreshold => l >= f[m] + LockoutTime
      /\ \A i \in 1 .. m :
            /\ (m - c - i + 1 >= FailureThreshold /\ f[i] + FailureWindow > p)
                  => l >= f[i] + LockoutTime
            /\ (i + 2 * FailureThreshold - 2 <= m
                  /\ f[i + 2 * FailureThreshold - 2] < f[i] + FailureWindow)
                  => l >= f[i] + LockoutTime
  BY DEF CoverInv
<1> HIDE DEF m
<1>4. \A i : i \in 1 .. m + 1 <=> i \in 1 .. m \/ i = m + 1
  BY <1>1
<1>5. /\ d \in Nat \ {0} /\ d <= m + 1 /\ q <= n /\ n < q + FailureWindow
      /\ \A i \in 1 .. m : /\ i <= m + 1 - d => f[i] < q
                           /\ i > m + 1 - d => q <= f[i] /\ f[i] < q + FailureWindow
  <2>1. CASE c > 0 /\ n - p < FailureWindow
    <3>1. d = c + 1 /\ q = p
      BY <2>1
    <3>2. \A i \in 1 .. m : (i <= m + 1 - d <=> i <= m - c) /\ (i > m + 1 - d <=> i > m - c)
      BY <1>1, <3>1
    <3> QED
      BY <1>1, <1>2, <2>1, <3>1, <3>2
  <2>2. CASE ~(c > 0 /\ n - p < FailureWindow)
    <3>1. d = 1 /\ q = n
      BY <2>2
    <3>2. ASSUME NEW i \in 1 .. m
          PROVE  f[i] < n
      <4>1. c > 0 /\ n >= p + FailureWindow
        BY <1>1, <1>2, <2>2
      <4> QED
        BY <1>1, <1>2, <4>1
    <3> QED
      BY <1>1, <3>1, <3>2
  <2> QED
    BY <2>1, <2>2
<1>6. TimesInv(g, n, d, q)
  <2>1. ASSUME NEW i \in 1 .. m + 1
        PROVE  /\ g[i] <= n
               /\ i <= m + 1 - d => g[i] < q
               /\ i > m + 1 - d => q <= g[i] /\ g[i] < q + FailureWindow
    <3>1. CASE i \in 1 .. m
      BY <1>1, <1>2, <1>5, <3>1
    <3>2. CASE i = m + 1
      BY <1>1, <1>5, <3>2
    <3> QED
      BY <1>4, <3>1, <3>2
  <2>2. ASSUME NEW i \in 1 .. m + 1, NEW j \in 1 .. m + 1, i <= j
        PROVE  g[i] <= g[j]
    <3>1. CASE j = m + 1
      BY <1>1, <2>1, <3>1
    <3>2. CASE j # m + 1
      <4>1. i \in 1 .. m /\ j \in 1 .. m
        BY <1>1, <2>2, <3>2
      <4> QED
        BY <1>1, <1>2, <2>2, <4>1
    <3> QED
      BY <3>1, <3>2
  <2> QED
    BY <1>1, <1>5, <2>1, <2>2 DEF TimesInv
<1>0. \A i \in 1 .. m + 1 : g[i] <= n /\ g[i] \in Nat
  BY <1>1, <1>2, <1>4
\* A lockout never gets shorter by a failure.
<1>7. \A i \in 1 .. m : l >= f[i] + LockoutTime => k >= f[i] + LockoutTime
  BY <1>1, <1>2
\* The threshold reached in the windows before the one of this failure.
<1>8. ASSUME NEW i \in 1 .. m, m + 1 - d - i + 1 >= FailureThreshold, f[i] + FailureWindow > q
      PROVE  k >= f[i] + LockoutTime
  <2>1. CASE c > 0 /\ n - p < FailureWindow
    <3>1. m - c - i + 1 >= FailureThreshold /\ f[i] + FailureWindow > p
      <4>1. d = c + 1 /\ q = p
        BY <2>1
      <4> QED
        BY <1>1, <1>8, <4>1
    <3> QED
      BY <1>3, <1>7, <3>1
  <2>2. CASE ~(c > 0 /\ n - p < FailureWindow)
    <3>1. d = 1 /\ q = n /\ c > 0 /\ n >= p + FailureWindow
      BY <1>1, <1>2, <2>2
    <3>2. i > m - c
      BY <1>1, <1>2, <1>8, <3>1
    <3>3. c >= FailureThreshold
      BY <1>1, <1>8, <3>1, <3>2
    <3>4. m \in 1 .. m /\ f[i] <= f[m] /\ l >= f[m] + LockoutTime
      BY <1>1, <1>2, <1>3, <3>3
    <3> QED
      BY <1>1, <1>7, <3>4
  <2> QED
    BY <2>1, <2>2
\* Twice the threshold, up to this failure or to an earlier one.
<1>9. ASSUME NEW i \in 1 .. m + 1, i + 2 * FailureThreshold - 2 <= m + 1,
             g[i + 2 * FailureThreshold - 2] < g[i] + FailureWindow
      PROVE  k >= g[i] + LockoutTime
  <2> DEFINE j == i + 2 * FailureThreshold - 2
  <2>1. j \in 1 .. m + 1 /\ i <= j
    BY <1>1, <1>9
  <2>2. CASE j <= m
    <3>1. i \in 1 .. m /\ j \in 1 .. m /\ g[i] = f[i] /\ g[j] = f[j]
      BY <1>1, <2>1, <2>2
    <3> QED
      BY <1>3, <1>7, <1>9, <2>2, <3>1
  <2>3. CASE j = m + 1
    <3>1. CASE d >= FailureThreshold
      <4>1. k = n + LockoutTime
        BY <3>1
      <4> QED
        BY <1>0, <1>1, <1>9, <4>1
    <3>2. CASE d < FailureThreshold
      <4>1. i \in 1 .. m /\ m + 1 - d - i + 1 >= FailureThreshold
        BY <1>1, <1>5, <2>3, <3>2
      <4>2. g[j] = n /\ g[i] = f[i] /\ f[i] + FailureWindow > q
        <5>1. g[j] = n /\ g[i] = f[i]
          BY <1>1, <2>3, <4>1
        <5>2. n < f[i] + FailureWindow /\ f[i] \in Nat
          BY <1>1, <1>9, <4>1, <5>1
        <5> QED
          BY <1>1, <1>5, <5>1, <5>2
      <4> QED
        BY <1>8, <4>1, <4>2
    <3> QED
      BY <1>5, <3>1, <3>2
  <2> QED
    BY <1>1, <2>1, <2>2, <2>3
<1>10. CoverInv(g, d, q, k)
  <2>1. d >= FailureThreshold => k >= g[m + 1] + LockoutTime
    BY <1>1
  <2>2. ASSUME NEW i \in 1 .. m + 1, m + 1 - d - i + 1 >= FailureThreshold,
               g[i] + FailureWindow > q
        PROVE  k >= g[i] + LockoutTime
    <3>1. i \in 1 .. m
      BY <1>1, <1>5, <2>2
    <3> QED
      BY <1>1, <1>8, <2>2, <3>1
  <2> QED
    BY <1>1, <1>9, <2>1, <2>2 DEF CoverInv
<1> QED
  BY <1>6, <1>10 DEF g

\* As many failures as that in the length of a window, and the first of them is covered.
LEMMA RecentLocked ==
    ASSUME CountInv, NEW s \in Subjects, FailureInv(s),
           Abuse!Cardinality(Abuse!Recent(s)) >= 2 * FailureThreshold - 1
    PROVE  \E i \in Abuse!Recent(s) : lockedUntil[s] >= failedAt[s][i] + LockoutTime
<1> USE GuardRule
<1> DEFINE f == failedAt[s]
           m == Len(f)
           R == Abuse!Recent(s)
<1>1. f \in Seq(Abuse!Times) /\ m \in Nat /\ DOMAIN f = 1 .. m /\ now \in Nat
      /\ (\A i \in 1 .. m : f[i] \in Nat) /\ lockedUntil[s] \in Nat
  <2>1. f \in Seq(Abuse!Times) /\ now \in Nat /\ lockedUntil[s] \in Nat
    BY DEF CountInv, Abuse!TypeOK
  <2>2. \A i \in 1 .. m : f[i] \in Abuse!Times
    BY <2>1
  <2>3. m \in Nat /\ DOMAIN f = 1 .. m
    BY <2>1
  <2> HIDE DEF f, m
  <2> QED
    BY <2>1, <2>2, <2>3
<1>2. /\ \A i \in 1 .. m : f[i] <= now
      /\ \A i, j \in 1 .. m : i <= j => f[i] <= f[j]
      /\ \A i \in 1 .. m : (i + 2 * FailureThreshold - 2 <= m
                               /\ f[i + 2 * FailureThreshold - 2] < f[i] + FailureWindow)
                               => lockedUntil[s] >= f[i] + LockoutTime
  BY DEF FailureInv, TimesInv, CoverInv
<1>3. R = {i \in 1 .. m : now - f[i] < FailureWindow}
  BY <1>1 DEF Abuse!Recent
<1>4. Cardinality(R) >= 2 * FailureThreshold - 1
  BY DEF Abuse!Cardinality, Abuse!IsFiniteSet, Cardinality, IsFiniteSet
<1> HIDE DEF f, m, R
<1>5. IsFiniteSet(R) /\ R \in SUBSET Nat /\ R # {} /\ Cardinality(R) \in Nat
  <2>1. IsFiniteSet(1 .. m) /\ R \in SUBSET (1 .. m)
    BY <1>1, <1>3, FS_Interval
  <2>2. IsFiniteSet(R) /\ Cardinality(R) \in Nat
    BY <2>1, FS_Subset, FS_CardinalityType
  <2> QED
    BY <1>1, <1>4, <2>1, <2>2, FS_EmptySet
<1>6. PICK i \in R : \A j \in R : i <= j
  BY <1>5, LeastOfAll
<1>7. i \in 1 .. m /\ now < f[i] + FailureWindow
  BY <1>1, <1>3
<1>8. Cardinality(R) <= m - i + 1
  <2>1. R \in SUBSET (i .. m)
    BY <1>1, <1>3, <1>6
  <2>2. IsFiniteSet(i .. m) /\ Cardinality(i .. m) = m - i + 1
    BY <1>1, <1>7, FS_Interval
  <2> QED
    BY <2>1, <2>2, FS_Subset
<1> DEFINE j == i + 2 * FailureThreshold - 2
<1>9. j <= m /\ j \in 1 .. m
  BY <1>1, <1>4, <1>5, <1>7, <1>8
<1>10. f[j] < f[i] + FailureWindow
  BY <1>1, <1>2, <1>7, <1>9
<1>11. lockedUntil[s] >= f[i] + LockoutTime
  BY <1>2, <1>7, <1>9, <1>10
<1> QED
  BY <1>6, <1>11 DEF f, R

AbuseInv ==
    /\ CountInv
    /\ \A k \in Abuse!Keys : KeyInv(k)
    /\ \A s \in Subjects : FailureInv(s)

LEMMA LimiterRests ==
    ASSUME \A k \in Abuse!Keys : KeyInv(k), UNCHANGED <<bucket, order, admitted, evicted>>,
           now \in Nat, now' \in Nat, now <= now', CountInv
    PROVE  \A k \in Abuse!Keys : KeyInv(k)'
<1> TAKE k \in Abuse!Keys
<1>1. \A u \in Abuse!Times : u > now' => admitted'[k][u] = 0
  <2>1. ASSUME NEW u \in Abuse!Times, u > now'
        PROVE  u > now
    BY <2>1, Rule
  <2> QED
    BY <2>1 DEF KeyInv
<1>2. bucket[k].startedAt <= now => bucket'[k].startedAt <= now'
  <2>1. bucket[k].startedAt \in Nat
    BY Rule DEF CountInv, Abuse!TypeOK
  <2> QED
    BY <2>1
<1>3. (Abuse!Kept(k)' <=> Abuse!Kept(k)) /\ bucket'[k] = bucket[k] /\ admitted'[k] = admitted[k]
      /\ evicted' = evicted
  BY DEF Abuse!Kept
<1> QED
  BY <1>1, <1>2, <1>3 DEF KeyInv

LEMMA GuardRests ==
    ASSUME NEW s \in Subjects, FailureInv(s), failure'[s] = failure[s],
           failedAt'[s] = failedAt[s], lockedUntil'[s] = lockedUntil[s],
           now \in Nat, now' \in Nat, now <= now', CountInv
    PROVE  FailureInv(s)'
<1> DEFINE f == failedAt[s]
           c == failure[s].count
           p == failure[s].startedAt
<1>1. TimesInv(f, now, c, p) /\ CoverInv(f, c, p, lockedUntil[s])
  BY DEF FailureInv
<1>2. \A i \in 1 .. Len(f) : f[i] \in Nat
  <2>1. f \in Seq(Abuse!Times)
    BY DEF CountInv, Abuse!TypeOK
  <2>2. \A i \in 1 .. Len(f) : f[i] \in Abuse!Times
    BY <2>1
  <2> QED
    BY <2>2, GuardRule
<1>3. p \in Nat
  BY GuardRule DEF CountInv, Abuse!TypeOK
<1> HIDE DEF f, c, p
<1>4. TimesInv(f, now', c, p)
  <2>1. p <= now' /\ \A i \in 1 .. Len(f) : f[i] <= now => f[i] <= now'
    BY <1>1, <1>2, <1>3 DEF TimesInv
  <2> QED
    BY <1>1, <2>1 DEF TimesInv
<1> QED
  BY <1>1, <1>4 DEF FailureInv, f, c, p

LEMMA AbuseBooks ==
    ASSUME AbuseInv, Abuse!Next
    PROVE  AbuseInv'
<1>1. CountInv /\ CountInv'
  BY AbuseStep DEF AbuseInv
<1>2. /\ now \in Nat /\ now \in Abuse!Times
      /\ \A s \in Subjects : /\ failure[s].startedAt \in Abuse!Times /\ failure[s].count \in Nat
                             /\ lockedUntil[s] \in Nat /\ failedAt[s] \in Seq(Abuse!Times)
  BY GuardRule DEF CountInv, Abuse!TypeOK, AbuseInv
<1>3. (\A k \in Abuse!Keys : KeyInv(k)) /\ \A s \in Subjects : FailureInv(s)
  BY DEF AbuseInv
<1>4. now <= now
  BY <1>2
<1>5. CASE Abuse!Tick
  <2>1. /\ now' = now + 1 /\ UNCHANGED <<bucket, order, admitted, evicted>>
        /\ UNCHANGED <<failure, lockedUntil, failedAt>>
    BY <1>5 DEF Abuse!Tick, Abuse!limiter, Abuse!guard
  <2>2. now' \in Nat /\ now <= now'
    BY <1>2, <2>1
  <2>3. \A k \in Abuse!Keys : KeyInv(k)'
    BY <1>1, <1>2, <1>3, <2>1, <2>2, LimiterRests
  <2>4. ASSUME NEW s \in Subjects
        PROVE  FailureInv(s)'
    BY <1>1, <1>2, <1>3, <2>1, <2>2, GuardRests
  <2> QED
    BY <1>1, <2>3, <2>4 DEF AbuseInv
<1>6. ASSUME NEW call \in Abuse!Calls, Abuse!Check(call)
      PROVE  AbuseInv'
  <2>1. Abuse!Consume(call) /\ UNCHANGED <<now, failure, lockedUntil, failedAt>>
    BY <1>6 DEF Abuse!Check, Abuse!Consume, Abuse!guard
  <2>2. \A k \in Abuse!Keys : KeyInv(k)'
    BY <1>1, <1>3, <2>1, KeysStep
  <2>3. ASSUME NEW s \in Subjects
        PROVE  FailureInv(s)'
    BY <1>1, <1>2, <1>3, <1>4, <2>1, GuardRests
  <2> QED
    BY <1>1, <2>2, <2>3 DEF AbuseInv
<1>7. ASSUME UNCHANGED <<now, bucket, order, admitted, evicted>>,
             \A s \in Subjects : \/ FailureInv(s)'
                                 \/ /\ failure'[s] = failure[s] /\ failedAt'[s] = failedAt[s]
                                    /\ lockedUntil'[s] = lockedUntil[s]
      PROVE  AbuseInv'
  <2>1. \A k \in Abuse!Keys : KeyInv(k)'
    BY <1>1, <1>2, <1>3, <1>4, <1>7, LimiterRests
  <2>2. ASSUME NEW s \in Subjects
        PROVE  FailureInv(s)'
    BY <1>1, <1>2, <1>3, <1>4, <1>7, GuardRests
  <2> QED
    BY <1>1, <2>1, <2>2 DEF AbuseInv
<1>8. ASSUME NEW s \in Subjects, Abuse!RecordFailure(s)
      PROVE  AbuseInv'
  <2> DEFINE f == failedAt[s]
             c == failure[s].count
             p == failure[s].startedAt
             open == c > 0 /\ now - p < FailureWindow
             counted == IF open THEN [failure[s] EXCEPT !.count = @ + 1]
                        ELSE [startedAt |-> now, count |-> 1]
             d == counted.count
             q == counted.startedAt
             k == IF d >= FailureThreshold THEN now + LockoutTime ELSE lockedUntil[s]
  <2>1. /\ failure' = [failure EXCEPT ![s] = counted]
        /\ failedAt' = [failedAt EXCEPT ![s] = Append(f, now)]
        /\ lockedUntil' = [lockedUntil EXCEPT ![s] = k]
        /\ UNCHANGED <<now, bucket, order, admitted, evicted>>
    BY <1>8 DEF Abuse!RecordFailure, Abuse!limiter, Abuse!ThresholdReached
  <2>2. \/ open /\ d = c + 1 /\ q = p
        \/ ~open /\ d = 1 /\ q = now
    <3>1. failure[s] \in [startedAt : Abuse!Times, count : 0 .. MaxFailures]
      BY <1>1 DEF CountInv, Abuse!TypeOK
    <3> QED
      BY <3>1
  <2>3. d \in Nat /\ q \in Abuse!Times /\ k \in Nat
    BY <1>2, <2>2, GuardRule
  <2>4. /\ failure'[s].count = d /\ failure'[s].startedAt = q /\ failedAt'[s] = Append(f, now)
        /\ lockedUntil'[s] = k /\ now' = now
        /\ \A u \in Subjects \ {s} : /\ failure'[u] = failure[u] /\ failedAt'[u] = failedAt[u]
                                     /\ lockedUntil'[u] = lockedUntil[u]
    <3> HIDE DEF counted, f, k
    <3> QED
      BY <1>1, <2>1 DEF CountInv, Abuse!TypeOK
  <2>5. TimesInv(f, now, c, p) /\ CoverInv(f, c, p, lockedUntil[s])
    BY <1>3 DEF FailureInv
  <2>6. f \in Seq(Abuse!Times) /\ c \in Nat /\ p \in Abuse!Times /\ lockedUntil[s] \in Nat
    BY <1>2
  <2>7. k = IF d >= FailureThreshold THEN now + LockoutTime ELSE lockedUntil[s]
    OBVIOUS
  <2>8. TimesInv(Append(f, now), now, d, q) /\ CoverInv(Append(f, now), d, q, k)
    <3>1. \/ c > 0 /\ now - p < FailureWindow /\ d = c + 1 /\ q = p
          \/ ~(c > 0 /\ now - p < FailureWindow) /\ d = 1 /\ q = now
      BY <2>2
    <3> HIDE DEF f, c, p, open, counted, d, q, k
    <3> QED
      BY <1>2, <2>3, <2>5, <2>6, <2>7, <3>1, FailureCounted
  <2> HIDE DEF f, c, p, open, counted, d, q, k
  <2>9. FailureInv(s)'
    BY <2>4, <2>8 DEF FailureInv
  <2> QED
    BY <1>7, <2>1, <2>4, <2>9
<1>9. ASSUME NEW s \in Subjects, Abuse!Forget(s), UNCHANGED <<now, bucket, order, admitted, evicted>>
      PROVE  AbuseInv'
  <2>1. /\ failure'[s] = Abuse!NoBucket /\ failedAt'[s] = <<>> /\ lockedUntil'[s] = 0
        /\ \A u \in Subjects \ {s} : /\ failure'[u] = failure[u] /\ failedAt'[u] = failedAt[u]
                                     /\ lockedUntil'[u] = lockedUntil[u]
    BY <1>1, <1>9 DEF Abuse!Forget, CountInv, Abuse!TypeOK
  <2>2. failure'[s].count = 0 /\ failure'[s].startedAt = 0 /\ Len(<<>>) = 0
    BY <2>1 DEF Abuse!NoBucket
  <2>3. TimesInv(<<>>, now, 0, 0) /\ CoverInv(<<>>, 0, 0, 0)
    BY <1>2, <2>2, GuardRule DEF TimesInv, CoverInv
  <2>4. FailureInv(s)'
    BY <1>9, <2>1, <2>2, <2>3 DEF FailureInv
  <2> QED
    BY <1>7, <1>9, <2>1, <2>4
<1>10. ASSUME NEW s \in Subjects, Abuse!RecordSuccess(s) \/ Abuse!ReleaseSubject(s)
       PROVE  AbuseInv'
  BY <1>9, <1>10 DEF Abuse!RecordSuccess, Abuse!ReleaseSubject, Abuse!limiter
<1>11. ASSUME NEW s \in Subjects, NEW time, Abuse!QuarantineSubject(s, time)
       PROVE  AbuseInv'
  BY <1>7, <1>11 DEF Abuse!QuarantineSubject, Abuse!limiter
<1> QED
  BY <1>5, <1>6, <1>8, <1>10, <1>11 DEF Abuse!Next

\* Both limits.
LEMMA Limits == AbuseInv => Abuse!LimitsHold
<1> SUFFICES ASSUME AbuseInv PROVE Abuse!LimitsHold
  OBVIOUS
<1>1. ASSUME NEW k \in Abuse!Keys \ evicted, NEW t \in Abuse!Times
      PROVE  Abuse!MapThenSumSet(LAMBDA u : admitted[k][u], Abuse!Span(t, t + Window - 1))
                <= 2 * Limit
  <2>1. Abuse!MapThenSumSet(LAMBDA u : admitted[k][u], Abuse!Span(t, t + Window - 1))
           = Total(admitted[k], Length(t))
    BY DEF Abuse!MapThenSumSet, Abuse!MapThenFoldSet, Total, Sums, Pick, Length
  <2>2. SpansHold(admitted[k])
    BY DEF AbuseInv, KeyInv
  <2> QED
    BY <2>1, <2>2 DEF SpansHold
<1>2. ASSUME NEW s \in Subjects,
             Abuse!Cardinality(Abuse!Recent(s)) >= 2 * FailureThreshold - 1
      PROVE  \E i \in Abuse!Recent(s) : lockedUntil[s] >= failedAt[s][i] + LockoutTime
  BY <1>2, RecentLocked DEF AbuseInv
<1> QED
  BY <1>1, <1>2 DEF Abuse!LimitsHold

-----------------------------------------------------------------------------
(* WebAuthn: a challenge has bought nothing until it is gone, and a counter   *)
(* is never below one it showed.                                             *)

Asked(c) == challenge[c].type \in {"registration", "assertion"}

KeyringInv ==
    /\ Keyring!TypeOK
    /\ Keyring!CeremoniesSingle
    /\ \A c \in Keyring!Challenges :
          /\ challenge[c].type # "gone" => completed[c] = {}
          /\ Asked(c) => challenge[c].expiresAt >= ChallengeTtl

LEMMA SameCount == \A S : Keyring!Cardinality(S) = Cardinality(S)
BY DEF Keyring!Cardinality, Cardinality

LEMMA SpentOnce ==
    ASSUME KeyringInv, NEW c \in Keyring!Challenges, Asked(c), now' = now,
           challenge' = [challenge EXCEPT ![c] = Keyring!GoneChallenge],
           NEW kept \in [Credentials -> [user : Holders \cup {NoHolder}, signCount : 0 .. MaxCount,
                                         revoked : BOOLEAN]], credential' = kept,
           NEW counts \in [Credentials -> SUBSET (1 .. MaxCount)], shown' = counts,
           \A k \in Credentials : \A n \in counts[k] : n <= kept[k].signCount,
           NEW ds \in SUBSET Keyring!Completions, completed' = [completed EXCEPT ![c] = ds],
           Cardinality(ds) <= 1, \A d \in ds : d.at < d.asked + ChallengeTtl
    PROVE  KeyringInv'
<1> USE Settings
<1>1. /\ Keyring!GoneChallenge \in Keyring!ChallengeRecords /\ Keyring!GoneChallenge.type = "gone"
  BY DEF Keyring!GoneChallenge, Keyring!NoChallenge, Keyring!ChallengeRecords
<1>2. /\ challenge'[c] = Keyring!GoneChallenge /\ completed'[c] = ds
      /\ \A e \in Keyring!Challenges \ {c} :
            challenge'[e] = challenge[e] /\ completed'[e] = completed[e]
  BY DEF KeyringInv, Keyring!TypeOK
<1>3. Keyring!TypeOK'
  BY <1>1 DEF KeyringInv, Keyring!TypeOK
<1>4. Keyring!CeremoniesSingle'
  <2>1. ASSUME NEW e \in Keyring!Challenges
        PROVE  /\ Keyring!Cardinality(completed'[e]) <= 1
               /\ \A d \in completed'[e] :
                     d.at < d.asked + ChallengeTtl /\ challenge'[e].type = "gone"
    <3>1. CASE e = c
      BY <1>1, <1>2, <3>1, SameCount
    <3>2. CASE e # c
      BY <1>2, <3>2 DEF KeyringInv, Keyring!CeremoniesSingle
    <3> QED
      BY <3>1, <3>2
  <2> QED
    BY <2>1 DEF Keyring!CeremoniesSingle
<1> QED
  BY <1>1, <1>2, <1>3, <1>4 DEF KeyringInv, Asked

LEMMA IssueStep ==
    ASSUME KeyringInv, NEW type \in {"registration", "assertion"}, NEW u \in Holders,
           NEW allow \in SUBSET Credentials, Keyring!Issue(type, u, allow)
    PROVE  KeyringInv'
<1> USE Settings
<1> DEFINE unused == {c \in Keyring!Challenges : challenge[c] = Keyring!NoChallenge}
           n == Keyring!Min(unused)
           r == [type |-> type, user |-> u, allow |-> allow, expiresAt |-> now + ChallengeTtl]
<1>1. n \in unused
  <2>1. unused # {} /\ unused \in SUBSET Nat
    BY DEF Keyring!Issue, Keyring!Challenges
  <2> HIDE DEF unused
  <2> QED
    BY <2>1, LeastNumber DEF Keyring!Min
<1>2. /\ challenge' = [challenge EXCEPT ![n] = r]
      /\ UNCHANGED <<now, credential, completed, shown>>
  BY DEF Keyring!Issue
<1>3. /\ n \in Keyring!Challenges /\ challenge[n].type = "unused" /\ completed[n] = {}
  <2> HIDE DEF n
  <2>1. n \in Keyring!Challenges /\ challenge[n] = Keyring!NoChallenge
    BY <1>1
  <2> HIDE DEF unused
  <2>2. challenge[n].type = "unused"
    BY <2>1 DEF Keyring!NoChallenge
  <2> QED
    BY <2>1, <2>2 DEF KeyringInv
<1>4. r \in Keyring!ChallengeRecords /\ r.type # "gone" /\ r.expiresAt >= ChallengeTtl
  BY DEF Keyring!ChallengeRecords, KeyringInv, Keyring!TypeOK
<1> HIDE DEF n, r
<1>5. /\ challenge'[n] = r
      /\ \A c \in Keyring!Challenges \ {n} : challenge'[c] = challenge[c]
  BY <1>2, <1>3 DEF KeyringInv, Keyring!TypeOK
<1>6. Keyring!TypeOK'
  BY <1>2, <1>3, <1>4 DEF KeyringInv, Keyring!TypeOK
<1>7. Keyring!CeremoniesSingle'
  BY <1>2, <1>3, <1>5 DEF KeyringInv, Keyring!CeremoniesSingle
<1> QED
  BY <1>2, <1>3, <1>4, <1>5, <1>6, <1>7 DEF KeyringInv, Asked

LEMMA AnsweredOnce ==
    ASSUME KeyringInv, NEW c \in Keyring!Challenges, NEW type \in {"registration", "assertion"},
           NEW u \in Holders, NEW k \in Credentials, Keyring!Good(c, type, u),
           Keyring!Completed(c, type, u, k)
    PROVE  \E ds \in SUBSET Keyring!Completions :
              /\ completed' = [completed EXCEPT ![c] = ds]
              /\ Cardinality(ds) <= 1 /\ \A d \in ds : d.at < d.asked + ChallengeTtl
<1> USE Settings
<1> DEFINE asked == challenge[c].expiresAt - ChallengeTtl
           d == [type |-> type, user |-> u, credential |-> k, asked |-> asked, at |-> now]
<1>1. /\ completed[c] = {} /\ challenge[c].expiresAt >= ChallengeTtl /\ challenge[c].expiresAt > now
  BY DEF Keyring!Good, KeyringInv, Asked
<1>2. /\ challenge[c].expiresAt \in 0 .. MaxTime + ChallengeTtl /\ now \in 0 .. MaxTime
  BY DEF KeyringInv, Keyring!TypeOK, Keyring!ChallengeRecords
<1>3. asked \in 0 .. MaxTime /\ now < asked + ChallengeTtl
  BY <1>1, <1>2
<1>4. completed' = [completed EXCEPT ![c] = completed[c] \cup {d}]
  BY DEF Keyring!Completed, KeyringInv, Keyring!TypeOK
<1> HIDE DEF asked
<1>5. d \in Keyring!Completions /\ d.at < d.asked + ChallengeTtl
  BY <1>2, <1>3 DEF Keyring!Completions
<1> HIDE DEF d
<1>6. Cardinality({d}) = 1
  BY FS_Singleton
<1>7. completed' = [completed EXCEPT ![c] = {d}]
  BY <1>1, <1>4
<1>8. {d} \in SUBSET Keyring!Completions /\ \A e \in {d} : e.at < e.asked + ChallengeTtl
  BY <1>5
<1>9. Cardinality({d}) <= 1
  BY <1>6
<1> QED
  BY <1>7, <1>8, <1>9

\* A refused answer spends the challenge and nothing else.
LEMMA RefusedOnce ==
    ASSUME KeyringInv, NEW c \in Keyring!Challenges, Asked(c),
           challenge' = [challenge EXCEPT ![c] = Keyring!GoneChallenge],
           UNCHANGED <<now, credential, completed, shown>>
    PROVE  KeyringInv'
<1>1. completed[c] = {} /\ Cardinality({}) = 0
  BY FS_EmptySet DEF KeyringInv, Asked
<1>2. completed' = [completed EXCEPT ![c] = {}]
  BY <1>1 DEF KeyringInv, Keyring!TypeOK
<1>3. \A k \in Credentials : \A n \in shown[k] : n <= credential[k].signCount
  BY DEF KeyringInv, Keyring!CeremoniesSingle
<1>4. /\ credential \in [Credentials -> [user : Holders \cup {NoHolder}, signCount : 0 .. MaxCount,
                                          revoked : BOOLEAN]]
      /\ shown \in [Credentials -> SUBSET (1 .. MaxCount)]
  BY DEF KeyringInv, Keyring!TypeOK
<1>5. Cardinality({}) <= 1 /\ {} \in SUBSET Keyring!Completions
  BY <1>1
<1> QED
  BY <1>2, <1>3, <1>4, <1>5, SpentOnce

LEMMA KeyringStep ==
    ASSUME KeyringInv, Keyring!Next
    PROVE  KeyringInv' /\ Keyring!CredentialSteps
<1> USE Settings
<1> DEFINE Kept == [user : Holders \cup {NoHolder}, signCount : 0 .. MaxCount, revoked : BOOLEAN]
<1>0. /\ credential \in [Credentials -> Kept] /\ shown \in [Credentials -> SUBSET (1 .. MaxCount)]
      /\ \A k \in Credentials : \A n \in shown[k] : n <= credential[k].signCount
  BY DEF KeyringInv, Keyring!TypeOK, Keyring!CeremoniesSingle
<1>1. CASE Keyring!Tick
  <2>1. UNCHANGED <<challenge, credential, completed, shown>> /\ now' \in 0 .. MaxTime
    BY <1>1 DEF Keyring!Tick, KeyringInv, Keyring!TypeOK
  <2>2. Keyring!TypeOK' /\ Keyring!CeremoniesSingle'
    BY <2>1 DEF KeyringInv, Keyring!TypeOK, Keyring!CeremoniesSingle
  <2> QED
    BY <2>1, <2>2 DEF KeyringInv, Asked, Keyring!CredentialSteps
<1>2. ASSUME NEW u \in Holders, NEW named \in SUBSET Credentials,
             Keyring!BeginRegistration(u) \/ Keyring!BeginAssertion(u, named)
      PROVE  KeyringInv' /\ Keyring!CredentialSteps
  <2>1. PICK type \in {"registration", "assertion"}, allow \in SUBSET Credentials :
            Keyring!Issue(type, u, allow)
    BY <1>2 DEF Keyring!BeginRegistration, Keyring!BeginAssertion
  <2>2. UNCHANGED <<credential, shown>>
    BY <2>1 DEF Keyring!Issue
  <2> QED
    BY <2>1, <2>2, IssueStep DEF Keyring!CredentialSteps
<1>3. ASSUME NEW u \in Holders, NEW k \in Credentials, Keyring!RevokeCredential(u, k)
      PROVE  KeyringInv' /\ Keyring!CredentialSteps
  <2> DEFINE new == [credential[k] EXCEPT !.revoked = TRUE]
  <2>1. /\ credential' = [credential EXCEPT ![k] = new]
        /\ UNCHANGED <<now, challenge, completed, shown>>
    BY <1>3 DEF Keyring!RevokeCredential
  <2>2. /\ new \in Kept /\ new.user = credential[k].user
        /\ new.signCount = credential[k].signCount
        /\ credential[k].revoked => new = credential[k]
    BY <1>0
  <2> HIDE DEF new
  <2>3. /\ credential'[k] = new /\ credential' \in [Credentials -> Kept]
        /\ \A l \in Credentials \ {k} : credential'[l] = credential[l]
    BY <1>0, <2>1, <2>2
  <2>4. Keyring!TypeOK' /\ Keyring!CeremoniesSingle'
    BY <2>1, <2>2, <2>3 DEF KeyringInv, Keyring!TypeOK, Keyring!CeremoniesSingle
  <2>5. Keyring!CredentialSteps
    BY <2>1, <2>2, <2>3 DEF Keyring!CredentialSteps
  <2> QED
    BY <2>1, <2>4, <2>5 DEF KeyringInv, Asked
<1>4. ASSUME NEW c \in Keyring!Challenges, NEW u \in Holders, NEW k \in Credentials,
             NEW type \in {"registration", "assertion"}, NEW new \in Kept, NEW count \in 0 .. MaxCount,
             NEW counters \in SUBSET (1 .. MaxCount),
             Asked(c), challenge' = [challenge EXCEPT ![c] = Keyring!GoneChallenge], now' = now,
             Keyring!Good(c, type, u), Keyring!Completed(c, type, u, k),
             credential' = [credential EXCEPT ![k] = new], shown' = [shown EXCEPT ![k] = counters],
             \A n \in counters : n <= new.signCount,
             Keyring!Registered(k) => new.user = credential[k].user /\ ~credential[k].revoked
      PROVE  KeyringInv' /\ Keyring!CredentialSteps
  <2>1. PICK ds \in SUBSET Keyring!Completions :
              /\ completed' = [completed EXCEPT ![c] = ds]
              /\ Cardinality(ds) <= 1 /\ \A d \in ds : d.at < d.asked + ChallengeTtl
    BY <1>4, AnsweredOnce
  <2> DEFINE kept == [credential EXCEPT ![k] = new]
             counts == [shown EXCEPT ![k] = counters]
  <2>2. /\ kept \in [Credentials -> Kept] /\ counts \in [Credentials -> SUBSET (1 .. MaxCount)]
        /\ kept[k] = new /\ counts[k] = counters
        /\ \A l \in Credentials \ {k} : kept[l] = credential[l] /\ counts[l] = shown[l]
    BY <1>0
  <2>3. credential' = kept /\ shown' = counts
    BY <1>4
  <2> HIDE DEF kept, counts
  <2>4. \A l \in Credentials : \A n \in counts[l] : n <= kept[l].signCount
    BY <1>0, <1>4, <2>2
  <2>5. KeyringInv'
    BY <1>4, <2>1, <2>2, <2>3, <2>4, SpentOnce
  <2>6. Keyring!CredentialSteps
    BY <1>4, <2>2, <2>3 DEF Keyring!CredentialSteps
  <2> QED
    BY <2>5, <2>6
<1>5. ASSUME NEW c \in Keyring!Challenges, NEW u \in Holders, NEW k \in Credentials,
             NEW valid \in BOOLEAN, NEW count \in 0 .. MaxCount,
             Keyring!CompleteRegistration(c, u, k, valid, count)
      PROVE  KeyringInv' /\ Keyring!CredentialSteps
  <2>1. /\ Asked(c) /\ challenge' = [challenge EXCEPT ![c] = Keyring!GoneChallenge] /\ now' = now
    BY <1>5 DEF Keyring!CompleteRegistration, Keyring!Spent, Asked
  <2>2. CASE UNCHANGED <<credential, completed, shown>>
    BY <2>1, <2>2, RefusedOnce DEF Keyring!CredentialSteps
  <2>3. CASE ~UNCHANGED <<credential, completed, shown>>
    <3> DEFINE new == [user |-> u, signCount |-> count, revoked |-> FALSE]
    <3>1. /\ Keyring!Good(c, "registration", u) /\ ~Keyring!Registered(k)
          /\ credential' = [credential EXCEPT ![k] = new]
          /\ Keyring!Completed(c, "registration", u, k)
          /\ shown' = [shown EXCEPT ![k] = {count} \ {0}]
      BY <1>5, <2>3 DEF Keyring!CompleteRegistration
    <3>2. new \in Kept /\ new.signCount = count /\ {count} \ {0} \in SUBSET (1 .. MaxCount)
      OBVIOUS
    <3> HIDE DEF new
    <3>3. \A n \in {count} \ {0} : n <= new.signCount
      BY <3>2
    <3> QED
      BY <1>4, <2>1, <3>1, <3>2, <3>3
  <2> QED
    BY <2>2, <2>3
<1>6. ASSUME NEW c \in Keyring!Challenges, NEW u \in Holders, NEW k \in Credentials,
             NEW valid \in BOOLEAN, NEW count \in 0 .. MaxCount,
             Keyring!CompleteAssertion(c, u, k, valid, count)
      PROVE  KeyringInv' /\ Keyring!CredentialSteps
  <2>1. /\ Asked(c) /\ challenge' = [challenge EXCEPT ![c] = Keyring!GoneChallenge] /\ now' = now
    BY <1>6 DEF Keyring!CompleteAssertion, Keyring!Spent, Asked
  <2>2. CASE UNCHANGED <<credential, completed, shown>>
    BY <2>1, <2>2, RefusedOnce DEF Keyring!CredentialSteps
  <2>3. CASE ~UNCHANGED <<credential, completed, shown>>
    <3> DEFINE new == [credential[k] EXCEPT !.signCount = count]
               counters == IF count = 0 THEN {} ELSE shown[k] \cup {count}
    <3>1. /\ Keyring!Good(c, "assertion", u) /\ Keyring!Usable(u, k) /\ ~Keyring!RolledBack(k, count)
          /\ credential' = [credential EXCEPT ![k].signCount = count]
          /\ Keyring!Completed(c, "assertion", u, k)
          /\ shown' = [shown EXCEPT ![k] = IF count = 0 THEN {} ELSE @ \cup {count}]
      BY <1>6, <2>3 DEF Keyring!CompleteAssertion
    <3>2. /\ credential' = [credential EXCEPT ![k] = new] /\ shown' = [shown EXCEPT ![k] = counters]
      BY <1>0, <3>1
    <3>3. /\ new \in Kept /\ new.signCount = count /\ new.user = credential[k].user
          /\ counters \in SUBSET (1 .. MaxCount) /\ ~credential[k].revoked
      BY <1>0, <3>1 DEF Keyring!Usable
    <3>4. \A n \in counters : n <= count
      BY <1>0, <3>1 DEF Keyring!RolledBack
    <3> HIDE DEF new, counters
    <3> QED
      BY <1>4, <2>1, <3>1, <3>2, <3>3, <3>4
  <2> QED
    BY <2>2, <2>3
<1> QED
  BY <1>1, <1>2, <1>3, <1>5, <1>6 DEF Keyring!Next

-----------------------------------------------------------------------------
(* The end of an account.  What a purge has done stays done, but for what the *)
(* user stores meanwhile, so it is done when the store asks for it.           *)

PurgeInv(p) ==
    /\ ~purge[p].running => purge[p].todo = {}
    /\ purge[p].running => purge[p].done \cap stored \subseteq meanwhile

LifecycleInv ==
    /\ Lifecycle!TypeOK
    /\ Lifecycle!PurgedMeansGone
    /\ \A p \in Purges : PurgeInv(p)

Changed(state, date, plan, holds) ==
    [account EXCEPT !.state = state, !.recoveryUntil = date, !.plan = plan, !.holds = holds]

\* What the store does to an account.
LEMMA EditStep ==
    ASSUME LifecycleInv, NEW s \in Lifecycle!States, NEW t \in 0 .. MaxTime + RecoveryTime,
           NEW plan \in (SUBSET Resources) \ {{}}, NEW hs \in SUBSET Holds,
           UNCHANGED <<purge, stored, meanwhile>>, account' = Changed(s, t, plan, hs),
           s = "purged" => account.state = "purged" /\ plan = account.plan,
           account.state = "purged" => s = "purged",
           s = "purge_pending" /\ account.state # "purge_pending" => account.holds = {}
    PROVE  LifecycleInv' /\ Lifecycle!AccountSteps
<1>0. account \in Lifecycle!Accounts
  BY DEF LifecycleInv, Lifecycle!TypeOK
<1>1. /\ account'.state = s /\ account'.plan = plan /\ account' \in Lifecycle!Accounts
  BY <1>0 DEF Changed, Lifecycle!Accounts, Lifecycle!Dates
<1>2. Lifecycle!TypeOK' /\ Lifecycle!PurgedMeansGone'
  BY <1>1 DEF LifecycleInv, Lifecycle!TypeOK, Lifecycle!PurgedMeansGone
<1>3. \A p \in Purges : PurgeInv(p)'
  BY DEF LifecycleInv, PurgeInv
<1>4. Lifecycle!AccountSteps
  <2>1. stored \ stored' = {} /\ \A p \in Purges : purge'[p].running => purge[p].running
    OBVIOUS
  <2> QED
    BY <1>1, <2>1 DEF Lifecycle!AccountSteps
<1> QED
  BY <1>2, <1>3, <1>4 DEF LifecycleInv
\* What a purge does to it.
LEMMA PurgeStep ==
    ASSUME LifecycleInv, NEW p \in Purges, NEW gone \in SUBSET Resources, NEW m \in SUBSET Resources,
           NEW new \in Lifecycle!PurgeRecords, NEW after \in Lifecycle!Accounts,
           stored' = stored \ gone, account' = after, meanwhile' = m,
           purge' = [purge EXCEPT ![p] = new],
           m = meanwhile \/ (Lifecycle!Quiet /\ account.state # "purged"),
           ~new.running => new.todo = {},
           new.running => new.done \cap (stored \ gone) \subseteq m,
           new.running => purge[p].running \/ account.holds = {},
           \/ after = account
           \/ /\ after = [account EXCEPT !.state = "purged"] /\ account.holds = {}
              /\ (stored \ gone) \cap account.plan \subseteq m,
           gone \subseteq purge[p].todo
    PROVE  LifecycleInv' /\ Lifecycle!AccountSteps
<1>0. /\ account \in Lifecycle!Accounts /\ purge \in [Purges -> Lifecycle!PurgeRecords]
      /\ stored \subseteq Resources
  BY DEF LifecycleInv, Lifecycle!TypeOK
<1>1. /\ purge'[p] = new /\ purge' \in [Purges -> Lifecycle!PurgeRecords]
      /\ \A q \in Purges \ {p} : purge'[q] = purge[q]
  BY <1>0
<1>2. /\ after.state \in {account.state, "purged"} /\ after.plan = account.plan
      /\ after.state = "purged" /\ account.state # "purged" =>
            account.holds = {} /\ (stored \ gone) \cap account.plan \subseteq m
      /\ account.state = "purged" => after.state = "purged"
  BY <1>0 DEF Lifecycle!Accounts
<1>3. Lifecycle!TypeOK'
  BY <1>0, <1>1 DEF LifecycleInv, Lifecycle!TypeOK
<1>4. Lifecycle!PurgedMeansGone'
  BY <1>2 DEF LifecycleInv, Lifecycle!PurgedMeansGone
<1>5. ASSUME NEW q \in Purges PROVE PurgeInv(q)'
  BY <1>1, <1>2 DEF LifecycleInv, PurgeInv, Lifecycle!Quiet
<1>6. Lifecycle!AccountSteps
  <2>1. stored \ stored' \subseteq purge[p].todo
    OBVIOUS
  <2>2. purge[p].todo \subseteq UNION {purge[q].todo : q \in Purges}
    OBVIOUS
  <2>3. account.holds # {} => \A q \in Purges : purge'[q].running => purge[q].running
    BY <1>1
  <2> QED
    BY <1>2, <2>1, <2>2, <2>3 DEF Lifecycle!AccountSteps
<1> QED
  BY <1>3, <1>4, <1>5, <1>6 DEF LifecycleInv

LEMMA LifecycleStep ==
    ASSUME LifecycleInv, Lifecycle!Next
    PROVE  LifecycleInv' /\ Lifecycle!AccountSteps
<1> USE Settings
<1> DEFINE S == Lifecycle!States
           U == 0 .. MaxTime + RecoveryTime
           P == (SUBSET Resources) \ {{}}
<1>A. /\ account \in [state : S, recoveryUntil : U, plan : P, holds : SUBSET Holds]
      /\ stored \in SUBSET Resources
  BY DEF LifecycleInv, Lifecycle!TypeOK, Lifecycle!Accounts, Lifecycle!Dates
<1>0. /\ account \in Lifecycle!Accounts /\ purge \in [Purges -> Lifecycle!PurgeRecords]
      /\ stored \subseteq Resources /\ meanwhile \in SUBSET Resources /\ \A p \in Purges : PurgeInv(p)
      /\ Lifecycle!NoPurge \in Lifecycle!PurgeRecords
      /\ Lifecycle!NoPurge.running = FALSE /\ Lifecycle!NoPurge.todo = {}
  BY DEF LifecycleInv, Lifecycle!TypeOK, Lifecycle!NoPurge, Lifecycle!PurgeRecords
<1>1. ASSUME NEW p \in Purges, Lifecycle!StartPurge(p)
      PROVE  LifecycleInv' /\ Lifecycle!AccountSteps
  <2> DEFINE new == [running |-> TRUE, todo |-> account.plan, done |-> {}]
             m == IF Lifecycle!Quiet THEN {} ELSE meanwhile
  <2>1. /\ purge' = [purge EXCEPT ![p] = new] /\ UNCHANGED <<account, stored>> /\ stored' = stored \ {}
        /\ account.state = "purge_pending" /\ account.holds = {} /\ meanwhile' = m
    BY <1>1 DEF Lifecycle!StartPurge, Lifecycle!MayPurge
  <2>2. new \in Lifecycle!PurgeRecords /\ new.done = {} /\ new.running
    BY <1>0 DEF Lifecycle!PurgeRecords, Lifecycle!Accounts
  <2>3. /\ m \in SUBSET Resources
        /\ m = meanwhile \/ (Lifecycle!Quiet /\ account.state # "purged")
    BY <1>0, <2>1
  <2> HIDE DEF new, m
  <2> QED
    BY <1>0, <2>1, <2>2, <2>3, PurgeStep
<1>2. ASSUME NEW p \in Purges, NEW r \in Resources, Lifecycle!ResourcePurged(p, r)
      PROVE  LifecycleInv' /\ Lifecycle!AccountSteps
  <2> DEFINE new == [purge[p] EXCEPT !.todo = purge[p].todo \ {r}, !.done = purge[p].done \cup {r}]
  <2>1. /\ purge[p] \in Lifecycle!PurgeRecords /\ r \in purge[p].todo /\ purge[p].running
        /\ UNCHANGED <<account, meanwhile>> /\ stored' = stored \ {r}
        /\ purge' = [purge EXCEPT ![p].todo = @ \ {r}, ![p].done = @ \cup {r}]
    BY <1>0, <1>2 DEF Lifecycle!ResourcePurged, PurgeInv, Lifecycle!PurgeRecords
  <2>2. new \in Lifecycle!PurgeRecords /\ new.done = purge[p].done \cup {r} /\ new.running
    BY <2>1 DEF Lifecycle!PurgeRecords
  <2>3. purge' = [purge EXCEPT ![p] = new]
    BY <1>0, <2>1
  <2> HIDE DEF new
  <2>4. new.done \cap (stored \ {r}) \subseteq meanwhile
    BY <1>0, <2>1, <2>2 DEF PurgeInv
  <2>5. {r} \in SUBSET Resources /\ {r} \subseteq purge[p].todo
    BY <2>1
  <2> PICK gone \in SUBSET Resources : gone = {r}
    BY <2>5
  <2>6. /\ stored' = stored \ gone /\ gone \subseteq purge[p].todo
        /\ new.done \cap (stored \ gone) \subseteq meanwhile
        /\ account' = account /\ meanwhile' = meanwhile
    BY <2>1, <2>4, <2>5
  <2>7. purge[p].running /\ new \in Lifecycle!PurgeRecords /\ new.running
    BY <2>1, <2>2
  <2>8. account \in Lifecycle!Accounts /\ meanwhile \in SUBSET Resources
    BY <1>0
  <2> QED
    BY <2>3, <2>6, <2>7, <2>8, PurgeStep
<1>3. ASSUME NEW p \in Purges, NEW r \in Resources, NEW gone \in SUBSET {r},
             Lifecycle!ResourceFails(p, r, gone)
      PROVE  LifecycleInv' /\ Lifecycle!AccountSteps
  <2>1. /\ UNCHANGED <<account, meanwhile>> /\ stored' = stored \ gone
        /\ purge' = [purge EXCEPT ![p] = Lifecycle!NoPurge]
    BY <1>3 DEF Lifecycle!ResourceFails
  <2>2. gone \in SUBSET Resources /\ gone \subseteq purge[p].todo
    BY <1>3 DEF Lifecycle!ResourceFails
  <2> QED
    BY <1>0, <2>1, <2>2, PurgeStep
<1>4. ASSUME NEW p \in Purges, Lifecycle!CompletePurge(p)
      PROVE  LifecycleInv' /\ Lifecycle!AccountSteps
  <2>1. /\ purge[p].running /\ UNCHANGED <<stored, meanwhile>> /\ stored' = stored \ {}
        /\ purge' = [purge EXCEPT ![p] = Lifecycle!NoPurge]
        /\ \/ account' = account
           \/ /\ account.holds = {} /\ account.plan \subseteq purge[p].done
              /\ account' = [account EXCEPT !.state = "purged"]
    BY <1>4 DEF Lifecycle!CompletePurge, Lifecycle!MayPurge
  <2>2. account' \in Lifecycle!Accounts
    BY <1>0, <2>1 DEF Lifecycle!Accounts, Lifecycle!States
  <2>3. account' # account => (stored \ {}) \cap account.plan \subseteq meanwhile
    BY <1>0, <2>1 DEF PurgeInv
  <2> PICK after \in Lifecycle!Accounts : account' = after
    BY <2>2
  <2> QED
    BY <1>0, <2>1, <2>3, PurgeStep
<1>5. ASSUME NEW r \in Resources, Lifecycle!UserStores(r)
      PROVE  LifecycleInv' /\ Lifecycle!AccountSteps
  <2>1. /\ account.state = "active" /\ stored' = stored \cup {r} /\ meanwhile' = meanwhile \cup {r}
        /\ UNCHANGED <<account, purge>> /\ stored \ stored' = {}
    BY <1>5 DEF Lifecycle!UserStores
  <2>2. \A p \in Purges : PurgeInv(p)'
    BY <2>1 DEF LifecycleInv, PurgeInv
  <2>3. Lifecycle!AccountSteps
    BY <2>1 DEF Lifecycle!AccountSteps
  <2>4. Lifecycle!TypeOK' /\ Lifecycle!PurgedMeansGone'
    BY <2>1 DEF LifecycleInv, Lifecycle!TypeOK, Lifecycle!PurgedMeansGone
  <2> QED
    BY <2>2, <2>3, <2>4 DEF LifecycleInv
<1>6. ASSUME NEW plan \in P, NEW date \in 0 .. MaxTime, Lifecycle!RequestDeletion(plan, date)
      PROVE  LifecycleInv' /\ Lifecycle!AccountSteps
  <2>1. "deletion_requested" \in S /\ date + RecoveryTime \in U
    BY DEF Lifecycle!States
  <2>2. account' = Changed("deletion_requested", date + RecoveryTime, plan, account.holds)
    BY <1>A, <1>6 DEF Changed, Lifecycle!RequestDeletion, Lifecycle!StoreChanges
  <2>3. account.state = "active" /\ UNCHANGED <<purge, stored, meanwhile>> /\ account.holds \in SUBSET Holds
    BY <1>A, <1>6 DEF Lifecycle!RequestDeletion, Lifecycle!StoreChanges
  <2> QED
    BY EditStep, <2>1, <2>2, <2>3
<1>7. CASE Lifecycle!SoftDeleteAccount
  <2>1. "soft_deleted" \in S
    BY DEF Lifecycle!States
  <2>2. account' = Changed("soft_deleted", account.recoveryUntil, account.plan, account.holds)
    BY <1>A, <1>7 DEF Changed, Lifecycle!SoftDeleteAccount, Lifecycle!StoreChanges
  <2>3. /\ account.state = "deletion_requested" /\ UNCHANGED <<purge, stored, meanwhile>>
        /\ account.holds \in SUBSET Holds /\ account.plan \in P /\ account.recoveryUntil \in U
    BY <1>A, <1>7 DEF Lifecycle!SoftDeleteAccount, Lifecycle!StoreChanges
  <2> QED
    BY EditStep, <2>1, <2>2, <2>3
<1>8. ASSUME NEW date \in U, Lifecycle!RestoreAccount(date)
      PROVE  LifecycleInv' /\ Lifecycle!AccountSteps
  <2>1. "active" \in S /\ 0 \in U
    BY DEF Lifecycle!States
  <2>2. account' = Changed("active", 0, account.plan, account.holds)
    BY <1>A, <1>8 DEF Changed, Lifecycle!RestoreAccount, Lifecycle!StoreChanges
  <2>3. /\ account.state # "purged" /\ UNCHANGED <<purge, stored, meanwhile>>
        /\ account.holds \in SUBSET Holds /\ account.plan \in P
    BY <1>A, <1>8 DEF Lifecycle!RestoreAccount, Lifecycle!StoreChanges
  <2> QED
    BY EditStep, <2>1, <2>2, <2>3
<1>9. ASSUME NEW h \in Holds, Lifecycle!AddAccountHold(h) \/ Lifecycle!ReleaseAccountHold(h)
      PROVE  LifecycleInv' /\ Lifecycle!AccountSteps
  <2> PICK hs \in {account.holds \cup {h}, account.holds \ {h}} : account' = [account EXCEPT !.holds = hs]
    BY <1>9 DEF Lifecycle!AddAccountHold, Lifecycle!ReleaseAccountHold, Lifecycle!StoreChanges
  <2>1. account' = Changed(account.state, account.recoveryUntil, account.plan, hs)
    BY <1>A DEF Changed
  <2>2. /\ UNCHANGED <<purge, stored, meanwhile>> /\ account.state \in S
        /\ hs \in SUBSET Holds /\ account.plan \in P /\ account.recoveryUntil \in U
    BY <1>A, <1>9 DEF Lifecycle!AddAccountHold, Lifecycle!ReleaseAccountHold, Lifecycle!StoreChanges
  <2> QED
    BY EditStep, <2>1, <2>2
<1>10. ASSUME NEW date \in U, Lifecycle!QueuePurge(date)
      PROVE  LifecycleInv' /\ Lifecycle!AccountSteps
  <2>1. "purge_pending" \in S
    BY DEF Lifecycle!States
  <2>2. account' = Changed("purge_pending", account.recoveryUntil, account.plan, account.holds)
    BY <1>A, <1>10 DEF Changed, Lifecycle!QueuePurge, Lifecycle!StoreChanges
  <2>3. /\ account.state = "soft_deleted" /\ account.holds = {} /\ UNCHANGED <<purge, stored, meanwhile>>
        /\ account.holds \in SUBSET Holds /\ account.plan \in P /\ account.recoveryUntil \in U
    BY <1>A, <1>10 DEF Lifecycle!QueuePurge, Lifecycle!StoreChanges
  <2> QED
    BY EditStep, <2>1, <2>2, <2>3
<1> QED
  BY <1>1, <1>2, <1>3, <1>4, <1>5, <1>6, <1>7, <1>8, <1>9, <1>10 DEF Lifecycle!Next, Lifecycle!Dates

-----------------------------------------------------------------------------
(* Retention: a batch looks at the items as of its own date, and the record   *)
(* it took is the one it records.                                            *)

Batches == [running : BOOLEAN, calling : SUBSET Items, startedAt : 0 .. MaxTime,
            todo : SUBSET Items, old : Retained!ItemRecords]

RetentionInv == Retained!TypeOK

LEMMA ItemStep ==
    ASSUME RetentionInv, NEW i \in Items, NEW r \in Retained!ItemRecords, NEW b \in Batches,
           item' = [item EXCEPT ![i] = r], batch' = b, UNCHANGED <<now, holdUntil>>,
           r.state = "purged" /\ item[i].state # "purged" =>
               /\ batch.calling = {i} /\ item[i].generation = batch.old.generation
               /\ Retained!Due(item[i], batch.startedAt) /\ ~Retained!Held(i, batch.startedAt),
           item[i].state = "purged" /\ r.state # "purged" =>
               r.generation > item[i].generation /\ r.state = "trashed"
    PROVE  RetentionInv' /\ Retained!RetentionSteps
<1>1. /\ item' \in [Items -> Retained!ItemRecords] /\ item'[i] = r
      /\ \A j \in Items \ {i} : item'[j] = item[j]
  BY DEF RetentionInv, Retained!TypeOK
<1>2. RetentionInv'
  BY <1>1 DEF RetentionInv, Retained!TypeOK, Batches
<1> QED
  BY <1>1, <1>2 DEF Retained!RetentionSteps

LEMMA RestStep ==
    ASSUME RetentionInv, UNCHANGED item, now' \in 0 .. MaxTime,
           holdUntil' \in [Items -> Retained!NoHold .. Retained!Forever], batch' \in Batches
    PROVE  RetentionInv' /\ Retained!RetentionSteps
BY DEF RetentionInv, Retained!TypeOK, Batches, Retained!RetentionSteps

LEMMA RetentionStep ==
    ASSUME RetentionInv, Retained!Next
    PROVE  RetentionInv' /\ Retained!RetentionSteps
<1> USE Settings
<1>0. /\ now \in 0 .. MaxTime /\ batch \in Batches
      /\ item \in [Items -> Retained!ItemRecords]
      /\ holdUntil \in [Items -> Retained!NoHold .. Retained!Forever]
      /\ Retained!Unlocked \in [owner : {"nobody", Worker, OtherWorker}, until : Retained!Later]
  BY DEF RetentionInv, Retained!TypeOK, Batches, Retained!Unlocked, Retained!Later
<1>1. CASE Retained!Tick
  BY <1>0, <1>1, RestStep DEF Retained!Tick, Batches
<1>A. Retained!NoBatch \in Batches
  BY <1>0 DEF Retained!NoBatch, Batches, Retained!NoItem, Retained!ItemRecords, Retained!Later
<1>2. ASSUME NEW date \in 0 .. MaxTime, Retained!StartBatch(date)
      PROVE  RetentionInv' /\ Retained!RetentionSteps
  <2> DEFINE todo == {i \in Items : Retained!Candidate(i, date)}
  <2>0. todo \in SUBSET Items
    OBVIOUS
  <2>1. batch' = [Retained!NoBatch EXCEPT !.running = TRUE, !.startedAt = date, !.todo = todo]
    BY <1>2 DEF Retained!StartBatch
  <2> HIDE DEF todo
  <2>2. batch' \in Batches
    BY <1>A, <2>0, <2>1 DEF Batches
  <2>3. UNCHANGED <<now, item, holdUntil>>
    BY <1>2 DEF Retained!StartBatch
  <2> QED
    BY <1>0, <2>2, <2>3, RestStep
<1>B. CASE Retained!EndBatch
  <2>1. batch' = Retained!NoBatch /\ UNCHANGED <<now, item, holdUntil>>
    BY <1>B DEF Retained!EndBatch
  <2> QED
    BY <1>0, <1>A, <2>1, RestStep
<1>3. ASSUME NEW i \in Items, NEW date \in 0 .. MaxTime, Retained!MarkDeleted(i, date)
      PROVE  RetentionInv' /\ Retained!RetentionSteps
  <2> DEFINE r == [generation |-> item[i].generation + 1, state |-> "trashed",
                   retentionUntil |-> date + RetentionTime, lock |-> Retained!Unlocked]
  <2>1. /\ item[i].generation < MaxGeneration /\ item' = [item EXCEPT ![i] = r]
        /\ UNCHANGED <<now, holdUntil, batch>>
    BY <1>0, <1>3 DEF Retained!MarkDeleted
  <2>2. item[i].generation \in 0 .. MaxGeneration /\ date + RetentionTime \in Retained!Later
    BY <1>0 DEF Retained!ItemRecords, Retained!Later
  <2>3. /\ r \in Retained!ItemRecords /\ r.state = "trashed"
        /\ r.generation > item[i].generation
    BY <1>0, <2>1, <2>2 DEF Retained!ItemRecords
  <2> HIDE DEF r
  <2> QED
    BY <1>0, <2>1, <2>3, ItemStep
<1>4. ASSUME NEW i \in Items, Retained!RestoreItem(i)
      PROVE  RetentionInv' /\ Retained!RetentionSteps
  <2> DEFINE r == [item[i] EXCEPT !.state = "restored", !.retentionUntil = 0, !.lock = Retained!Unlocked]
  <2>1. /\ item[i].state # "purged" /\ item' = [item EXCEPT ![i] = r]
        /\ UNCHANGED <<now, holdUntil, batch>>
    BY <1>0, <1>4 DEF Retained!RestoreItem
  <2>2. item[i] \in Retained!ItemRecords /\ 0 \in Retained!Later
    BY <1>0 DEF Retained!Later
  <2>3. r \in Retained!ItemRecords /\ r.state = "restored"
    BY <1>0, <2>2 DEF Retained!ItemRecords
  <2> HIDE DEF r
  <2> QED
    BY <1>0, <2>1, <2>3, ItemStep
<1>5. ASSUME NEW i \in Items, NEW until \in 1 .. Retained!Forever,
             Retained!AddHold(i, until) \/ Retained!ReleaseHold(i)
      PROVE  RetentionInv' /\ Retained!RetentionSteps
  <2>1. until \in Retained!NoHold .. Retained!Forever /\ Retained!NoHold \in Retained!NoHold .. Retained!Forever
    BY DEF Retained!NoHold, Retained!Forever
  <2>2. /\ UNCHANGED <<now, item, batch>>
        /\ \E h \in Retained!NoHold .. Retained!Forever : holdUntil' = [holdUntil EXCEPT ![i] = h]
    BY <1>5, <2>1 DEF Retained!AddHold, Retained!ReleaseHold
  <2> QED
    BY <1>0, <2>2, RestStep
<1>6. ASSUME NEW i \in Items, NEW w \in {Worker, OtherWorker}, NEW date \in 0 .. MaxTime,
             Retained!AcquireLock(i, w, date) \/ Retained!ReleaseLock(i, w)
      PROVE  RetentionInv' /\ Retained!RetentionSteps
  <2> DEFINE lock == [owner |-> w, until |-> date + LeaseTime]
  <2>1. lock \in [owner : {"nobody", Worker, OtherWorker}, until : Retained!Later]
    BY <1>0 DEF Retained!Later
  <2>2. PICK l \in {lock, Retained!Unlocked} : item' = [item EXCEPT ![i].lock = l]
    BY <1>6 DEF Retained!AcquireLock, Retained!ReleaseLock
  <2>3. UNCHANGED <<now, holdUntil, batch>>
    BY <1>6 DEF Retained!AcquireLock, Retained!ReleaseLock
  <2> DEFINE r == [item[i] EXCEPT !.lock = l]
  <2> HIDE DEF lock
  <2>4. r \in Retained!ItemRecords /\ r.state = item[i].state
    BY <1>0, <2>1 DEF Retained!ItemRecords
  <2>5. item' = [item EXCEPT ![i] = r]
    BY <1>0, <2>2
  <2> HIDE DEF r
  <2> QED
    BY <1>0, <2>3, <2>4, <2>5, ItemStep
<1>7. ASSUME NEW i \in Items, Retained!TakeItem(i)
      PROVE  RetentionInv' /\ Retained!RetentionSteps
  <2> DEFINE lock == [owner |-> Worker, until |-> batch.startedAt + LeaseTime]
             r == [item[i] EXCEPT !.lock = lock]
             skipped == [batch EXCEPT !.todo = batch.todo \ {i}]
             taken == [batch EXCEPT !.todo = batch.todo \ {i}, !.calling = {i}, !.old = r]
  <2>1. UNCHANGED <<now, holdUntil>>
    BY <1>7 DEF Retained!TakeItem
  <2>2. \/ UNCHANGED item /\ batch' = skipped
        \/ item' = [item EXCEPT ![i].lock = lock] /\ batch' = taken
    BY <1>7 DEF Retained!TakeItem
  <2>3. lock \in [owner : {"nobody", Worker, OtherWorker}, until : Retained!Later]
    BY <1>0 DEF Retained!Later, Batches
  <2>4. item[i] \in Retained!ItemRecords
    BY <1>0
  <2> HIDE DEF lock
  <2>5. r \in Retained!ItemRecords /\ r.state = item[i].state
    BY <2>3, <2>4 DEF Retained!ItemRecords
  <2>6. item' = [item EXCEPT ![i].lock = lock] => item' = [item EXCEPT ![i] = r]
    BY <1>0
  <2> HIDE DEF r
  <2>7. /\ skipped \in Batches /\ taken \in Batches
    BY <1>0, <2>5 DEF Batches
  <2> HIDE DEF skipped, taken
  <2>8. CASE UNCHANGED item /\ batch' = skipped
    BY <1>0, <2>1, <2>7, <2>8, RestStep
  <2>9. CASE item' = [item EXCEPT ![i].lock = lock] /\ batch' = taken
    BY <1>0, <2>1, <2>5, <2>6, <2>7, <2>9, ItemStep
  <2> QED
    BY <2>2, <2>8, <2>9
<1>8. ASSUME NEW i \in Items, NEW accepted \in BOOLEAN, Retained!AnswerItem(i, accepted)
      PROVE  RetentionInv' /\ Retained!RetentionSteps
  <2> DEFINE due == accepted /\ Retained!StillDue(i)
             state == IF due THEN "purged" ELSE item[i].state
             r == [item[i] EXCEPT !.lock = Retained!Unlocked, !.state = state]
             over == [batch EXCEPT !.calling = {}, !.old = Retained!NoItem]
  <2>1. /\ UNCHANGED <<now, holdUntil>> /\ batch' = over
        /\ \/ UNCHANGED item
           \/ item' = [item EXCEPT ![i].lock = Retained!Unlocked, ![i].state = state]
    BY <1>0, <1>8 DEF Retained!AnswerItem
  <2>2. Retained!NoItem \in Retained!ItemRecords
    BY <1>0 DEF Retained!NoItem, Retained!ItemRecords, Retained!Later
  <2>3. over \in Batches
    BY <1>0, <2>2 DEF Batches
  <2>4. item[i] \in Retained!ItemRecords /\ holdUntil[i] \in Nat
    BY <1>0 DEF Retained!NoHold, Retained!Forever
  <2>5. /\ state \in {"none", "trashed", "restored", "purged"}
        /\ item[i].state = "purged" => state = "purged"
    BY <2>4 DEF Retained!ItemRecords
  <2>6. /\ batch.calling = {i}
        /\ due => Retained!Due(item[i], batch.startedAt) /\ ~Retained!Held(i, batch.startedAt)
        /\ UNCHANGED item \/ item[i].generation = batch.old.generation
        /\ state = "purged" /\ item[i].state # "purged" => due
    BY <1>8 DEF Retained!AnswerItem, Retained!StillDue
  <2> HIDE DEF state, over
  <2>7. r \in Retained!ItemRecords /\ r.state = state
    BY <1>0, <2>4, <2>5 DEF Retained!ItemRecords
  <2>8. item' = [item EXCEPT ![i].lock = Retained!Unlocked, ![i].state = state] =>
            item' = [item EXCEPT ![i] = r]
    BY <1>0
  <2> HIDE DEF r
  <2>9. CASE UNCHANGED item
    BY <1>0, <2>1, <2>3, <2>9, RestStep
  <2>10. CASE item' = [item EXCEPT ![i] = r] /\ item[i].generation = batch.old.generation
    BY <1>0, <2>1, <2>3, <2>5, <2>6, <2>7, <2>10, ItemStep
  <2> QED
    BY <2>1, <2>6, <2>8, <2>9, <2>10
<1>9. 1 \in 1 .. Retained!Forever /\ 0 \in 0 .. MaxTime
  BY DEF Retained!Forever
<1> QED
  BY <1>1, <1>2, <1>3, <1>4, <1>5, <1>6, <1>7, <1>8, <1>9, <1>B DEF Retained!Next

-----------------------------------------------------------------------------
(* Backup archives.  A call that is alone on its archives finds on disk what   *)
(* it left there: nobody else writes in them or removes from them; and what is *)
(* known of an archive is known while no call is at work on it.               *)

FileStates == Writers \cup {"none", "torn"}
Disks == [Archives -> [Backup!Files -> FileStates]]

At(w) == write[w].archive
Scope(r) == removal[r].scope

EmptyInv == \A a \in Archives : a \notin directories => disk[a] = Backup!NoFiles

Knowns == [Backup!Files -> Writers \cup {"none", "unknown"}]

KeptAt(a, k, d, ds) ==
    /\ \A f \in Backup!Files : k[f] # "unknown" => d[f] = k[f]
    /\ k = Backup!NoFiles => a \notin ds
    /\ (\E f \in Backup!Files : k[f] \in Writers) => a \in ds

IdleInv ==
    \A a \in Archives, f \in Backup!Files : known[a][f] # "unknown" =>
        /\ \A w \in Writers : Backup!Writing(w) /\ At(w) = a => f \notin write[w].given
        /\ \A r \in Removers : a \notin Scope(r)

WriteInv(w) ==
    Backup!Writing(w) =>
        /\ write[w].todo \subseteq write[w].given /\ "manifest" \in write[w].given
        /\ write[w].alone =>
              /\ \A v \in Writers \ {w} : Backup!Writing(v) => At(v) # At(w)
              /\ \A r \in Removers : At(w) \notin Scope(r)
              /\ At(w) \in directories
              /\ \A f \in write[w].given \ write[w].todo : disk[At(w)][f] = w

RemovalInv(r) ==
    /\ removal[r].unread \subseteq Scope(r) /\ removal[r].open \subseteq Scope(r)
    /\ \A x \in removal[r].todo : x[1] \in Scope(r)
    /\ removal[r].alone =>
          /\ \A w \in Writers : Backup!Writing(w) => At(w) \notin Scope(r)
          /\ \A q \in Removers \ {r} : Scope(q) \cap Scope(r) = {}
          /\ \A a \in Scope(r) : a \in removal[r].unread \cup removal[r].open \/ a \notin directories

BackupInv ==
    /\ Backup!TypeOK /\ Backup!ArchivesKept
    /\ EmptyInv /\ IdleInv
    /\ \A w \in Writers : WriteInv(w)
    /\ \A r \in Removers : RemovalInv(r)

LEMMA BackupNames ==
    /\ \A w \in Writers : w \notin {"none", "torn", "unknown"}
    /\ {"manifest", "metadata"} \subseteq Backup!Files /\ "metadata" # "manifest"
    /\ Backup!NoWrite \in Backup!WriteRecords /\ Backup!NoRemoval \in Backup!Removals
    /\ Backup!NoWrite.todo = {} /\ Backup!NoWrite.alone = FALSE
    /\ Backup!NoRemoval.scope = {} /\ Backup!NoRemoval.unread = {} /\ Backup!NoRemoval.open = {}
    /\ Backup!NoRemoval.todo = {} /\ Backup!NoRemoval.alone = FALSE
    /\ Backup!NoFiles \in [Backup!Files -> FileStates] /\ Backup!NoFiles["manifest"] = "none"
    /\ \A content \in Contents : {"manifest"} \cup content \in SUBSET Backup!Files
<1>1. (CHOOSE a \in Archives : TRUE) \in Archives
  BY SuiteAssumption
<1>2. Backup!NoWrite \in Backup!WriteRecords
  BY <1>1 DEF Backup!NoWrite, Backup!WriteRecords
<1>3. Backup!NoRemoval \in Backup!Removals
  BY DEF Backup!NoRemoval, Backup!Removals
<1> QED
  BY <1>2, <1>3, SuiteAssumption
     DEF Backup!Files, Backup!NoWrite, Backup!NoRemoval, Backup!NoFiles, FileStates

LEMMA KeptUnfolded ==
    Backup!ArchivesKept <=> \A a \in Archives : KeptAt(a, known[a], disk[a], directories)
BY DEF Backup!ArchivesKept, KeptAt

\* Where nothing is known, nothing can be wrong.
LEMMA NothingKnown ==
    ASSUME NEW a, NEW k, \A f \in Backup!Files : k[f] = "unknown", NEW d, NEW ds
    PROVE  KeptAt(a, k, d, ds)
BY BackupNames DEF KeptAt

\* The disk `d` with one file changed.
With(d, a, f, x) == [d EXCEPT ![a][f] = x]

LEMMA FileTouched ==
    ASSUME NEW d \in Disks, NEW a \in Archives, NEW f \in Backup!Files, NEW x \in FileStates
    PROVE  LET new == With(d, a, f, x) IN
           /\ new \in Disks /\ new[a][f] = x
           /\ \A g \in Backup!Files \ {f} : new[a][g] = d[a][g]
           /\ \A b \in Archives \ {a} : new[b] = d[b]
<1> DEFINE fs == [d[a] EXCEPT ![f] = x]
           new == With(d, a, f, x)
<1>1. new = [d EXCEPT ![a] = fs] /\ d[a] \in [Backup!Files -> FileStates]
  BY DEF Disks, With
<1>2. /\ fs \in [Backup!Files -> FileStates] /\ fs[f] = x
      /\ \A g \in Backup!Files \ {f} : fs[g] = d[a][g]
  BY <1>1
<1> HIDE DEF fs, new
<1>3. /\ new \in Disks /\ new[a] = fs
      /\ \A b \in Archives \ {a} : new[b] = d[b]
  BY <1>1, <1>2 DEF Disks
<1> QED
  BY <1>2, <1>3 DEF new

\* A call that starts takes their being alone from the others, and what was known.
LEMMA Disturbed ==
    ASSUME Backup!TypeOK, NEW scope \in SUBSET Archives
    PROVE  /\ Backup!WritesDisturbed(scope) \in [Writers -> Backup!WriteRecords]
           /\ \A w \in Writers :
                 LET new == Backup!WritesDisturbed(scope)[w] IN
                 /\ new.archive = At(w) /\ new.todo = write[w].todo /\ new.given = write[w].given
                 /\ new.alone => write[w].alone /\ At(w) \notin scope
           /\ Backup!RemovalsDisturbed(scope) \in [Removers -> Backup!Removals]
           /\ \A r \in Removers :
                 LET new == Backup!RemovalsDisturbed(scope)[r] IN
                 /\ new.scope = Scope(r) /\ new.unread = removal[r].unread
                 /\ new.todo = removal[r].todo /\ new.open = removal[r].open
                 /\ new.alone => removal[r].alone /\ Scope(r) \cap scope = {}
<1>1. ASSUME NEW w \in Writers
      PROVE  /\ Backup!WritesDisturbed(scope)[w] \in Backup!WriteRecords
             /\ LET new == Backup!WritesDisturbed(scope)[w] IN
                 /\ new.archive = At(w) /\ new.todo = write[w].todo /\ new.given = write[w].given
                 /\ new.alone => write[w].alone /\ At(w) \notin scope
  <2>1. write[w] \in Backup!WriteRecords
    BY DEF Backup!TypeOK
  <2> QED
    BY <2>1 DEF Backup!WritesDisturbed, Backup!WriteRecords, At
<1>2. ASSUME NEW r \in Removers
      PROVE  /\ Backup!RemovalsDisturbed(scope)[r] \in Backup!Removals
             /\ LET new == Backup!RemovalsDisturbed(scope)[r] IN
                 /\ new.scope = Scope(r) /\ new.unread = removal[r].unread
                 /\ new.todo = removal[r].todo /\ new.open = removal[r].open
                 /\ new.alone => removal[r].alone /\ Scope(r) \cap scope = {}
  <2>1. removal[r] \in Backup!Removals
    BY DEF Backup!TypeOK
  <2> QED
    BY <2>1 DEF Backup!RemovalsDisturbed, Backup!Removals, Scope
<1>3. /\ Backup!WritesDisturbed(scope) \in [Writers -> Backup!WriteRecords]
      /\ Backup!RemovalsDisturbed(scope) \in [Removers -> Backup!Removals]
  <2>1. /\ Backup!WritesDisturbed(scope) = [w \in Writers |-> Backup!WritesDisturbed(scope)[w]]
        /\ Backup!RemovalsDisturbed(scope) = [r \in Removers |-> Backup!RemovalsDisturbed(scope)[r]]
    BY DEF Backup!WritesDisturbed, Backup!RemovalsDisturbed
  <2> QED
    BY <1>1, <1>2, <2>1
<1> QED
  BY <1>1, <1>2, <1>3

LeftKnown(scope, files, k) ==
    /\ k \in [Archives -> Knowns]
    /\ \A a \in Archives, f \in Backup!Files :
          k[a][f] = IF a \in scope /\ f \in files THEN "unknown" ELSE known[a][f]
    /\ \A a \in Archives \ scope : k[a] = known[a]

LEMMA WhatIsForgotten ==
    ASSUME Backup!TypeOK, NEW scope \in SUBSET Archives, NEW files \in SUBSET Backup!Files
    PROVE  LeftKnown(scope, files, Backup!Forgotten(scope, files))
<1> DEFINE forgotten(a) ==
               [f \in Backup!Files |-> IF a \in scope /\ f \in files THEN "unknown" ELSE known[a][f]]
<1>1. known \in [Archives -> Knowns]
  BY DEF Backup!TypeOK, Knowns
<1>2. ASSUME NEW a \in Archives
      PROVE  /\ forgotten(a) \in Knowns /\ (a \notin scope => forgotten(a) = known[a])
             /\ \A f \in Backup!Files : forgotten(a)[f] =
                   IF a \in scope /\ f \in files THEN "unknown" ELSE known[a][f]
  <2>1. known[a] \in Knowns
    BY <1>1
  <2> QED
    BY <2>1 DEF Knowns
<1>3. Backup!Forgotten(scope, files) = [a \in Archives |-> forgotten(a)]
  BY DEF Backup!Forgotten
<1> HIDE DEF forgotten
<1> QED
  BY <1>2, <1>3 DEF LeftKnown

LEMMA StartWriteStep ==
    ASSUME BackupInv, NEW w \in Writers, NEW a \in Archives,
           NEW files \in SUBSET Backup!Files, "manifest" \in files, Backup!StartWrite(w, a, files)
    PROVE  BackupInv'
<1> DEFINE new == [archive |-> a, given |-> files, todo |-> files, alone |-> ~Backup!BusyWith({a})]
           ws == Backup!WritesDisturbed({a})
           rs == Backup!RemovalsDisturbed({a})
<1>1. /\ ~Backup!Writing(w) /\ directories' = directories \cup {a} /\ disk' = disk
      /\ write' = [ws EXCEPT ![w] = new] /\ removal' = rs /\ known' = Backup!Forgotten({a}, files)
  BY DEF Backup!StartWrite
<1>2. /\ new \in Backup!WriteRecords /\ new.archive = a /\ new.todo = files /\ new.given = files
      /\ new.alone => /\ \A v \in Writers : Backup!Writing(v) => At(v) # a
                      /\ \A r \in Removers : a \notin Scope(r)
  BY DEF Backup!WriteRecords, Backup!BusyWith, At, Scope
<1>3. /\ ws \in [Writers -> Backup!WriteRecords] /\ rs \in [Removers -> Backup!Removals]
      /\ known' \in [Archives -> Knowns]
      /\ \A f \in Backup!Files : known'[a][f] = IF f \in files THEN "unknown" ELSE known[a][f]
      /\ \A b \in Archives \ {a} : known'[b] = known[b]
      /\ \A v \in Writers : /\ ws[v].archive = At(v) /\ ws[v].todo = write[v].todo
                            /\ ws[v].given = write[v].given
                            /\ ws[v].alone => write[v].alone /\ At(v) # a
      /\ \A r \in Removers :
            /\ rs[r].scope = Scope(r) /\ rs[r].unread = removal[r].unread
            /\ rs[r].todo = removal[r].todo /\ rs[r].open = removal[r].open
            /\ rs[r].alone => removal[r].alone /\ a \notin Scope(r)
  <2>1. Backup!TypeOK /\ {a} \in SUBSET Archives
    BY DEF BackupInv
  <2>2. /\ ws \in [Writers -> Backup!WriteRecords]
        /\ \A v \in Writers : /\ ws[v].archive = At(v) /\ ws[v].todo = write[v].todo
                              /\ ws[v].given = write[v].given
                              /\ ws[v].alone => write[v].alone /\ At(v) \notin {a}
        /\ rs \in [Removers -> Backup!Removals]
        /\ \A r \in Removers :
              /\ rs[r].scope = Scope(r) /\ rs[r].unread = removal[r].unread
              /\ rs[r].todo = removal[r].todo /\ rs[r].open = removal[r].open
              /\ rs[r].alone => removal[r].alone /\ Scope(r) \cap {a} = {}
    BY <2>1, Disturbed
  <2>3. LeftKnown({a}, files, known')
    BY <1>1, <2>1, WhatIsForgotten
  <2> HIDE DEF ws, rs
  <2>4. /\ known' \in [Archives -> Knowns]
        /\ \A f \in Backup!Files : known'[a][f] = IF f \in files THEN "unknown" ELSE known[a][f]
        /\ \A b \in Archives \ {a} : known'[b] = known[b]
    BY <2>3 DEF LeftKnown
  <2> QED
    BY <1>1, <2>2, <2>4
<1> HIDE DEF new, ws, rs
<1>4. /\ write' \in [Writers -> Backup!WriteRecords] /\ write'[w] = new
      /\ \A v \in Writers \ {w} : write'[v] = ws[v]
  BY <1>1, <1>2, <1>3
<1>5. Backup!TypeOK'
  BY <1>1, <1>3, <1>4 DEF BackupInv, Backup!TypeOK, Knowns
<1>6. Backup!ArchivesKept' /\ EmptyInv'
  <2>1. EmptyInv'
    BY <1>1 DEF BackupInv, EmptyInv
  <2>2. ASSUME NEW b \in Archives
        PROVE  KeptAt(b, known'[b], disk[b], directories')
    <3>1. CASE b = a
      <4>1. KeptAt(a, known[a], disk[a], directories)
        BY KeptUnfolded DEF BackupInv
      <4>2. known'[a] # Backup!NoFiles
        BY <1>3, BackupNames
      <4> QED
        BY <1>1, <1>3, <3>1, <4>1, <4>2 DEF KeptAt
    <3>2. CASE b # a
      <4>1. KeptAt(b, known[b], disk[b], directories) /\ known'[b] = known[b]
        BY <1>3, <3>2, KeptUnfolded DEF BackupInv
      <4> QED
        BY <1>1, <3>2, <4>1 DEF KeptAt
    <3> QED
      BY <3>1, <3>2
  <2> QED
    BY <1>1, <2>1, <2>2 DEF Backup!ArchivesKept, KeptAt
<1>7. IdleInv'
  <2>0. ASSUME NEW b \in Archives, NEW f \in Backup!Files, known'[b][f] # "unknown"
        PROVE  known[b][f] # "unknown" /\ (b = a => f \notin files)
    BY <1>3, <2>0
  <2>1. ASSUME NEW b \in Archives, NEW f \in Backup!Files, known'[b][f] # "unknown",
               NEW v \in Writers, write'[v].todo # {}, write'[v].archive = b
        PROVE  f \notin write'[v].given
    <3>2. CASE v = w
      BY <1>2, <1>4, <2>0, <2>1, <3>2
    <3>3. CASE v # w
      BY <1>3, <1>4, <2>0, <2>1, <3>3 DEF BackupInv, IdleInv, Backup!Writing, At
    <3> QED
      BY <3>2, <3>3
  <2>2. ASSUME NEW b \in Archives, NEW f \in Backup!Files, known'[b][f] # "unknown", NEW r \in Removers
        PROVE  b \notin removal'[r].scope
    <3>1. b \notin Scope(r)
      BY <2>0, <2>2 DEF BackupInv, IdleInv
    <3> QED
      BY <1>1, <1>3, <3>1
  <2> QED
    BY <2>1, <2>2 DEF IdleInv, Backup!Writing, At, Scope
<1>8. ASSUME NEW v \in Writers PROVE WriteInv(v)'
  <2>1. CASE v = w
    BY <1>1, <1>2, <1>3, <1>4, <2>1 DEF BackupInv, WriteInv, Backup!Writing, At, Scope
  <2>2. CASE v # w
    BY <1>1, <1>2, <1>3, <1>4, <2>2 DEF BackupInv, WriteInv, Backup!Writing, At, Scope
  <2> QED
    BY <2>1, <2>2
<1>9. ASSUME NEW r \in Removers PROVE RemovalInv(r)'
  BY <1>1, <1>2, <1>3, <1>4 DEF BackupInv, RemovalInv, Backup!Writing, At, Scope
<1> QED
  BY <1>5, <1>6, <1>7, <1>8, <1>9 DEF BackupInv

LEMMA StartRemovalStep ==
    ASSUME BackupInv, NEW r \in Removers, NEW scope \in SUBSET Archives, scope # {},
           Backup!StartRemoval(r, scope)
    PROVE  BackupInv'
<1> DEFINE new == [scope |-> scope, unread |-> scope \cap directories, todo |-> {}, open |-> {},
                   alone |-> ~Backup!BusyWith(scope)]
           ws == Backup!WritesDisturbed(scope)
           rs == Backup!RemovalsDisturbed(scope)
<1>1. /\ Scope(r) = {} /\ UNCHANGED <<directories, disk>>
      /\ removal' = [rs EXCEPT ![r] = new] /\ write' = ws
      /\ known' = Backup!Forgotten(scope, Backup!Files)
  BY DEF Backup!StartRemoval, Backup!Removing, Scope
<1>2. /\ new \in Backup!Removals /\ new.scope = scope /\ new.unread = scope \cap directories
      /\ new.todo = {} /\ new.open = {}
      /\ new.alone => /\ \A w \in Writers : Backup!Writing(w) => At(w) \notin scope
                      /\ \A q \in Removers : Scope(q) \cap scope = {}
  BY DEF Backup!Removals, Backup!BusyWith, At, Scope
<1>3. /\ ws \in [Writers -> Backup!WriteRecords] /\ rs \in [Removers -> Backup!Removals]
      /\ known' \in [Archives -> Knowns]
      /\ \A b \in scope, f \in Backup!Files : known'[b][f] = "unknown"
      /\ \A b \in Archives \ scope : known'[b] = known[b]
      /\ \A v \in Writers : /\ ws[v].archive = At(v) /\ ws[v].todo = write[v].todo
                            /\ ws[v].given = write[v].given
                            /\ ws[v].alone => write[v].alone /\ At(v) \notin scope
      /\ \A q \in Removers :
            /\ rs[q].scope = Scope(q) /\ rs[q].unread = removal[q].unread
            /\ rs[q].todo = removal[q].todo /\ rs[q].open = removal[q].open
            /\ rs[q].alone => removal[q].alone /\ Scope(q) \cap scope = {}
  <2>1. Backup!TypeOK /\ Backup!Files \in SUBSET Backup!Files
    BY DEF BackupInv
  <2>2. /\ ws \in [Writers -> Backup!WriteRecords]
        /\ \A v \in Writers : /\ ws[v].archive = At(v) /\ ws[v].todo = write[v].todo
                              /\ ws[v].given = write[v].given
                              /\ ws[v].alone => write[v].alone /\ At(v) \notin scope
        /\ rs \in [Removers -> Backup!Removals]
        /\ \A q \in Removers :
              /\ rs[q].scope = Scope(q) /\ rs[q].unread = removal[q].unread
              /\ rs[q].todo = removal[q].todo /\ rs[q].open = removal[q].open
              /\ rs[q].alone => removal[q].alone /\ Scope(q) \cap scope = {}
    BY <2>1, Disturbed
  <2>3. LeftKnown(scope, Backup!Files, known')
    BY <1>1, <2>1, WhatIsForgotten
  <2> HIDE DEF ws, rs
  <2>4. /\ known' \in [Archives -> Knowns]
        /\ \A b \in scope, f \in Backup!Files : known'[b][f] = "unknown"
        /\ \A b \in Archives \ scope : known'[b] = known[b]
    BY <2>3 DEF LeftKnown
  <2> QED
    BY <1>1, <2>2, <2>4
<1> HIDE DEF new, ws, rs
<1>4. /\ removal' \in [Removers -> Backup!Removals] /\ removal'[r] = new
      /\ \A q \in Removers \ {r} : removal'[q] = rs[q]
  <2>1. rs \in [Removers -> Backup!Removals] /\ new \in Backup!Removals
    BY <1>2, <1>3
  <2> QED
    BY <1>1, <2>1
<1>5. Backup!TypeOK'
  BY <1>1, <1>3, <1>4 DEF BackupInv, Backup!TypeOK, Knowns
<1>6. Backup!ArchivesKept' /\ EmptyInv'
  <2>1. EmptyInv'
    BY <1>1 DEF BackupInv, EmptyInv
  <2>2. ASSUME NEW b \in Archives
        PROVE  KeptAt(b, known'[b], disk[b], directories)
    <3>1. CASE b \in scope
      BY <1>3, <3>1, NothingKnown
    <3>2. CASE b \notin scope
      BY <1>3, <3>2, KeptUnfolded DEF BackupInv
    <3> QED
      BY <3>1, <3>2
  <2> QED
    BY <1>1, <2>1, <2>2 DEF Backup!ArchivesKept, KeptAt
<1>7. IdleInv'
  <2>1. ASSUME NEW b \in Archives, NEW f \in Backup!Files, known'[b][f] # "unknown"
        PROVE  /\ \A w \in Writers : write'[w].todo # {} /\ write'[w].archive = b =>
                                        f \notin write'[w].given
               /\ \A q \in Removers : b \notin removal'[q].scope
    <3>1. b \notin scope /\ known[b][f] # "unknown"
      BY <1>3, <2>1
    <3> QED
      BY <1>1, <1>2, <1>3, <1>4, <3>1 DEF BackupInv, IdleInv, Backup!Writing, At, Scope
  <2> QED
    BY <2>1 DEF IdleInv, Backup!Writing, At, Scope
<1>8. ASSUME NEW v \in Writers PROVE WriteInv(v)'
  BY <1>1, <1>2, <1>3, <1>4 DEF BackupInv, WriteInv, Backup!Writing, At, Scope
<1>9. ASSUME NEW q \in Removers PROVE RemovalInv(q)'
  <2>1. CASE q = r
    BY <1>1, <1>2, <1>3, <1>4, <2>1 DEF BackupInv, RemovalInv, Backup!Writing, At, Scope
  <2>2. CASE q # r
    BY <1>1, <1>2, <1>3, <1>4, <2>2 DEF BackupInv, RemovalInv, Backup!Writing, At, Scope
  <2> QED
    BY <2>1, <2>2
<1> QED
  BY <1>5, <1>6, <1>7, <1>8, <1>9 DEF BackupInv

\* A file of an archive somebody is at work on is written, torn or removed.
LEMMA FileStep ==
    ASSUME BackupInv, NEW a \in Archives, NEW f \in Backup!Files, known[a][f] = "unknown",
           known[a] # Backup!NoFiles, NEW x \in FileStates,
           disk' = [disk EXCEPT ![a][f] = x], NEW ds \in SUBSET Archives, directories' = ds,
           x # "none" => a \in ds,
           ds \in {directories, directories \cup {a}}, UNCHANGED known
    PROVE  Backup!ArchivesKept' /\ EmptyInv'
<1>1. disk \in Disks
  BY DEF BackupInv, Backup!TypeOK, Disks, FileStates
<1>2. /\ disk' \in Disks /\ disk'[a][f] = x
      /\ \A g \in Backup!Files \ {f} : disk'[a][g] = disk[a][g]
      /\ \A b \in Archives \ {a} : disk'[b] = disk[b]
  <2>1. disk' = With(disk, a, f, x)
    BY DEF With
  <2>2. LET new == With(disk, a, f, x) IN
        /\ new \in Disks /\ new[a][f] = x
        /\ \A g \in Backup!Files \ {f} : new[a][g] = disk[a][g]
        /\ \A b \in Archives \ {a} : new[b] = disk[b]
    BY <1>1, FileTouched
  <2> QED
    BY <2>1, <2>2
<1>3. ASSUME NEW b \in Archives
      PROVE  KeptAt(b, known[b], disk'[b], ds)
  <2>0. KeptAt(b, known[b], disk[b], directories)
    BY KeptUnfolded DEF BackupInv
  <2>1. CASE b = a
    BY <1>2, <2>0, <2>1 DEF KeptAt
  <2>2. CASE b # a
    BY <1>2, <2>0, <2>2 DEF KeptAt
  <2> QED
    BY <2>1, <2>2
<1>4. ASSUME NEW b \in Archives, b \notin ds
      PROVE  disk'[b] = Backup!NoFiles
  <2>1. b \notin directories /\ disk[b] = Backup!NoFiles
    BY <1>4 DEF BackupInv, EmptyInv
  <2>2. CASE b = a
    <3>1. x = "none" /\ disk[a] = [g \in Backup!Files |-> "none"]
      BY <1>4, <2>1, <2>2 DEF Backup!NoFiles
    <3>2. disk'[a] \in [Backup!Files -> FileStates] /\ \A g \in Backup!Files : disk'[a][g] = "none"
      BY <1>2, <3>1 DEF Disks
    <3> QED
      BY <2>2, <3>2 DEF Backup!NoFiles
  <2>3. CASE b # a
    BY <1>2, <2>1, <2>3
  <2> QED
    BY <2>2, <2>3
<1> QED
  BY <1>3, <1>4 DEF Backup!ArchivesKept, EmptyInv, KeptAt

\* Where a call is at work nothing is known, and who is alone is somewhere else.
LEMMA WorkedOn ==
    ASSUME BackupInv
    PROVE  /\ \A w \in Writers : Backup!Writing(w) =>
                 /\ At(w) \in Archives /\ \A f \in write[w].given : known[At(w)][f] = "unknown"
                 /\ write[w].given \subseteq Backup!Files /\ write[w].todo \subseteq write[w].given
                 /\ "manifest" \in write[w].given /\ known[At(w)] # Backup!NoFiles
                 /\ \A v \in Writers \ {w} : Backup!Writing(v) /\ write[v].alone => At(v) # At(w)
                 /\ \A r \in Removers : removal[r].alone => At(w) \notin Scope(r)
           /\ \A r \in Removers : \A a \in Scope(r) :
                 /\ a \in Archives /\ \A f \in Backup!Files : known[a][f] = "unknown"
                 /\ \A w \in Writers : Backup!Writing(w) /\ write[w].alone => At(w) # a
                 /\ \A q \in Removers \ {r} : removal[q].alone => a \notin Scope(q)
<1>1. /\ \A w \in Writers : At(w) \in Archives /\ write[w].given \subseteq Backup!Files
      /\ \A r \in Removers : Scope(r) \subseteq Archives
  BY DEF BackupInv, Backup!TypeOK, Backup!WriteRecords, Backup!Removals, At, Scope
<1>2. ASSUME NEW w \in Writers, Backup!Writing(w)
      PROVE  /\ \A f \in write[w].given : known[At(w)][f] = "unknown"
             /\ write[w].todo \subseteq write[w].given /\ "manifest" \in write[w].given
             /\ known[At(w)] # Backup!NoFiles
  <2>1. \A f \in write[w].given : known[At(w)][f] = "unknown"
    BY <1>1, <1>2 DEF BackupInv, IdleInv
  <2>2. write[w].todo \subseteq write[w].given /\ "manifest" \in write[w].given
    BY <1>2 DEF BackupInv, WriteInv
  <2> QED
    BY <2>1, <2>2, BackupNames
<1>3. ASSUME NEW w \in Writers, Backup!Writing(w)
      PROVE  /\ \A v \in Writers \ {w} : Backup!Writing(v) /\ write[v].alone => At(v) # At(w)
             /\ \A r \in Removers : removal[r].alone => At(w) \notin Scope(r)
  BY <1>3 DEF BackupInv, WriteInv, RemovalInv
<1>4. ASSUME NEW r \in Removers, NEW a \in Scope(r)
      PROVE  /\ \A f \in Backup!Files : known[a][f] = "unknown"
             /\ \A w \in Writers : Backup!Writing(w) /\ write[w].alone => At(w) # a
             /\ \A q \in Removers \ {r} : removal[q].alone => a \notin Scope(q)
  BY <1>1 DEF BackupInv, IdleInv, WriteInv, RemovalInv
<1> QED
  BY <1>1, <1>2, <1>3, <1>4

\* A step touches one file at the most, and what is left to do of the call if it goes on.
Touched(a, f, x, ds) ==
    \/ disk' = disk
    \/ disk' = [disk EXCEPT ![a][f] = x] /\ (x # "none" => a \in ds)
Left(w, a, f, x, new) ==
    \/ new.todo = {}
    \/ /\ new.archive = a /\ new.alone = write[w].alone /\ new.given = write[w].given
       /\ new.todo = write[w].todo \ {f}
       /\ IF disk' = disk THEN disk[a][f] = w ELSE x = w

\* The call of a writer ends or goes on, having touched one file at the most.
LEMMA WriterStep ==
    ASSUME BackupInv, NEW w \in Writers, Backup!Writing(w), NEW a \in Archives, At(w) = a,
           NEW ds \in SUBSET Archives,
           directories' = ds, ds \in {directories, directories \cup {a}},
           NEW f \in write[w].given, NEW x \in FileStates, Touched(a, f, x, ds),
           NEW new \in Backup!WriteRecords, write' = [write EXCEPT ![w] = new],
           Left(w, a, f, x, new), UNCHANGED <<removal, known>>
    PROVE  BackupInv'
<1> USE DEF Touched, Left
<1>1. /\ At(w) = a /\ known[a] # Backup!NoFiles /\ f \in Backup!Files
      /\ \A g \in write[w].given : known[a][g] = "unknown"
      /\ write[w].todo \subseteq write[w].given /\ "manifest" \in write[w].given
      /\ \A v \in Writers \ {w} : Backup!Writing(v) /\ write[v].alone => At(v) # a
      /\ \A r \in Removers : removal[r].alone => a \notin Scope(r)
  BY WorkedOn
<1>2. disk \in Disks /\ f \in Backup!Files
  BY <1>1 DEF BackupInv, Backup!TypeOK, Disks, FileStates
<1>3. /\ disk' \in Disks /\ \A b \in Archives \ {a} : disk'[b] = disk[b]
      /\ \A g \in Backup!Files \ {f} : disk'[a][g] = disk[a][g]
      /\ disk' # disk => disk'[a][f] = x
  <2>1. CASE disk' = disk
    BY <1>2, <2>1
  <2>2. CASE disk' = [disk EXCEPT ![a][f] = x]
    <3>1. /\ disk' \in Disks /\ disk'[a][f] = x
          /\ \A g \in Backup!Files \ {f} : disk'[a][g] = disk[a][g]
          /\ \A b \in Archives \ {a} : disk'[b] = disk[b]
      <4>1. disk' = With(disk, a, f, x)
        BY <2>2 DEF With
      <4> QED
        BY <1>2, <4>1, FileTouched
    <3> QED
      BY <3>1
  <2> QED
    BY <2>1, <2>2
<1>4. /\ write' \in [Writers -> Backup!WriteRecords] /\ write'[w] = new
      /\ \A v \in Writers \ {w} : write'[v] = write[v]
  BY DEF BackupInv, Backup!TypeOK
<1>5. Backup!TypeOK'
  BY <1>3, <1>4 DEF BackupInv, Backup!TypeOK, Disks, FileStates
<1>6. Backup!ArchivesKept' /\ EmptyInv'
  <2>1. CASE disk' = disk
    <3>1. ASSUME NEW b \in Archives, known[b] = Backup!NoFiles
          PROVE  b \in ds <=> b \in directories
      BY <1>1, <3>1
    <3>2. ASSUME NEW b \in Archives
          PROVE  KeptAt(b, known[b], disk[b], ds)
      <4>1. KeptAt(b, known[b], disk[b], directories)
        BY KeptUnfolded DEF BackupInv
      <4> QED
        BY <3>1, <4>1 DEF KeptAt
    <3>3. EmptyInv'
      BY <2>1 DEF BackupInv, EmptyInv
    <3> QED
      BY <2>1, <3>2, <3>3 DEF Backup!ArchivesKept, KeptAt
  <2>2. CASE disk' = [disk EXCEPT ![a][f] = x] /\ (x # "none" => a \in ds)
    BY <1>1, <2>2, FileStep
  <2> QED
    BY <2>1, <2>2
<1>7. IdleInv'
  <2>1. ASSUME NEW b \in Archives, NEW g \in Backup!Files, known[b][g] # "unknown",
               NEW v \in Writers, write'[v].todo # {}, write'[v].archive = b
        PROVE  g \notin write'[v].given
    <3>1. CASE v = w
      BY <1>1, <1>4, <2>1, <3>1
    <3>2. CASE v # w
      BY <1>4, <2>1, <3>2 DEF BackupInv, IdleInv, Backup!Writing, At
    <3> QED
      BY <3>1, <3>2
  <2> QED
    BY <2>1 DEF BackupInv, IdleInv, Backup!Writing, At, Scope
<1>8. ASSUME NEW v \in Writers PROVE WriteInv(v)'
  <2>1. CASE v = w
    <3>0. ASSUME new.todo # {}
          PROVE  /\ new.alone = write[w].alone /\ new.given = write[w].given /\ new.archive = a
                 /\ new.todo = write[w].todo \ {f} /\ disk'[a][f] = w
      BY <1>1, <1>3, <3>0
    <3>1. ASSUME new.todo # {}, new.alone
          PROVE  /\ \A u \in Writers \ {w} : write'[u].todo # {} => write'[u].archive # a
                 /\ \A r \in Removers : a \notin Scope(r)
                 /\ a \in ds
                 /\ \A g \in new.given \ new.todo : disk'[a][g] = w
      <4>1. /\ \A u \in Writers \ {w} : Backup!Writing(u) => At(u) # a
            /\ \A r \in Removers : a \notin Scope(r)
            /\ a \in directories /\ write[w].given \subseteq Backup!Files
            /\ \A g \in write[w].given \ write[w].todo : disk[a][g] = w
        BY <3>0, <3>1, WorkedOn DEF BackupInv, WriteInv
      <4>2. \A g \in new.given \ new.todo : disk'[a][g] = w
        BY <1>3, <3>0, <3>1, <4>1
      <4>3. \A u \in Writers \ {w} : write'[u].todo # {} => write'[u].archive # a
        BY <1>4, <4>1 DEF Backup!Writing, At
      <4> QED
        BY <4>1, <4>2, <4>3
    <3> QED
      BY <1>1, <1>4, <2>1, <3>0, <3>1 DEF WriteInv, Backup!Writing, At, Scope
  <2>2. CASE v # w
    <3>1. write'[v] = write[v]
      BY <1>4, <2>2
    <3>2. ASSUME Backup!Writing(v), write[v].alone
          PROVE  /\ At(v) \in Archives \ {a} /\ At(v) \in ds
                 /\ \A u \in Writers \ {v} : write'[u].todo # {} => write'[u].archive # At(v)
                 /\ \A g \in write[v].given \ write[v].todo : disk'[At(v)][g] = v
      <4>1. At(v) \in Archives \ {a} /\ At(v) \in ds /\ disk'[At(v)] = disk[At(v)]
        BY <1>1, <1>3, <2>2, <3>2, WorkedOn DEF BackupInv, WriteInv
      <4> QED
        BY <1>4, <3>2, <4>1 DEF BackupInv, WriteInv, Backup!Writing, At
    <3> QED
      BY <3>1, <3>2 DEF BackupInv, WriteInv, Backup!Writing, At, Scope
  <2> QED
    BY <2>1, <2>2
<1>9. ASSUME NEW r \in Removers PROVE RemovalInv(r)'
  <2>1. ASSUME removal[r].alone, NEW v \in Writers, write'[v].todo # {}
        PROVE  write'[v].archive \notin Scope(r)
    BY <1>1, <1>4, <2>1 DEF BackupInv, RemovalInv, Backup!Writing, At
  <2>2. ASSUME removal[r].alone, NEW b \in Scope(r), b \in ds
        PROVE  b \in directories
    BY <1>1, <2>2
  <2> QED
    BY <2>1, <2>2 DEF BackupInv, RemovalInv, Backup!Writing, At, Scope
<1> QED
  BY <1>5, <1>6, <1>7, <1>8, <1>9 DEF BackupInv

LEMMA WriteFileStep ==
    ASSUME BackupInv, NEW w \in Writers, NEW f \in Backup!Files, Backup!WriteFile(w, f)
    PROVE  BackupInv'
<1> DEFINE new == [write[w] EXCEPT !.todo = write[w].todo \ {f}]
<1> PICK a \in Archives : At(w) = a
  BY DEF BackupInv, Backup!TypeOK, Backup!WriteRecords, At
<1>1. /\ f \in write[w].todo /\ UNCHANGED <<removal, known>>
      /\ directories' = directories \cup {a} /\ disk' = [disk EXCEPT ![a][f] = w]
      /\ write' = [write EXCEPT ![w].todo = @ \ {f}]
  BY DEF Backup!WriteFile, Backup!NextFile, At
<1>2. write[w] \in Backup!WriteRecords /\ write \in [Writers -> Backup!WriteRecords]
  BY DEF BackupInv, Backup!TypeOK
<1>3. /\ new \in Backup!WriteRecords /\ new.archive = a /\ new.alone = write[w].alone
      /\ new.given = write[w].given /\ new.todo = write[w].todo \ {f}
  BY <1>2 DEF Backup!WriteRecords, At
<1>4. write' = [write EXCEPT ![w] = new]
  BY <1>1, <1>2
<1>5. Backup!Writing(w) /\ w \in FileStates /\ directories \cup {a} \in SUBSET Archives
  BY <1>1 DEF BackupInv, Backup!TypeOK, Backup!Writing, FileStates
<1>6. disk' = disk => disk[a][f] = w
  <2>1. disk \in Disks
    BY DEF BackupInv, Backup!TypeOK, Disks, FileStates
  <2>2. disk' = With(disk, a, f, w) /\ With(disk, a, f, w)[a][f] = w
    BY <1>1, <1>5, <2>1, FileTouched DEF With
  <2> QED
    BY <2>2
<1> HIDE DEF new
<1> PICK ds \in SUBSET Archives : ds = directories \cup {a}
  BY <1>5
<1> PICK rest \in Backup!WriteRecords : rest = new
  BY <1>3
<1> PICK x \in FileStates : x = w
  BY <1>5
<1>7. directories' = ds /\ ds \in {directories, directories \cup {a}}
  BY <1>1
<1>8. Touched(a, f, x, ds)
  BY <1>1 DEF Touched
<1>9. Left(w, a, f, x, rest)
  BY <1>3, <1>6 DEF Left
<1>10. write' = [write EXCEPT ![w] = rest] /\ UNCHANGED <<removal, known>> /\ Backup!Writing(w)
  BY <1>1, <1>4, <1>5
<1>11. f \in write[w].given
  BY <1>1, <1>5, WorkedOn
<1> QED
  BY <1>7, <1>8, <1>9, <1>10, <1>11, WriterStep

\* A write is given up, with one of its files torn or not.
LEMMA GivenUpStep ==
    ASSUME BackupInv, NEW w \in Writers, Backup!Writing(w), NEW f \in write[w].given,
           Backup!Torn(w, f), write' = [write EXCEPT ![w] = Backup!NoWrite],
           UNCHANGED <<removal, known>>
    PROVE  BackupInv'
<1> PICK a \in Archives : At(w) = a
  BY DEF BackupInv, Backup!TypeOK, Backup!WriteRecords, At
<1> PICK new \in Backup!WriteRecords : new = Backup!NoWrite
  BY BackupNames
<1>1. new.todo = {} /\ write' = [write EXCEPT ![w] = new] /\ "torn" \in FileStates
  BY BackupNames DEF FileStates
<1>2. directories \in SUBSET Archives /\ directories \cup {a} \in SUBSET Archives
  BY DEF BackupInv, Backup!TypeOK
<1>3. CASE UNCHANGED <<directories, disk>>
  <2> PICK ds \in SUBSET Archives : ds = directories
    BY <1>2
  <2>1. directories' = ds /\ ds \in {directories, directories \cup {a}}
    BY <1>3
  <2>2. Touched(a, f, "torn", ds) /\ Left(w, a, f, "torn", new)
    BY <1>1, <1>3 DEF Touched, Left
  <2> QED
    BY <1>1, <2>1, <2>2, WriterStep
<1>4. CASE directories' = directories \cup {a} /\ disk' = [disk EXCEPT ![a][f] = "torn"]
  <2> PICK ds \in SUBSET Archives : ds = directories \cup {a}
    BY <1>2
  <2>1. directories' = ds /\ ds \in {directories, directories \cup {a}} /\ a \in ds
    BY <1>4
  <2>2. Touched(a, f, "torn", ds) /\ Left(w, a, f, "torn", new)
    BY <1>1, <1>4, <2>1 DEF Touched, Left
  <2> QED
    BY <1>1, <2>1, <2>2, WriterStep
<1> QED
  BY <1>3, <1>4 DEF Backup!Torn, At

LEMMA EndWriteStep ==
    ASSUME BackupInv, NEW w \in Writers, NEW f \in Backup!Files, Backup!EndWrite(w, f)
    PROVE  BackupInv'
<1> PICK a \in Archives : At(w) = a
  BY DEF BackupInv, Backup!TypeOK, Backup!WriteRecords, At
<1> DEFINE given == write[w].given
           left == [g \in Backup!Files |-> IF g \in given THEN w ELSE known[a][g]]
<1>1. /\ write[w].todo = {f} /\ directories' = directories \cup {a} /\ UNCHANGED removal
      /\ disk' = [disk EXCEPT ![a][f] = w]
      /\ write' = [write EXCEPT ![w] = Backup!NoWrite]
      /\ known' = IF write[w].alone
                    THEN [known EXCEPT ![a] = [g \in Backup!Files |-> IF g \in given THEN w ELSE @[g]]]
                    ELSE known
  BY DEF Backup!EndWrite, Backup!Written, At
<1>2. /\ known[a] # Backup!NoFiles /\ Backup!Writing(w) /\ f \in given
      /\ given \subseteq Backup!Files /\ "manifest" \in given
      /\ \A g \in given : known[a][g] = "unknown"
      /\ \A v \in Writers \ {w} : Backup!Writing(v) /\ write[v].alone => At(v) # a
      /\ \A r \in Removers : removal[r].alone => a \notin Scope(r)
  BY <1>1, WorkedOn DEF Backup!Writing
<1>3. disk \in Disks /\ known \in [Archives -> Knowns]
  BY DEF BackupInv, Backup!TypeOK, Disks, FileStates, Knowns
<1>4. /\ disk' \in Disks /\ disk'[a][f] = w
      /\ \A g \in Backup!Files \ {f} : disk'[a][g] = disk[a][g]
      /\ \A b \in Archives \ {a} : disk'[b] = disk[b]
  <2>1. disk' = With(disk, a, f, w) /\ w \in FileStates
    BY <1>1 DEF With, FileStates
  <2> QED
    BY <1>3, <2>1, FileTouched
<1>5. /\ write' \in [Writers -> Backup!WriteRecords] /\ write'[w].todo = {}
      /\ \A v \in Writers \ {w} : write'[v] = write[v]
  BY <1>1, BackupNames DEF BackupInv, Backup!TypeOK
<1>6. /\ known' \in [Archives -> Knowns]
      /\ \A b \in Archives \ {a} : known'[b] = known[b]
      /\ ~write[w].alone => known' = known
      /\ write[w].alone => known'[a] = left
  <2>1. left \in Knowns
    BY <1>3 DEF Knowns
  <2>2. write[w].alone => known' = [known EXCEPT ![a] = left]
    BY <1>1, <1>3
  <2> HIDE DEF left
  <2> QED
    BY <1>1, <1>3, <2>1, <2>2
<1>7. write[w].alone =>
          /\ \A v \in Writers \ {w} : Backup!Writing(v) => At(v) # a
          /\ \A r \in Removers : a \notin Scope(r)
          /\ \A g \in given : disk'[a][g] = w
  <2>1. ASSUME write[w].alone
        PROVE  /\ \A v \in Writers \ {w} : Backup!Writing(v) => At(v) # a
               /\ \A r \in Removers : a \notin Scope(r)
               /\ \A g \in given \ {f} : disk[a][g] = w
    BY <1>1, <1>2, <2>1 DEF BackupInv, WriteInv
  <2> QED
    BY <1>2, <1>4, <2>1
<1>8. Backup!TypeOK'
  BY <1>1, <1>4, <1>5, <1>6 DEF BackupInv, Backup!TypeOK, Disks, FileStates, Knowns
<1>9. ASSUME NEW b \in Archives
      PROVE  KeptAt(b, known'[b], disk'[b], directories')
  <2>0. KeptAt(b, known[b], disk[b], directories)
    BY KeptUnfolded DEF BackupInv
  <2>1. CASE b # a
    BY <1>1, <1>4, <1>6, <2>0, <2>1 DEF KeptAt
  <2>2. CASE b = a /\ ~write[w].alone
    BY <1>1, <1>2, <1>4, <1>6, <2>0, <2>2 DEF KeptAt
  <2>3. CASE b = a /\ write[w].alone
    <3>1. /\ \A g \in given : left[g] = w /\ disk'[a][g] = w
          /\ \A g \in Backup!Files \ given : left[g] = known[a][g] /\ disk'[a][g] = disk[a][g]
      BY <1>2, <1>4, <1>7, <2>3
    <3>2. known'[a] = left
      BY <1>6, <2>3
    <3>3. left # Backup!NoFiles
      <4>1. left["manifest"] # Backup!NoFiles["manifest"]
        BY <1>2, <3>1, BackupNames
      <4> QED
        BY <4>1
    <3> HIDE DEF left, given
    <3>4. \A g \in Backup!Files : left[g] # "unknown" => disk'[a][g] = left[g]
      BY <2>0, <2>3, <3>1 DEF KeptAt
    <3> QED
      BY <1>1, <2>3, <3>2, <3>3, <3>4 DEF KeptAt
  <2> QED
    BY <2>1, <2>2, <2>3
<1>A. Backup!ArchivesKept'
  BY <1>9 DEF Backup!ArchivesKept, KeptAt
<1>10. EmptyInv'
  BY <1>1, <1>4 DEF BackupInv, EmptyInv
<1>11. IdleInv'
  <2>1. ASSUME NEW b \in Archives, NEW g \in Backup!Files, known'[b][g] # "unknown"
        PROVE  /\ \A v \in Writers : write'[v].todo # {} /\ write'[v].archive = b =>
                                        g \notin write'[v].given
               /\ \A r \in Removers : b \notin Scope(r)
    <3>1. CASE b = a /\ write[w].alone
      BY <1>5, <1>7, <3>1 DEF Backup!Writing, At
    <3>2. CASE ~(b = a /\ write[w].alone)
      <4>1. known[b][g] # "unknown"
        BY <1>6, <2>1, <3>2
      <4> QED
        BY <1>5, <4>1 DEF BackupInv, IdleInv, Backup!Writing, At
    <3> QED
      BY <3>1, <3>2
  <2> QED
    BY <1>1, <2>1 DEF IdleInv, Backup!Writing, At, Scope
<1>12. ASSUME NEW v \in Writers PROVE WriteInv(v)'
  <2>1. CASE v = w
    BY <1>5, <2>1 DEF WriteInv, Backup!Writing
  <2>2. CASE v # w
    <3>1. write'[v] = write[v]
      BY <1>5, <2>2
    <3>2. ASSUME Backup!Writing(v), write[v].alone
          PROVE  disk'[At(v)] = disk[At(v)]
      BY <1>2, <1>4, <2>2, <3>2, WorkedOn
    <3> QED
      BY <1>1, <1>5, <3>1, <3>2 DEF BackupInv, WriteInv, Backup!Writing, At, Scope
  <2> QED
    BY <2>1, <2>2
<1>13. ASSUME NEW r \in Removers PROVE RemovalInv(r)'
  <2>1. removal[r].alone => a \notin Scope(r)
    BY <1>2
  <2> QED
    BY <1>1, <1>5, <2>1 DEF BackupInv, RemovalInv, Backup!Writing, At, Scope
<1> QED
  BY <1>8, <1>A, <1>10, <1>11, <1>12, <1>13 DEF BackupInv

\* A removal goes on, having taken one file at the most, or one empty directory.
Taken(a, f, ds) ==
    \/ ds = directories /\ (disk' = disk \/ disk' = [disk EXCEPT ![a][f] = "none"])
    \/ ds = directories \ {a} /\ disk' = disk /\ disk[a] = Backup!NoFiles
Ahead(r, new, ds) ==
    /\ new.scope = Scope(r) /\ new.alone = removal[r].alone
    /\ new.unread \subseteq Scope(r) /\ new.open \subseteq Scope(r)
    /\ \A x \in new.todo : x[1] \in Scope(r)
    /\ new.alone => \A b \in Scope(r) : b \in new.unread \cup new.open \/ b \notin ds

LEMMA RemoverStep ==
    ASSUME BackupInv, NEW r \in Removers, NEW a \in Archives, a \in Scope(r),
           NEW f \in Backup!Files, NEW ds \in SUBSET Archives, directories' = ds, Taken(a, f, ds),
           NEW new \in Backup!Removals, removal' = [removal EXCEPT ![r] = new],
           Ahead(r, new, ds), UNCHANGED <<write, known>>
    PROVE  BackupInv'
<1> USE DEF Taken, Ahead
<1>1. /\ \A g \in Backup!Files : known[a][g] = "unknown"
      /\ \A w \in Writers : Backup!Writing(w) /\ write[w].alone => At(w) # a
      /\ \A q \in Removers \ {r} : removal[q].alone => a \notin Scope(q)
  BY WorkedOn
<1>2. disk \in Disks
  BY DEF BackupInv, Backup!TypeOK, Disks, FileStates
<1>3. /\ disk' \in Disks /\ \A b \in Archives \ {a} : disk'[b] = disk[b]
      /\ disk[a] = Backup!NoFiles => disk'[a] = Backup!NoFiles
  <2>1. CASE disk' = disk
    BY <1>2, <2>1
  <2>2. CASE disk' = [disk EXCEPT ![a][f] = "none"]
    <3>1. disk' = With(disk, a, f, "none") /\ "none" \in FileStates
      BY <2>2 DEF With, FileStates
    <3>2. /\ disk' \in Disks /\ disk'[a][f] = "none"
          /\ \A g \in Backup!Files \ {f} : disk'[a][g] = disk[a][g]
          /\ \A b \in Archives \ {a} : disk'[b] = disk[b]
      BY <1>2, <3>1, FileTouched
    <3>3. ASSUME disk[a] = Backup!NoFiles
          PROVE  disk'[a] = Backup!NoFiles
      <4>1. disk'[a] \in [Backup!Files -> FileStates] /\ \A g \in Backup!Files : disk'[a][g] = "none"
        BY <3>2, <3>3 DEF Disks, Backup!NoFiles
      <4> QED
        BY <4>1 DEF Backup!NoFiles
    <3> QED
      BY <3>2, <3>3
  <2> QED
    BY <2>1, <2>2
<1>4. /\ removal' \in [Removers -> Backup!Removals] /\ removal'[r] = new
      /\ \A q \in Removers \ {r} : removal'[q] = removal[q]
  BY DEF BackupInv, Backup!TypeOK
<1>5. Backup!TypeOK'
  BY <1>3, <1>4 DEF BackupInv, Backup!TypeOK, Disks, FileStates
<1>6. ASSUME NEW b \in Archives
      PROVE  /\ KeptAt(b, known[b], disk'[b], ds)
             /\ b \notin ds => disk'[b] = Backup!NoFiles
  <2>1. CASE b = a
    <3>1. a \notin ds => disk[a] = Backup!NoFiles
      BY DEF BackupInv, EmptyInv
    <3> QED
      BY <1>1, <1>3, <2>1, <3>1, NothingKnown
  <2>2. CASE b # a
    <3>1. disk'[b] = disk[b] /\ (b \in ds <=> b \in directories)
      BY <1>3, <2>2
    <3>2. KeptAt(b, known[b], disk[b], directories)
      BY KeptUnfolded DEF BackupInv
    <3> QED
      BY <3>1, <3>2 DEF BackupInv, EmptyInv, KeptAt
  <2> QED
    BY <2>1, <2>2
<1>7. Backup!ArchivesKept' /\ EmptyInv'
  BY <1>6 DEF Backup!ArchivesKept, EmptyInv, KeptAt
<1>8. \A q \in Removers : removal'[q].scope = Scope(q) /\ removal'[q].alone = removal[q].alone
  BY <1>4 DEF Scope
<1>9. IdleInv'
  BY <1>8 DEF BackupInv, IdleInv, Backup!Writing, At, Scope
<1>10. ASSUME NEW w \in Writers PROVE WriteInv(w)'
  <2>1. ASSUME Backup!Writing(w), write[w].alone
        PROVE  /\ \A v \in Writers \ {w} : Backup!Writing(v) => At(v) # At(w)
               /\ \A q \in Removers : At(w) \notin removal'[q].scope
               /\ At(w) \in ds
               /\ \A g \in write[w].given \ write[w].todo : disk'[At(w)][g] = w
               /\ write[w].todo \subseteq write[w].given /\ "manifest" \in write[w].given
    <3>1. At(w) \in Archives /\ At(w) # a
      BY <1>1, <2>1, WorkedOn
    <3>2. disk'[At(w)] = disk[At(w)] /\ (At(w) \in ds <=> At(w) \in directories)
      BY <1>3, <3>1
    <3> QED
      BY <1>8, <2>1, <3>2 DEF BackupInv, WriteInv
  <2>2. Backup!Writing(w) =>
            write[w].todo \subseteq write[w].given /\ "manifest" \in write[w].given
    BY DEF BackupInv, WriteInv
  <2> QED
    BY <2>1, <2>2 DEF WriteInv, Backup!Writing, At, Scope
<1>11. ASSUME NEW q \in Removers PROVE RemovalInv(q)'
  <2>1. removal'[q].alone =>
            /\ \A w \in Writers : Backup!Writing(w) => At(w) \notin Scope(q)
            /\ \A p \in Removers \ {q} : removal'[p].scope \cap Scope(q) = {}
    BY <1>8 DEF BackupInv, RemovalInv
  <2>2. CASE q = r
    BY <1>4, <2>1, <2>2 DEF RemovalInv, Backup!Writing, At, Scope
  <2>3. CASE q # r
    <3>1. removal'[q] = removal[q] /\ ds \subseteq directories
      BY <1>4, <2>3
    <3> QED
      BY <2>1, <3>1 DEF BackupInv, RemovalInv, Backup!Writing, At, Scope
  <2> QED
    BY <2>2, <2>3
<1> QED
  BY <1>5, <1>7, <1>9, <1>10, <1>11 DEF BackupInv

\* What a removal knows of is in its scope.
LEMMA RemovalKnown ==
    ASSUME BackupInv, NEW r \in Removers
    PROVE  /\ removal[r] \in Backup!Removals /\ Scope(r) \in SUBSET Archives
           /\ removal[r].unread \in SUBSET Archives /\ removal[r].open \in SUBSET Archives
           /\ removal[r].todo \in SUBSET (Archives \X Backup!Files)
           /\ removal[r].unread \subseteq Scope(r) /\ removal[r].open \subseteq Scope(r)
           /\ \A a \in Archives, f \in Backup!Files : <<a, f>> \in removal[r].todo => a \in Scope(r)
           /\ removal[r].alone =>
                 \A a \in Scope(r) : a \in removal[r].unread \cup removal[r].open \/ a \notin directories
           /\ directories \in SUBSET Archives /\ removal \in [Removers -> Backup!Removals]
<1>1. /\ removal[r] \in Backup!Removals /\ RemovalInv(r) /\ directories \in SUBSET Archives
      /\ removal \in [Removers -> Backup!Removals]
  BY DEF BackupInv, Backup!TypeOK
<1>2. ASSUME NEW a \in Archives, NEW f \in Backup!Files, <<a, f>> \in removal[r].todo
      PROVE  a \in Scope(r)
  BY <1>1, <1>2 DEF RemovalInv
<1> QED
  BY <1>1, <1>2 DEF Backup!Removals, RemovalInv, Scope

LEMMA RemovalGoesOn ==
    ASSUME BackupInv, NEW r \in Removers, NEW a \in Archives, NEW f \in Backup!Files,
           Backup!ReadDirectory(r, a) \/ Backup!RemoveFile(r, a, f) \/ Backup!RemoveDirectory(r, a)
    PROVE  BackupInv'
<1> DEFINE old == removal[r]
           there == {<<a, g>> : g \in {g \in Backup!Files : disk[a][g] # "none"}}
           read == [old EXCEPT !.unread = old.unread \ {a}, !.open = old.open \cup {a},
                               !.todo = old.todo \cup there]
           less == [old EXCEPT !.todo = old.todo \ {<<a, f>>}]
           closed == [old EXCEPT !.open = old.open \ {a}]
<1>0. /\ old \in Backup!Removals /\ Scope(r) \in SUBSET Archives /\ old.scope = Scope(r)
      /\ old.unread \in SUBSET Archives /\ old.open \in SUBSET Archives
      /\ old.todo \in SUBSET (Archives \X Backup!Files)
      /\ old.unread \subseteq Scope(r) /\ old.open \subseteq Scope(r)
      /\ <<a, f>> \in old.todo => a \in Scope(r)
      /\ old.alone => \A b \in Scope(r) : b \in old.unread \cup old.open \/ b \notin directories
      /\ directories \in SUBSET Archives /\ removal \in [Removers -> Backup!Removals]
  BY RemovalKnown DEF Scope
<1>1. \A x \in old.todo : x[1] \in Scope(r)
  BY DEF BackupInv, RemovalInv
<1>2. CASE Backup!ReadDirectory(r, a)
  <2>1. /\ a \in old.unread /\ UNCHANGED <<directories, disk, write, known>>
        /\ removal' = [removal EXCEPT ![r] = read]
    BY <1>0, <1>2 DEF Backup!ReadDirectory
  <2>2. there \in SUBSET (Archives \X Backup!Files) /\ \A x \in there : x[1] = a
    OBVIOUS
  <2> HIDE DEF there
  <2>3. /\ read \in Backup!Removals /\ read.scope = old.scope /\ read.alone = old.alone
        /\ read.unread = old.unread \ {a} /\ read.open = old.open \cup {a}
        /\ read.todo = old.todo \cup there
    BY <1>0, <2>2 DEF Backup!Removals
  <2> HIDE DEF read
  <2> PICK new \in Backup!Removals : new = read
    BY <2>3
  <2> PICK ds \in SUBSET Archives : ds = directories
    BY <1>0
  <2>4. Ahead(r, new, ds)
    BY <1>0, <1>1, <2>1, <2>2, <2>3 DEF Ahead
  <2>5. Taken(a, f, ds) /\ directories' = ds /\ a \in Scope(r)
    BY <1>0, <2>1 DEF Taken
  <2> QED
    BY <2>1, <2>4, <2>5, RemoverStep
<1>3. CASE Backup!RemoveFile(r, a, f)
  <2>1. /\ <<a, f>> \in old.todo /\ UNCHANGED <<directories, write, known>>
        /\ disk' = [disk EXCEPT ![a][f] = "none"]
        /\ removal' = [removal EXCEPT ![r] = less]
    BY <1>0, <1>3 DEF Backup!RemoveFile
  <2>2. /\ less \in Backup!Removals /\ less.scope = old.scope /\ less.alone = old.alone
        /\ less.unread = old.unread /\ less.open = old.open /\ less.todo \subseteq old.todo
    BY <1>0 DEF Backup!Removals
  <2> HIDE DEF less
  <2> PICK new \in Backup!Removals : new = less
    BY <2>2
  <2> PICK ds \in SUBSET Archives : ds = directories
    BY <1>0
  <2>3. Ahead(r, new, ds)
    BY <1>0, <1>1, <2>2 DEF Ahead
  <2>4. Taken(a, f, ds) /\ directories' = ds /\ a \in Scope(r)
    BY <1>0, <2>1 DEF Taken
  <2> QED
    BY <2>1, <2>3, <2>4, RemoverStep
<1>4. CASE Backup!RemoveDirectory(r, a)
  <2>1. /\ a \in old.open /\ disk[a] = Backup!NoFiles /\ UNCHANGED <<disk, write, known>>
        /\ directories' = directories \ {a} /\ removal' = [removal EXCEPT ![r] = closed]
    BY <1>0, <1>4 DEF Backup!RemoveDirectory
  <2>2. /\ closed \in Backup!Removals /\ closed.scope = old.scope /\ closed.alone = old.alone
        /\ closed.unread = old.unread /\ closed.open = old.open \ {a} /\ closed.todo = old.todo
    BY <1>0 DEF Backup!Removals
  <2> HIDE DEF closed
  <2> PICK new \in Backup!Removals : new = closed
    BY <2>2
  <2> PICK ds \in SUBSET Archives : ds = directories \ {a}
    BY <1>0
  <2>3. Ahead(r, new, ds)
    BY <1>0, <1>1, <2>2 DEF Ahead
  <2>4. Taken(a, f, ds) /\ directories' = ds /\ a \in Scope(r)
    BY <1>0, <2>1 DEF Taken
  <2> QED
    BY <2>1, <2>3, <2>4, RemoverStep
<1> QED
  BY <1>2, <1>3, <1>4

\* A removal ends: what it had for itself is gone now, directory and files.
LEMMA EndRemovalStep ==
    ASSUME BackupInv, NEW r \in Removers, Backup!EndRemoval(r) \/ Backup!RemovalFails(r)
    PROVE  BackupInv'
<1>1. /\ removal' = [removal EXCEPT ![r] = Backup!NoRemoval]
      /\ UNCHANGED <<directories, disk, write>>
  BY DEF Backup!EndRemoval, Backup!RemovalFails
<1>2. /\ removal' \in [Removers -> Backup!Removals] /\ removal'[r].scope = {}
      /\ removal'[r].unread = {} /\ removal'[r].open = {} /\ removal'[r].todo = {}
      /\ removal'[r].alone = FALSE
      /\ \A q \in Removers \ {r} : removal'[q] = removal[q]
  BY <1>1, BackupNames DEF BackupInv, Backup!TypeOK
<1>3. \A q \in Removers : /\ removal'[q].scope \subseteq Scope(q)
                          /\ removal'[q].alone => removal'[q] = removal[q]
                          /\ removal'[q] = removal[q] \/ q = r
  BY <1>2 DEF Scope
<1>4. ASSUME NEW w \in Writers PROVE WriteInv(w)'
  BY <1>1, <1>3 DEF BackupInv, WriteInv, Backup!Writing, At, Scope
<1>5. ASSUME NEW q \in Removers PROVE RemovalInv(q)'
  <2>1. CASE q = r
    BY <1>2, <2>1 DEF RemovalInv, Scope
  <2>2. CASE q # r
    BY <1>1, <1>2, <1>3, <2>2 DEF BackupInv, RemovalInv, Backup!Writing, At, Scope
  <2> QED
    BY <2>1, <2>2
<1>6. CASE known' = known
  <2>1. IdleInv'
    BY <1>1, <1>3, <1>6 DEF BackupInv, IdleInv, Backup!Writing, At, Scope
  <2> QED
    BY <1>1, <1>2, <1>4, <1>5, <1>6, <2>1
       DEF BackupInv, Backup!TypeOK, Backup!ArchivesKept, EmptyInv
<1>7. CASE /\ Backup!Removed(r) /\ removal[r].alone
           /\ known' = [a \in Archives |-> IF a \in removal[r].scope THEN Backup!NoFiles ELSE known[a]]
  <2>1. /\ known' \in [Archives -> Knowns]
        /\ \A a \in Archives : known'[a] = IF a \in Scope(r) THEN Backup!NoFiles ELSE known[a]
    <3>1. Backup!NoFiles \in Knowns /\ known \in [Archives -> Knowns]
      BY DEF BackupInv, Backup!TypeOK, Knowns, Backup!NoFiles
    <3> QED
      BY <1>7, <3>1 DEF Scope
  <2>2. Backup!TypeOK'
    BY <1>1, <1>2, <2>1 DEF BackupInv, Backup!TypeOK, Knowns
  <2>3. EmptyInv'
    BY <1>1 DEF BackupInv, EmptyInv
  <2>4. ASSUME NEW a \in Archives, a \in Scope(r)
        PROVE  /\ a \notin directories /\ disk[a] = Backup!NoFiles
               /\ \A f \in Backup!Files : Backup!NoFiles[f] \notin Writers
    <3>1. a \notin directories /\ disk[a] = Backup!NoFiles
      BY <1>7, <2>4 DEF BackupInv, RemovalInv, EmptyInv, Backup!Removed
    <3> QED
      BY <3>1, BackupNames DEF Backup!NoFiles
  <2>5. ASSUME NEW a \in Archives
        PROVE  KeptAt(a, known'[a], disk[a], directories)
    <3>1. CASE a \in Scope(r)
      BY <2>1, <2>4, <3>1 DEF KeptAt
    <3>2. CASE a \notin Scope(r)
      BY <2>1, <3>2, KeptUnfolded DEF BackupInv
    <3> QED
      BY <3>1, <3>2
  <2>6. Backup!ArchivesKept'
    BY <1>1, <2>5 DEF Backup!ArchivesKept, KeptAt
  <2>7. ASSUME NEW a \in Archives, NEW f \in Backup!Files, known'[a][f] # "unknown"
        PROVE  /\ \A w \in Writers : Backup!Writing(w) /\ At(w) = a => f \notin write[w].given
               /\ \A q \in Removers : a \notin removal'[q].scope
    <3>1. CASE a \in Scope(r)
      <4>1. ASSUME NEW q \in Removers, a \in removal'[q].scope
            PROVE  FALSE
        <5>1. q # r /\ a \in Scope(q)
          BY <1>2, <1>3, <4>1
        <5> QED
          BY <1>7, <3>1, <5>1 DEF BackupInv, RemovalInv
      <4> QED
        BY <1>7, <3>1, <4>1 DEF BackupInv, RemovalInv
    <3>2. CASE a \notin Scope(r)
      <4>1. known[a][f] # "unknown"
        BY <2>1, <2>7, <3>2
      <4> QED
        BY <1>3, <4>1 DEF BackupInv, IdleInv
    <3> QED
      BY <3>1, <3>2
  <2>8. IdleInv'
    BY <1>1, <2>7 DEF IdleInv, Backup!Writing, At, Scope
  <2> QED
    BY <1>4, <1>5, <2>2, <2>3, <2>6, <2>8 DEF BackupInv
<1> QED
  BY <1>6, <1>7 DEF Backup!EndRemoval, Backup!RemovalFails

\* The process dies: no call is left, and what is known of the archives still holds.
LEMMA CrashStep ==
    ASSUME BackupInv, Backup!Crash
    PROVE  BackupInv'
<1>1. /\ UNCHANGED known
      /\ write' = [w \in Writers |-> Backup!NoWrite]
      /\ removal' = [r \in Removers |-> Backup!NoRemoval]
  BY DEF Backup!Crash
<1>2. /\ write' \in [Writers -> Backup!WriteRecords] /\ removal' \in [Removers -> Backup!Removals]
      /\ \A w \in Writers : write'[w].todo = {}
      /\ \A r \in Removers : /\ removal'[r].scope = {} /\ removal'[r].unread = {}
                             /\ removal'[r].open = {} /\ removal'[r].todo = {}
                             /\ removal'[r].alone = FALSE
  BY <1>1, BackupNames
<1>3. /\ IdleInv' /\ \A w \in Writers : WriteInv(w)'
      /\ \A r \in Removers : RemovalInv(r)'
  BY <1>2 DEF IdleInv, WriteInv, RemovalInv, Backup!Writing, At, Scope
<1>4. CASE UNCHANGED <<directories, disk>>
  BY <1>1, <1>2, <1>3, <1>4 DEF BackupInv, Backup!TypeOK, Backup!ArchivesKept, EmptyInv
<1>5. ASSUME NEW w \in Writers, NEW f \in write[w].todo, Backup!Writing(w),
             directories' = directories \cup {At(w)},
             disk' = [disk EXCEPT ![At(w)][f] = "torn"]
      PROVE  BackupInv'
  <2> PICK a \in Archives : At(w) = a
    BY DEF BackupInv, Backup!TypeOK, Backup!WriteRecords, At
  <2> PICK ds \in SUBSET Archives : ds = directories \cup {a}
    BY DEF BackupInv, Backup!TypeOK
  <2>1. /\ f \in Backup!Files /\ known[a][f] = "unknown" /\ known[a] # Backup!NoFiles
        /\ "torn" \in FileStates /\ directories' = ds /\ a \in ds
    BY <1>5, WorkedOn DEF FileStates
  <2>2. disk' = [disk EXCEPT ![a][f] = "torn"] /\ ds \in {directories, directories \cup {a}}
    BY <1>5
  <2>3. Backup!ArchivesKept' /\ EmptyInv'
    BY <1>1, <2>1, <2>2, FileStep
  <2>4. disk' \in Disks
    <3>1. disk \in Disks /\ disk' = With(disk, a, f, "torn")
      BY <2>2 DEF BackupInv, Backup!TypeOK, Disks, FileStates, With
    <3> QED
      BY <2>1, <3>1, FileTouched
  <2> QED
    BY <1>1, <1>2, <1>3, <2>1, <2>3, <2>4 DEF BackupInv, Backup!TypeOK, Disks, FileStates
<1> QED
  BY <1>4, <1>5 DEF Backup!Crash, Backup!Torn, Backup!NextFile, At

LEMMA BackupStep ==
    ASSUME BackupInv, Backup!Next
    PROVE  BackupInv'
<1>1. ASSUME NEW w \in Writers, NEW f \in Backup!Files, Backup!WriteFails(w, f)
      PROVE  BackupInv'
  <2>1. /\ Backup!Writing(w) /\ Backup!Torn(w, f) /\ UNCHANGED <<removal, known>>
        /\ f \in write[w].todo
    BY <1>1 DEF Backup!WriteFails, Backup!NextFile, Backup!Writing
  <2>2. write' = [write EXCEPT ![w] = Backup!NoWrite]
    BY <1>1 DEF Backup!WriteFails
  <2>3. f \in write[w].given
    BY <2>1, WorkedOn
  <2> QED
    BY <2>1, <2>2, <2>3, GivenUpStep
<1>2. ASSUME NEW r \in Removers, NEW scope \in {Archives} \cup {{a} : a \in Archives},
             Backup!StartRemoval(r, scope)
      PROVE  BackupInv'
  <2>1. scope \in SUBSET Archives /\ scope # {}
    BY SuiteAssumption
  <2> QED
    BY <1>2, <2>1, StartRemovalStep
<1>3. ASSUME NEW r \in Removers, NEW a \in Archives,
             \/ Backup!ReadDirectory(r, a) \/ Backup!RemoveDirectory(r, a)
             \/ \E f \in Backup!Files : Backup!RemoveFile(r, a, f)
      PROVE  BackupInv'
  BY <1>3, RemovalGoesOn, BackupNames
<1>4. ASSUME NEW w \in Writers, NEW a \in Archives, NEW content \in Contents,
             Backup!StartWrite(w, a, {"manifest"} \cup content)
      PROVE  BackupInv'
  <2> PICK files \in SUBSET Backup!Files : files = {"manifest"} \cup content
    BY BackupNames
  <2> QED
    BY <1>4, StartWriteStep
<1> QED
  BY <1>1, <1>2, <1>3, <1>4, CrashStep, EndWriteStep, WriteFileStep, EndRemovalStep
     DEF Backup!Next

-----------------------------------------------------------------------------
(* The suite: the part at work keeps its books, the others rest. *)

SuiteInv ==
    /\ part \in Parts /\ now \in 0 .. MaxTime
    /\ part = "delegation" => GivenInv
    /\ QuotaInv /\ AuditInv /\ CountInv /\ (part = "abuse" => AbuseInv) /\ KeyringInv
    /\ LifecycleInv /\ RetentionInv /\ BackupInv

LEMMA GivenInit == Delegated!Init => GivenInv
<1> SUFFICES ASSUME Delegated!Init PROVE GivenInv
  OBVIOUS
<1>1. delegation = [o \in Users |-> Delegated!NoDelegation] /\ now = 0
  BY DEF Delegated!Init
<1> QED
  BY <1>1, SuiteAssumption DEF GivenInv

LEMMA QuotaInit == Quota!Init => Quota!TypeOK
<1> SUFFICES ASSUME Quota!Init PROVE Quota!TypeOK
  OBVIOUS
<1> USE Settings
<1>1. /\ allocation \in [Users -> Quota!Bytes \cup {Quota!Unknown}] /\ usage \in [Users -> Nat]
      /\ initial = usage
  BY DEF Quota!Init, Quota!Bytes, Quota!Unknown
<1>2. ASSUME NEW u \in Users PROVE usage[u] \in Quota!Bytes
  <2>1. usage[u] <= IF Quota!Known(u) THEN allocation[u] ELSE 0
    BY DEF Quota!Init
  <2> QED
    BY <1>1, <2>1 DEF Quota!Known, Quota!Bytes, Quota!Unknown
<1>3. reservation \in [Quota!Numbers -> [user : Users \cup {NoUser}, size : Quota!Bytes,
                                         released : BOOLEAN]]
  BY DEF Quota!Init, Quota!NoReservation, Quota!Bytes
<1> QED
  BY <1>1, <1>2, <1>3 DEF Quota!TypeOK

LEMMA BooksInit == Quota!Init => QuotaInv
<1> SUFFICES ASSUME Quota!Init PROVE QuotaInv
  OBVIOUS
<1>1. /\ Quota!TypeOK /\ Quota!Allocated(Users) <= GrossQuota /\ initial = usage
      /\ \A u \in Users : usage[u] <= IF Quota!Known(u) THEN allocation[u] ELSE 0
      /\ reservation = [n \in Quota!Numbers |-> Quota!NoReservation]
  BY QuotaInit DEF Quota!Init
<1>2. Quota!Made = {} /\ \A u : Quota!Open(u) = {}
  BY <1>1 DEF Quota!Made, Quota!Open
<1>3. \A u \in Users : usage[u] = initial[u] + Total(Sizes, Quota!Open(u))
  <2>1. Total(Sizes, {}) = 0
    BY TotalFirst, FS_EmptySet
  <2>2. \A u \in Users : usage[u] \in Nat
    BY <1>1 DEF Quota!TypeOK
  <2> QED
    BY <1>1, <1>2, <2>1, <2>2
<1> QED
  BY <1>1, <1>2, <1>3, AllocatedTotal DEF QuotaInv, Balanced

LEMMA AuditInit == Audit!Init => AuditInv
BY Settings DEF Audit!Init, Audit!TypeOK, AuditInv

LEMMA CountInit == Abuse!Init => CountInv
<1> SUFFICES ASSUME Abuse!Init PROVE CountInv
  OBVIOUS
<1>1. 0 \in Abuse!Times /\ <<>> \in Seq(Abuse!Times) /\ <<>> \in Seq(Abuse!Keys)
  BY Settings DEF Abuse!Times
<1>2. Abuse!IsInjective(<<>>)
  BY DEF Abuse!IsInjective
<1>3. /\ failure \in [Subjects -> [startedAt : Abuse!Times, count : 0 .. MaxFailures]]
      /\ \A s \in Subjects : failure[s].count = 0 /\ failedAt[s] = <<>>
  BY <1>1, Settings DEF Abuse!Init, Abuse!NoBucket
<1> QED
  BY <1>1, <1>2, <1>3, Settings DEF Abuse!Init, CountInv, Abuse!TypeOK, Abuse!NoBucket

LEMMA AbuseInit == Abuse!Init => AbuseInv
<1> SUFFICES ASSUME Abuse!Init PROVE AbuseInv
  OBVIOUS
<1> USE GuardRule, Rule
<1>1. ASSUME NEW k \in Abuse!Keys
      PROVE  KeyInv(k)
  <2>1. \A u \in Abuse!Times : admitted[k][u] = 0
    BY DEF Abuse!Init
  <2>2. ~Abuse!Kept(k)
    BY DEF Abuse!Init, Abuse!Kept, Abuse!ToSet
  <2>3. ASSUME NEW t \in Abuse!Times
        PROVE  Total(admitted[k], Length(t)) <= 2 * Limit
    <3>1. IsFiniteSet(Length(t)) /\ \A u \in Length(t) : admitted[k][u] = 0
      <4>1. Length(t) \in SUBSET Abuse!Times /\ IsFiniteSet(Length(t))
        BY Clock
      <4> QED
        BY <2>1, <4>1
    <3>2. Total(admitted[k], Length(t)) = 0
      BY <3>1, TotalZero
    <3> QED
      BY <3>2
  <2> QED
    BY <2>1, <2>2, <2>3 DEF KeyInv, SpansHold
<1>2. ASSUME NEW s \in Subjects
      PROVE  FailureInv(s)
  <2>1. /\ failure[s].count = 0 /\ failure[s].startedAt = 0 /\ failedAt[s] = <<>>
        /\ lockedUntil[s] = 0 /\ now = 0
    BY DEF Abuse!Init, Abuse!NoBucket
  <2>2. TimesInv(<<>>, 0, 0, 0) /\ CoverInv(<<>>, 0, 0, 0)
    BY DEF TimesInv, CoverInv
  <2> QED
    BY <2>1, <2>2 DEF FailureInv
<1> QED
  BY <1>1, <1>2, CountInit DEF AbuseInv

LEMMA KeyringInit == Keyring!Init => KeyringInv
<1> SUFFICES ASSUME Keyring!Init PROVE KeyringInv
  OBVIOUS
<1>1. /\ now = 0 /\ challenge = [c \in Keyring!Challenges |-> Keyring!NoChallenge]
      /\ credential = [k \in Credentials |-> Keyring!NoCredential]
      /\ completed = [c \in Keyring!Challenges |-> {}] /\ shown = [k \in Credentials |-> {}]
  BY DEF Keyring!Init
<1>2. Keyring!NoChallenge \in Keyring!ChallengeRecords
  BY Settings DEF Keyring!NoChallenge, Keyring!ChallengeRecords
<1>3. Keyring!TypeOK
  BY <1>1, <1>2, Settings DEF Keyring!TypeOK, Keyring!NoCredential
<1>4. Keyring!CeremoniesSingle
  BY <1>1, SameCount, FS_EmptySet DEF Keyring!CeremoniesSingle
<1>5. \A c \in Keyring!Challenges : completed[c] = {} /\ ~Asked(c)
  BY <1>1 DEF Asked, Keyring!NoChallenge
<1> QED
  BY <1>3, <1>4, <1>5 DEF KeyringInv

LEMMA LifecycleInit == Lifecycle!Init => LifecycleInv
<1> SUFFICES ASSUME Lifecycle!Init PROVE LifecycleInv
  OBVIOUS
<1> DEFINE first == [state |-> "active", recoveryUntil |-> 0, plan |-> Resources, holds |-> {}]
<1>0. /\ "active" \in Lifecycle!States /\ 0 \in Lifecycle!Dates
      /\ Resources \in (SUBSET Resources) \ {{}}
  <2>1. Resources \in (SUBSET Resources) \ {{}}
    BY SuiteAssumption
  <2> QED
    BY <2>1, Settings DEF Lifecycle!States, Lifecycle!Dates
<1>1. Lifecycle!TypeOK
  <2>1. account = first /\ first \in Lifecycle!Accounts
    BY <1>0 DEF Lifecycle!Init, Lifecycle!Accounts
  <2>2. purge \in [Purges -> Lifecycle!PurgeRecords]
    BY DEF Lifecycle!Init, Lifecycle!PurgeRecords, Lifecycle!NoPurge
  <2> QED
    BY <2>1, <2>2 DEF Lifecycle!Init, Lifecycle!TypeOK
<1>2. \A p \in Purges : ~purge[p].running /\ purge[p].todo = {}
  BY DEF Lifecycle!Init, Lifecycle!NoPurge
<1>3. Lifecycle!PurgedMeansGone
  BY DEF Lifecycle!Init, Lifecycle!PurgedMeansGone
<1> QED
  BY <1>1, <1>2, <1>3 DEF LifecycleInv, PurgeInv

LEMMA RetentionInit == Retained!Init => RetentionInv
<1> SUFFICES ASSUME Retained!Init PROVE RetentionInv
  OBVIOUS
<1>1. Retained!NoItem \in Retained!ItemRecords
  BY Settings DEF Retained!NoItem, Retained!ItemRecords, Retained!Later, Retained!Unlocked
<1> QED
  BY <1>1, Settings DEF Retained!Init, RetentionInv, Retained!TypeOK, Retained!NoBatch,
                        Retained!NoHold, Retained!Forever

LEMMA BackupInit == Backup!Init => BackupInv
<1> SUFFICES ASSUME Backup!Init PROVE BackupInv
  OBVIOUS
<1>1. /\ directories = {} /\ disk = [a \in Archives |-> Backup!NoFiles]
      /\ write = [w \in Writers |-> Backup!NoWrite]
      /\ removal = [r \in Removers |-> Backup!NoRemoval]
      /\ known = [a \in Archives |-> Backup!NoFiles]
  BY DEF Backup!Init
<1>2. Backup!TypeOK
  BY <1>1, BackupNames DEF Backup!TypeOK, FileStates, Backup!NoFiles
<1>3. Backup!ArchivesKept /\ EmptyInv
  <2>1. \A f \in Backup!Files : Backup!NoFiles[f] \notin Writers
    BY BackupNames DEF Backup!NoFiles
  <2> QED
    BY <1>1, <2>1 DEF Backup!ArchivesKept, EmptyInv
<1>4. /\ \A w \in Writers : ~Backup!Writing(w)
      /\ \A r \in Removers : /\ Scope(r) = {} /\ removal[r].unread = {} /\ removal[r].open = {}
                             /\ removal[r].todo = {} /\ ~removal[r].alone
  BY <1>1, BackupNames DEF Backup!Writing, Scope
<1> QED
  BY <1>2, <1>3, <1>4 DEF BackupInv, IdleInv, WriteInv, RemovalInv

LEMMA SuiteInit == Init => SuiteInv
<1> SUFFICES ASSUME Init PROVE SuiteInv
  OBVIOUS
<1>1. now \in 0 .. MaxTime
  BY Settings DEF Init, Delegated!Init
<1> QED
  BY <1>1, GivenInit, BooksInit, AuditInit, AbuseInit, KeyringInit, LifecycleInit, RetentionInit,
     BackupInit DEF Init, SuiteInv, AbuseInv

\* A part at rest keeps its books whatever the clock says.
LEMMA PartsRest ==
    ASSUME SuiteInv, now' \in 0 .. MaxTime
    PROVE  /\ UNCHANGED quota => QuotaInv'
           /\ UNCHANGED audit => AuditInv'
           /\ UNCHANGED abuse => CountInv'
           /\ UNCHANGED keyring => KeyringInv'
           /\ UNCHANGED lifecycle => LifecycleInv'
           /\ UNCHANGED retained => RetentionInv'
           /\ UNCHANGED backup => BackupInv'
<1>1. UNCHANGED quota => QuotaInv'
  BY DEF SuiteInv, quota, QuotaInv, Quota!TypeOK, Balanced, KnownOf, Sizes, Quota!Known,
         Quota!Made, Quota!Open
<1>2. UNCHANGED audit => AuditInv'
  BY DEF SuiteInv, audit, AuditInv, Audit!TypeOK
<1>3. UNCHANGED abuse => CountInv'
  BY DEF SuiteInv, abuse, CountInv, Abuse!TypeOK, Abuse!Times
<1>4. UNCHANGED keyring => KeyringInv'
  BY DEF SuiteInv, keyring, KeyringInv, Keyring!TypeOK, Keyring!CeremoniesSingle, Asked
<1>5. UNCHANGED lifecycle => LifecycleInv'
  BY DEF SuiteInv, lifecycle, LifecycleInv, Lifecycle!TypeOK, Lifecycle!PurgedMeansGone, PurgeInv
<1>6. UNCHANGED retained => RetentionInv'
  BY DEF SuiteInv, retained, RetentionInv, Retained!TypeOK
<1>7. UNCHANGED backup => BackupInv'
  BY DEF SuiteInv, backup, BackupInv, Backup!TypeOK, Backup!ArchivesKept, EmptyInv, IdleInv,
         WriteInv, RemovalInv, Backup!Writing, At, Scope
<1> QED
  BY <1>1, <1>2, <1>3, <1>4, <1>5, <1>6, <1>7

LEMMA SuiteStep ==
    ASSUME SuiteInv, Next
    PROVE  /\ SuiteInv'
           /\ part = "delegation" => Delegated!GrantSteps
           /\ part = "webauthn" => Keyring!CredentialSteps
           /\ part = "lifecycle" => Lifecycle!AccountSteps
           /\ part = "retention" => Retained!RetentionSteps
<1>0. part' = part /\ part \in Parts
  BY DEF Next, SuiteInv
<1>1. CASE part = "delegation"
  <2>1. /\ Delegated!Next
        /\ UNCHANGED <<quota, audit, abuse, keyring, lifecycle, retained, backup>>
    BY <1>1 DEF Next
  <2>2. GivenInv' /\ Delegated!GrantSteps
    BY <1>1, <2>1, DelegationStep DEF SuiteInv
  <2>3. now' \in 0 .. MaxTime
    BY <2>2, Settings DEF GivenInv
  <2> QED
    BY <1>0, <1>1, <2>1, <2>2, <2>3, PartsRest DEF SuiteInv
<1>2. CASE part = "quota"
  <2>1. /\ Quota!Next
        /\ UNCHANGED <<now, audit, abuse, keyring, lifecycle, retained, backup>>
    BY <1>2 DEF Next
  <2>2. QuotaInv' /\ now' \in 0 .. MaxTime
    BY <2>1, BooksStep DEF SuiteInv
  <2> QED
    BY <1>0, <1>2, <2>1, <2>2, PartsRest DEF SuiteInv
<1>3. CASE part = "audit"
  <2>1. /\ Audit!Next
        /\ UNCHANGED <<now, quota, abuse, keyring, lifecycle, retained, backup>>
    BY <1>3 DEF Next
  <2>2. AuditInv' /\ now' \in 0 .. MaxTime
    BY <2>1, RecordStep DEF SuiteInv
  <2> QED
    BY <1>0, <1>3, <2>1, <2>2, PartsRest DEF SuiteInv
<1>4. CASE part = "abuse"
  <2>1. /\ Abuse!Next
        /\ UNCHANGED <<quota, audit, keyring, lifecycle, retained, backup>>
    BY <1>4 DEF Next
  <2>2. AbuseInv'
    BY <1>4, <2>1, AbuseBooks DEF SuiteInv
  <2>3. CountInv' /\ now' \in 0 .. MaxTime
    BY <2>2 DEF AbuseInv, CountInv, Abuse!TypeOK, Abuse!Times
  <2> QED
    BY <1>0, <1>4, <2>1, <2>2, <2>3, PartsRest DEF SuiteInv
<1>5. CASE part = "webauthn"
  <2>1. /\ Keyring!Next
        /\ UNCHANGED <<quota, audit, abuse, lifecycle, retained, backup>>
    BY <1>5 DEF Next
  <2>2. KeyringInv' /\ Keyring!CredentialSteps
    BY <2>1, KeyringStep DEF SuiteInv
  <2>3. now' \in 0 .. MaxTime
    BY <2>2 DEF KeyringInv, Keyring!TypeOK
  <2> QED
    BY <1>0, <1>5, <2>1, <2>2, <2>3, PartsRest DEF SuiteInv
<1>6. CASE part = "lifecycle"
  <2>1. /\ Lifecycle!Next
        /\ UNCHANGED <<now, quota, audit, abuse, keyring, retained, backup>>
    BY <1>6 DEF Next
  <2>2. LifecycleInv' /\ Lifecycle!AccountSteps /\ now' \in 0 .. MaxTime
    BY <2>1, LifecycleStep DEF SuiteInv
  <2> QED
    BY <1>0, <1>6, <2>1, <2>2, PartsRest DEF SuiteInv
<1>7. CASE part = "retention"
  <2>1. /\ Retained!Next
        /\ UNCHANGED <<quota, audit, abuse, keyring, lifecycle, backup>>
    BY <1>7 DEF Next
  <2>2. RetentionInv' /\ Retained!RetentionSteps
    BY <2>1, RetentionStep DEF SuiteInv
  <2>3. now' \in 0 .. MaxTime
    BY <2>2 DEF RetentionInv, Retained!TypeOK
  <2> QED
    BY <1>0, <1>7, <2>1, <2>2, <2>3, PartsRest DEF SuiteInv
<1>8. CASE part = "backup"
  <2>1. /\ Backup!Next
        /\ UNCHANGED <<now, quota, audit, abuse, keyring, lifecycle, retained>>
    BY <1>8 DEF Next
  <2>2. BackupInv' /\ now' \in 0 .. MaxTime
    BY <2>1, BackupStep DEF SuiteInv
  <2> QED
    BY <1>0, <1>8, <2>1, <2>2, PartsRest DEF SuiteInv
<1> QED
  BY <1>0, <1>1, <1>2, <1>3, <1>4, <1>5, <1>6, <1>7, <1>8 DEF Parts

LEMMA SuiteStutter == SuiteInv /\ UNCHANGED vars => SuiteInv'
<1> SUFFICES ASSUME SuiteInv, UNCHANGED vars PROVE SuiteInv'
  OBVIOUS
<1>1. /\ UNCHANGED <<part, now, delegation, quota, audit, abuse, keyring, lifecycle, retained, backup>>
      /\ now' \in 0 .. MaxTime
  BY DEF vars, delegated, SuiteInv
<1>2. part = "delegation" => GivenInv'
  BY <1>1 DEF SuiteInv, GivenInv
<1>3. part = "abuse" => AbuseInv'
  <2> SUFFICES ASSUME AbuseInv PROVE AbuseInv'
    BY DEF SuiteInv
  <2>1. UNCHANGED <<now, bucket, order, failure, lockedUntil, admitted, evicted, failedAt>>
    BY <1>1 DEF abuse
  <2>2. CountInv /\ CountInv' /\ now \in Nat /\ now' \in Nat /\ now <= now'
    BY <1>1, <2>1, PartsRest, Settings DEF SuiteInv
  <2>3. \A k \in Abuse!Keys : KeyInv(k)'
    BY <2>1, <2>2, LimiterRests DEF AbuseInv
  <2>4. ASSUME NEW s \in Subjects
        PROVE  FailureInv(s)'
    BY <2>1, <2>2, GuardRests DEF AbuseInv
  <2> QED
    BY <2>2, <2>3, <2>4 DEF AbuseInv
<1> QED
  BY <1>1, <1>2, <1>3, PartsRest DEF SuiteInv

LEMMA SuiteInvariant == Spec => []SuiteInv
<1>1. SuiteInv /\ [Next]_vars => SuiteInv'
  BY SuiteStep, SuiteStutter
<1> QED
  BY <1>1, SuiteInit, PTL DEF Spec

\* The variables of every book keep their types, in every part of the suite.
THEOREM TypeCorrect == Spec => []TypeOK
<1>1. SuiteInv => TypeOK
  BY GivenTyped DEF SuiteInv, TypeOK, QuotaInv, AuditInv, CountInv, KeyringInv, LifecycleInv, RetentionInv, BackupInv
<1> QED
  BY <1>1, SuiteInvariant, PTL

\* What was decided stands, whatever is called after it: no user undoes what a tenant master
\* forced on him (delegation.ts), a revoked credential stays with its user and its counter stands
\* still (webauthn.ts), a hold keeps an account and an item from a purge, and both stay purged
\* (account-lifecycle-wiring.ts, retention.ts).
THEOREM DecisionsCorrect == Spec => DecisionsStand
<1>1. SuiteInv /\ [Next]_vars =>
          [/\ part = "delegation" => Delegated!GrantSteps
           /\ part = "webauthn" => Keyring!CredentialSteps
           /\ part = "lifecycle" => Lifecycle!AccountSteps
           /\ part = "retention" => Retained!RetentionSteps]_vars
  BY SuiteStep
<1> QED
  BY <1>1, SuiteInvariant, PTL DEF Spec, DecisionsStand

\* Nobody is shown more than he was given: of what a user stored, one other user at a time, by
\* the word of somebody entitled to give it in the same tenant and no longer than that lasts, and
\* an administrator never (delegation.ts); of the one log of all tenants, the newest events of
\* the reader's own tenant or person (admin-tools.ts).
THEOREM ShownCorrect == Spec => []ShownOnlyWhatWasGiven
<1>1. SuiteInv => ShownOnlyWhatWasGiven
  BY OneOutsider, LogShows DEF SuiteInv, ShownOnlyWhatWasGiven
<1> QED
  BY <1>1, SuiteInvariant, PTL

\* The books agree with what happened: what users have in use with the reservations still open
\* (quota.ts), every span of a window's length with twice the limit and twice the threshold
\* (ops/abuse), a challenge and a counter with the one ceremony they served (webauthn.ts), what is
\* left of a purged account with what its user stored meanwhile (account-lifecycle-wiring.ts), and
\* an archive with the last call that had it for itself (filesystem-backup-adapter.ts).
THEOREM BooksCorrect == Spec => []BooksAgree
<1>1. SuiteInv => BooksAgree
  BY BooksHold, Limits DEF SuiteInv, BooksAgree, KeyringInv, LifecycleInv, BackupInv
<1> QED
  BY <1>1, SuiteInvariant, PTL
=============================================================================
