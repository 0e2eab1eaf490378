-------------------------- MODULE OperationsProofs --------------------------
(***************************************************************************)
(* Proofs about the operations suite.  Each proved part has an invariant of *)
(* its own and three lemmas about it: what it holds (Holds), that it holds  *)
(* initially (Initially), and that a step of the part keeps it (Step).  The *)
(* last section puts the parts together: a behaviour of the suite runs one  *)
(* part, so the suite's invariant is the invariant of the part that runs.   *)
(***************************************************************************)
EXTENDS Operations, FiniteSetTheorems, WellFoundedInduction, TLAPS

-----------------------------------------------------------------------------
(* Sequences and numbers, and sums over finite sets. *)

LEMMA Appended ==
    ASSUME NEW S, NEW s \in Seq(S), NEW x \in S
    PROVE  /\ Append(s, x) \in Seq(S) /\ Len(Append(s, x)) = Len(s) + 1
           /\ \A i \in 1 .. Len(s) : Append(s, x)[i] = s[i]
           /\ Append(s, x)[Len(s) + 1] = x
OBVIOUS

LEMMA MemberOf ==
    ASSUME NEW S, NEW s \in Seq(S), NEW i \in 1 .. Len(s)
    PROVE  s[i] \in S
OBVIOUS

LEMMA LeastOfAll ==
    ASSUME NEW S \in SUBSET Nat, S # {}
    PROVE  \E n \in S : \A m \in S : n <= m
<1> DEFINE Less == {ss \in Nat \X Nat : ss[1] < ss[2]}
<1>1. IsWellFoundedOn(Less, Nat)
  BY NatLessThanWellFounded DEF OpToRel
<1> HIDE DEF Less
<1>2. PICK n \in S : \A m \in S : <<m, n>> \notin Less
  BY <1>1, WFMin
<1>3. \A m \in S : n <= m
  <2>1. ASSUME NEW m \in S, m < n PROVE FALSE
    BY <1>2, <2>1 DEF Less
  <2> QED
    BY <2>1
<1> QED
  BY <1>3

LEMMA LeastNumber ==
    ASSUME NEW S \in SUBSET Nat, S # {}
    PROVE  (CHOOSE n \in S : \A m \in S : n <= m) \in S
BY LeastOfAll

\* Induction over the numbers, for a set of them.
LEMMA EveryNumber ==
    ASSUME NEW X \in SUBSET Nat,
           \A n \in Nat : (\A m \in Nat : m < n => m \in X) => n \in X
    PROVE  \A n \in Nat : n \in X
<1> DEFINE Less == {ss \in Nat \X Nat : ss[1] < ss[2]}
           Rest == Nat \ X
<1>1. IsWellFoundedOn(Less, Nat)
  BY NatLessThanWellFounded DEF OpToRel
<1> HIDE DEF Less
<1> SUFFICES ASSUME Rest # {} PROVE FALSE
  OBVIOUS
<1>2. PICK n \in Rest : \A m \in Rest : <<m, n>> \notin Less
  <2>1. Rest \in SUBSET Nat
    OBVIOUS
  <2> HIDE DEF Rest
  <2> QED
    BY <1>1, <2>1, WFMin
<1>3. ASSUME NEW m \in Nat, m < n PROVE m \in X
  BY <1>2, <1>3 DEF Less
<1> QED
  BY <1>2, <1>3

Pick(s) == CHOOSE x \in s : TRUE
Summed(f, s, it) == it[s] = IF s = {} THEN 0 ELSE f[Pick(s)] + it[s \ {Pick(s)}]
Sums(f, S, it) == it = [s \in SUBSET S |-> IF s = {} THEN 0 ELSE f[Pick(s)] + it[s \ {Pick(s)}]]
Total(f, S) == (CHOOSE it : Sums(f, S, it))[S]

\* Taking its first element from a finite set.
LEMMA Without ==
    ASSUME NEW S, IsFiniteSet(S), NEW x \in S
    PROVE  /\ IsFiniteSet(S \ {x}) /\ Cardinality(S) \in Nat \ {0}
           /\ Cardinality(S \ {x}) = Cardinality(S) - 1
BY FS_RemoveElement, FS_CardinalityType, FS_EmptySet

LEMMA SubsetsCount ==
    ASSUME NEW S, IsFiniteSet(S), NEW s \in SUBSET S
    PROVE  /\ IsFiniteSet(s) /\ Cardinality(s) \in Nat /\ Cardinality(s) <= Cardinality(S)
           /\ (Cardinality(s) = 0 <=> s = {})
           /\ s # {} => /\ Pick(s) \in s /\ s \ {Pick(s)} \in SUBSET S
                        /\ Cardinality(s \ {Pick(s)}) = Cardinality(s) - 1
<1>1. IsFiniteSet(s) /\ Cardinality(s) \in Nat /\ Cardinality(s) <= Cardinality(S)
  BY FS_Subset, FS_CardinalityType
<1>2. Cardinality(s) = 0 <=> s = {}
  BY <1>1, FS_EmptySet
<1>3. ASSUME s # {}
      PROVE  Pick(s) \in s
  BY <1>3 DEF Pick
<1>4. ASSUME s # {}
      PROVE  Cardinality(s \ {Pick(s)}) = Cardinality(s) - 1
  BY <1>1, <1>3, <1>4, Without
<1> QED
  BY <1>1, <1>2, <1>3, <1>4

LEMMA TotalExists ==
    ASSUME NEW f, NEW S, IsFiniteSet(S)
    PROVE  \E it : Sums(f, S, it)
<1> DEFINE P(n) == \E g : \A s \in SUBSET S : Cardinality(s) <= n => Summed(f, s, g)
           X == {n \in Nat : P(n)}
<1>1. ASSUME NEW n \in Nat, \A m \in Nat : m < n => m \in X
      PROVE  n \in X
  <2>1. CASE n = 0
    <3> DEFINE g == [s \in SUBSET S |-> 0]
    <3>1. ASSUME NEW s \in SUBSET S, Cardinality(s) <= n
          PROVE  Summed(f, s, g)
      <4>1. s = {}
        <5>1. Cardinality(s) \in Nat /\ (Cardinality(s) = 0 => s = {})
          BY SubsetsCount
        <5> QED
          BY <2>1, <3>1, <5>1
      <4> QED
        BY <4>1 DEF Summed
    <3> HIDE DEF g
    <3> QED
      BY <3>1
  <2>2. CASE n # 0
    <3>1. PICK g : \A s \in SUBSET S : Cardinality(s) <= n - 1 => Summed(f, s, g)
      <4>1. n - 1 \in Nat /\ n - 1 < n
        BY <2>2
      <4>2. n - 1 \in X
        BY <1>1, <4>1
      <4> QED
        BY <4>2
    <3> DEFINE h == [s \in SUBSET S |-> IF Cardinality(s) <= n - 1 THEN g[s]
                                        ELSE f[Pick(s)] + g[s \ {Pick(s)}]]
    <3>2. ASSUME NEW s \in SUBSET S, Cardinality(s) <= n
          PROVE  Summed(f, s, h)
      <4>1. CASE s = {}
        BY <2>2, <3>1, <4>1, FS_EmptySet DEF Summed
      <4>2. CASE s # {}
        <5>1. /\ s \ {Pick(s)} \in SUBSET S /\ Cardinality(s \ {Pick(s)}) <= n - 1
              /\ Cardinality(s) \in Nat
          <6>1. /\ s \ {Pick(s)} \in SUBSET S /\ Cardinality(s) \in Nat
                /\ Cardinality(s \ {Pick(s)}) = Cardinality(s) - 1
            BY <4>2, SubsetsCount
          <6> QED
            BY <3>2, <6>1
        <5>2. h[s \ {Pick(s)}] = g[s \ {Pick(s)}]
          BY <5>1
        <5>3. h[s] = f[Pick(s)] + g[s \ {Pick(s)}]
          BY <3>1, <4>2, <5>1 DEF Summed
        <5> QED
          BY <4>2, <5>2, <5>3 DEF Summed
      <4> QED
        BY <4>1, <4>2
    <3> HIDE DEF h
    <3> QED
      BY <3>2
  <2> QED
    BY <2>1, <2>2
<1>2. Cardinality(S) \in X
  <2> HIDE DEF X
  <2>1. X \in SUBSET Nat
    BY DEF X
  <2>2. \A n \in Nat : (\A m \in Nat : m < n => m \in X) => n \in X
    BY <1>1
  <2> QED
    BY <2>1, <2>2, EveryNumber, FS_CardinalityType
<1>3. PICK g : \A s \in SUBSET S : Cardinality(s) <= Cardinality(S) => Summed(f, s, g)
  BY <1>2
<1> DEFINE it == [s \in SUBSET S |-> g[s]]
<1>4. ASSUME NEW s \in SUBSET S
      PROVE  it[s] = IF s = {} THEN 0 ELSE f[Pick(s)] + it[s \ {Pick(s)}]
  BY <1>3, SubsetsCount DEF Summed
<1>5. it = [s \in SUBSET S |-> IF s = {} THEN 0 ELSE f[Pick(s)] + it[s \ {Pick(s)}]]
  <2>1. it = [s \in SUBSET S |-> it[s]]
    OBVIOUS
  <2> HIDE DEF it
  <2> QED
    BY <1>4, <2>1
<1> HIDE DEF it
<1> QED
  BY <1>5 DEF Sums

\* Whatever sums the subsets of a set one element at a time says the same of each of them.
LEMMA TotalUnique ==
    ASSUME NEW f, NEW g, NEW S, IsFiniteSet(S), \A x \in S : f[x] = g[x], NEW i, NEW j,
           \A s \in SUBSET S : Summed(f, s, i) /\ Summed(g, s, j)
    PROVE  i[S] = j[S]
<1> DEFINE X == {n \in Nat : \A s \in SUBSET S : Cardinality(s) = n => i[s] = j[s]}
<1>1. ASSUME NEW n \in Nat, \A m \in Nat : m < n => m \in X
      PROVE  n \in X
  <2>1. ASSUME NEW s \in SUBSET S, Cardinality(s) = n
        PROVE  i[s] = j[s]
    <3>1. CASE s = {}
      BY <3>1 DEF Summed
    <3>2. CASE s # {}
      <4>1. /\ Pick(s) \in S /\ s \ {Pick(s)} \in SUBSET S
            /\ Cardinality(s \ {Pick(s)}) \in Nat /\ Cardinality(s \ {Pick(s)}) < n
        BY <2>1, <3>2, SubsetsCount
      <4>2. i[s \ {Pick(s)}] = j[s \ {Pick(s)}]
        BY <1>1, <4>1
      <4> QED
        BY <3>2, <4>1, <4>2 DEF Summed
    <3> QED
      BY <3>1, <3>2
  <2> QED
    BY <2>1
<1>2. Cardinality(S) \in X
  <2>1. X \in SUBSET Nat
    OBVIOUS
  <2>2. \A n \in Nat : (\A m \in Nat : m < n => m \in X) => n \in X
    BY <1>1
  <2> HIDE DEF X
  <2> QED
    BY <2>1, <2>2, EveryNumber, FS_CardinalityType
<1> QED
  BY <1>2

LEMMA TotalSums ==
    ASSUME NEW f, NEW S, IsFiniteSet(S)
    PROVE  \E it : (\A s \in SUBSET S : Summed(f, s, it)) /\ Total(f, S) = it[S]
<1> DEFINE it == CHOOSE it : Sums(f, S, it)
<1>1. Sums(f, S, it)
  BY TotalExists
<1>2. Total(f, S) = it[S]
  BY DEF Total
<1> HIDE DEF it
<1>3. ASSUME NEW s \in SUBSET S
      PROVE  Summed(f, s, it)
  BY <1>1 DEF Sums, Summed
<1> QED
  BY <1>2, <1>3

LEMMA TotalSame ==
    ASSUME NEW f, NEW g, NEW S, IsFiniteSet(S), \A x \in S : f[x] = g[x]
    PROVE  Total(f, S) = Total(g, S)
<1>1. PICK i : (\A s \in SUBSET S : Summed(f, s, i)) /\ Total(f, S) = i[S]
  BY TotalSums
<1>2. PICK j : (\A s \in SUBSET S : Summed(g, s, j)) /\ Total(g, S) = j[S]
  BY TotalSums
<1> QED
  BY <1>1, <1>2, TotalUnique

\* The sum over a set is its first element's value and the sum over the rest.
LEMMA TotalFirst ==
    ASSUME NEW f, NEW S, IsFiniteSet(S)
    PROVE  Total(f, S) = IF S = {} THEN 0 ELSE f[Pick(S)] + Total(f, S \ {Pick(S)})
<1>1. PICK i : (\A s \in SUBSET S : Summed(f, s, i)) /\ Total(f, S) = i[S]
  BY TotalSums
<1>2. CASE S = {}
  BY <1>1, <1>2 DEF Summed
<1>3. CASE S # {}
  <2> DEFINE R == S \ {Pick(S)}
  <2>1. IsFiniteSet(R) /\ R \in SUBSET S
    BY <1>3, SubsetsCount, FS_Subset
  <2>2. PICK j : (\A s \in SUBSET R : Summed(f, s, j)) /\ Total(f, R) = j[R]
    <3> HIDE DEF R
    <3> QED
      BY <2>1, TotalSums
  <2>3. \A s \in SUBSET R : Summed(f, s, i)
    BY <1>1, <2>1
  <2>4. i[R] = j[R]
    <3> HIDE DEF R
    <3> QED
      BY <2>1, <2>2, <2>3, TotalUnique
  <2> QED
    BY <1>1, <1>3, <2>2, <2>4 DEF Summed
<1> QED
  BY <1>2, <1>3

LEMMA TotalType ==
    ASSUME NEW f, NEW S, IsFiniteSet(S), \A x \in S : f[x] \in Nat
    PROVE  Total(f, S) \in Nat
<1> DEFINE X == {n \in Nat : \A s \in SUBSET S : Cardinality(s) = n => Total(f, s) \in Nat}
<1>1. ASSUME NEW n \in Nat, \A m \in Nat : m < n => m \in X
      PROVE  n \in X
  <2>1. ASSUME NEW s \in SUBSET S, Cardinality(s) = n
        PROVE  Total(f, s) \in Nat
    <3>1. CASE s = {}
      <4>1. Total(f, {}) = 0
        BY TotalFirst, FS_EmptySet
      <4> QED
        BY <3>1, <4>1
    <3>2. CASE s # {}
      <4>1. /\ Pick(s) \in S /\ s \ {Pick(s)} \in SUBSET S /\ IsFiniteSet(s)
            /\ Cardinality(s \ {Pick(s)}) \in Nat /\ Cardinality(s \ {Pick(s)}) < n
        BY <2>1, <3>2, SubsetsCount
      <4>2. Total(f, s \ {Pick(s)}) \in Nat
        BY <1>1, <4>1
      <4>3. Total(f, s) = f[Pick(s)] + Total(f, s \ {Pick(s)})
        BY <3>2, <4>1, TotalFirst
      <4> QED
        BY <4>1, <4>2, <4>3
    <3> QED
      BY <3>1, <3>2
  <2> QED
    BY <2>1
<1>2. Cardinality(S) \in X
  <2>1. X \in SUBSET Nat
    OBVIOUS
  <2>2. \A n \in Nat : (\A m \in Nat : m < n => m \in X) => n \in X
    BY <1>1
  <2> HIDE DEF X
  <2> QED
    BY <2>1, <2>2, EveryNumber, FS_CardinalityType
<1> QED
  BY <1>2

\* ... and of any other of its elements and the rest.
LEMMA TotalWithout ==
    ASSUME NEW f, NEW S, IsFiniteSet(S), \A x \in S : f[x] \in Nat, NEW x \in S
    PROVE  Total(f, S) = f[x] + Total(f, S \ {x})
<1> DEFINE T(s, y) == Total(f, s) = f[y] + Total(f, s \ {y})
           X == {n \in Nat : \A s \in SUBSET S : Cardinality(s) = n => \A y \in s : T(s, y)}
<1>1. ASSUME NEW n \in Nat, \A m \in Nat : m < n => m \in X
      PROVE  n \in X
  <2>1. ASSUME NEW s \in SUBSET S, Cardinality(s) = n, NEW y \in s
        PROVE  Total(f, s) = f[y] + Total(f, s \ {y})
    <3> DEFINE p == Pick(s)
    <3>1. /\ p \in s /\ s \ {p} \in SUBSET S /\ IsFiniteSet(s)
          /\ Cardinality(s \ {p}) \in Nat /\ Cardinality(s \ {p}) < n
      <4>1. /\ s # {} /\ p \in s /\ s \ {p} \in SUBSET S /\ IsFiniteSet(s)
            /\ Cardinality(s \ {p}) = Cardinality(s) - 1 /\ Cardinality(s) \in Nat \ {0}
        BY <2>1, SubsetsCount
      <4> QED
        BY <2>1, <4>1
    <3>2. Total(f, s) = f[p] + Total(f, s \ {p})
      BY <3>1, TotalFirst
    <3> HIDE DEF p
    <3>3. CASE y = p
      BY <3>2, <3>3
    <3>4. CASE y # p
      <4>1. /\ s \ {y} \in SUBSET S /\ Cardinality(s \ {y}) \in Nat /\ Cardinality(s \ {y}) < n
        BY <2>1, <3>1, Without
      <4>2. Total(f, s \ {p}) = f[y] + Total(f, (s \ {p}) \ {y})
        BY <1>1, <3>1, <3>4
      <4>3. Total(f, s \ {y}) = f[p] + Total(f, (s \ {y}) \ {p})
        BY <1>1, <3>1, <3>4, <4>1
      <4>4. (s \ {y}) \ {p} = (s \ {p}) \ {y}
        OBVIOUS
      <4>5. f[p] \in Nat /\ f[y] \in Nat /\ Total(f, (s \ {p}) \ {y}) \in Nat
        BY <3>1, FS_Subset, TotalType
      <4> HIDE DEF T
      <4> QED
        BY <3>2, <4>2, <4>3, <4>4, <4>5
    <3> QED
      BY <3>3, <3>4
  <2> QED
    BY <2>1
<1>2. Cardinality(S) \in X
  <2>1. X \in SUBSET Nat
    OBVIOUS
  <2>2. \A n \in Nat : (\A m \in Nat : m < n => m \in X) => n \in X
    BY <1>1
  <2> HIDE DEF X
  <2> QED
    BY <2>1, <2>2, EveryNumber, FS_CardinalityType
<1> QED
  BY <1>2

LEMMA TotalZero ==
    ASSUME NEW f, NEW S, IsFiniteSet(S), \A x \in S : f[x] = 0
    PROVE  Total(f, S) = 0
<1> DEFINE X == {n \in Nat : \A s \in SUBSET S : Cardinality(s) = n => Total(f, s) = 0}
<1>1. ASSUME NEW n \in Nat, \A m \in Nat : m < n => m \in X
      PROVE  n \in X
  <2>1. ASSUME NEW s \in SUBSET S, Cardinality(s) = n
        PROVE  Total(f, s) = 0
    <3>1. CASE s = {}
      BY <3>1, TotalFirst, FS_EmptySet
    <3>2. CASE s # {}
      <4>1. /\ Pick(s) \in S /\ s \ {Pick(s)} \in SUBSET S /\ IsFiniteSet(s)
            /\ Cardinality(s \ {Pick(s)}) \in Nat /\ Cardinality(s \ {Pick(s)}) < n
        BY <2>1, <3>2, SubsetsCount
      <4>2. Total(f, s \ {Pick(s)}) = 0
        BY <1>1, <4>1
      <4>3. Total(f, s) = f[Pick(s)] + Total(f, s \ {Pick(s)})
        BY <3>2, <4>1, TotalFirst
      <4> QED
        BY <4>1, <4>2, <4>3
    <3> QED
      BY <3>1, <3>2
  <2> QED
    BY <2>1
<1>2. Cardinality(S) \in X
  <2>1. X \in SUBSET Nat
    OBVIOUS
  <2>2. \A n \in Nat : (\A m \in Nat : m < n => m \in X) => n \in X
    BY <1>1
  <2> HIDE DEF X
  <2> QED
    BY <2>1, <2>2, EveryNumber, FS_CardinalityType
<1> QED
  BY <1>2

LEMMA TotalChanged ==
    ASSUME NEW f, NEW g, NEW S, IsFiniteSet(S), \A y \in S : f[y] \in Nat /\ g[y] \in Nat, NEW x,
           \A y \in S \ {x} : f[y] = g[y]
    PROVE  /\ x \notin S => Total(g, S) = Total(f, S)
           /\ x \in S => Total(g, S) + f[x] = Total(f, S) + g[x]
<1>1. CASE x \notin S
  BY <1>1, TotalSame
<1>2. CASE x \in S
  <2>1. IsFiniteSet(S \ {x})
    BY FS_Subset
  <2>2. Total(f, S \ {x}) = Total(g, S \ {x}) /\ Total(f, S \ {x}) \in Nat
    BY <2>1, TotalSame, TotalType
  <2>3. Total(f, S) = f[x] + Total(f, S \ {x}) /\ Total(g, S) = g[x] + Total(g, S \ {x})
    BY <1>2, TotalWithout
  <2> QED
    BY <1>2, <2>2, <2>3
<1> QED
  BY <1>1, <1>2

\* The elements of a sequence that are in a set, as SelectSeq collects them one after the other.
PickedNext(q, P, F, i) == IF i = 0 THEN <<>> ELSE IF q[i] \in P THEN Append(F[i - 1], q[i]) ELSE F[i - 1]
Picked(q, P, F) == \A i \in 0 .. Len(q) : F[i] = PickedNext(q, P, F, i)

-----------------------------------------------------------------------------
(* The tenant store. *)

Gross == Postgres!Highest

LEMMA StoreRule ==
    /\ Gross \in Nat \ {0} /\ \A g \in GrossQuotas : g \in Nat \ {0} /\ g <= Gross
    /\ Postgres!NoRow = Gross + 1 /\ Postgres!None = 0 /\ Postgres!Amounts = 1 .. Gross
    /\ RetryAttempts \in Nat
    /\ NoClient \notin Clients /\ IsFiniteSet(Clients) /\ IsFiniteSet(Members)
<1>1. PICK most \in GrossQuotas : \A g \in GrossQuotas : g <= most
  BY OperationsAssumption
<1>2. Gross \in GrossQuotas /\ \A g \in GrossQuotas : g <= Gross
  BY <1>1 DEF Gross, Postgres!Highest
<1> QED
  BY <1>2, OperationsAssumption DEF Gross, Postgres!NoRow, Postgres!None, Postgres!Amounts

\* What the members use.
Weights == [m \in Members |-> IF allocation[m] = Postgres!NoRow THEN 0 ELSE allocation[m]]

LEMMA UsedTotal ==
    ASSUME NEW E
    PROVE  Postgres!Used(E) = Total(Weights, Members \ E)
<1> DEFINE S == Members \ E
           w(m) == IF allocation[m] = Postgres!NoRow THEN 0 ELSE allocation[m]
           It(g) == g = [s \in SUBSET S |-> IF s = {} THEN 0 ELSE w(Pick(s)) + g[s \ {Pick(s)}]]
           j == CHOOSE g : It(g)
<1>0. IsFiniteSet(S)
  BY StoreRule, FS_Subset
<1>1. PICK i : (\A s \in SUBSET S : Summed(Weights, s, i)) /\ Total(Weights, S) = i[S]
  BY <1>0, TotalSums
<1>a. \A s \in SUBSET S : s # {} => Weights[Pick(s)] = w(Pick(s))
  BY DEF Pick, Weights
<1>2. \E g : It(g)
  <2>1. PICK g : Sums(Weights, S, g)
    BY <1>0, TotalExists
  <2>3. g = [s \in SUBSET S |-> IF s = {} THEN 0 ELSE Weights[Pick(s)] + g[s \ {Pick(s)}]]
    BY <2>1 DEF Sums
  <2>4. It(g)
    BY <1>a, <2>3
  <2> QED
    BY <2>4
<1>3. It(j)
  BY <1>2
<1>4. Postgres!Used(E) = j[S]
  BY DEF Postgres!Used, Postgres!MapThenFoldSet, Pick
<1> HIDE DEF j
<1>5. \A s \in SUBSET S : Summed(Weights, s, j)
  BY <1>3, <1>a DEF Summed
<1>6. i[S] = j[S]
  <2>1. \A s \in SUBSET S : Summed(Weights, s, i) /\ Summed(Weights, s, j)
    BY <1>1, <1>5
  <2> HIDE DEF S
  <2> QED
    BY <1>0, <2>1, TotalUnique
<1> QED
  BY <1>1, <1>4, <1>6
StoreTypes ==
    /\ Postgres!TenantTypeOK
    /\ \A c \in Clients : call[c].operation = "bootstrap" => call[c].amount \in GrossQuotas

\* A step of c leaves the other calls, and what c was called for.
OwnCall(c) ==
    /\ call' \in [Clients -> Postgres!Calls]
    /\ \A d \in Clients \ {c} : call'[d] = call[d]
    /\ \A d \in Clients : /\ call'[d].operation = call[d].operation
                          /\ call'[d].member = call[d].member /\ call'[d].amount = call[d].amount

LEMMA ToCall ==
    ASSUME StoreTypes, NEW c \in Clients, NEW st \in Postgres!Stages, Postgres!To(c, st)
    PROVE  /\ OwnCall(c) /\ call'[c].stage = st /\ call'[c].row = call[c].row
           /\ call'[c].answer = call[c].answer
BY DEF Postgres!To, StoreTypes, Postgres!TenantTypeOK, Postgres!Calls, OwnCall

LEMMA AnswerCall ==
    ASSUME StoreTypes, NEW c \in Clients, NEW a \in {"ok", "error"}, call' = Postgres!Answer(c, a)
    PROVE  OwnCall(c) /\ call'[c].stage = "idle" /\ call'[c].answer = a
BY DEF Postgres!Answer, StoreTypes, Postgres!TenantTypeOK, Postgres!Calls, OwnCall, Postgres!Stages

LEMMA FailedCall ==
    ASSUME StoreTypes, NEW c \in Clients, Postgres!Failed(c)
    PROVE  /\ OwnCall(c) /\ call'[c].stage \in {"idle", "ready"}
           /\ call'[c].answer \in {call[c].answer, "error"}
           /\ lock' = (IF lock = c THEN NoClient ELSE lock) /\ lock' \in Clients \cup {NoClient}
<1>1. lock' = (IF lock = c THEN NoClient ELSE lock) /\ lock' \in Clients \cup {NoClient}
  BY DEF Postgres!Failed, StoreTypes, Postgres!TenantTypeOK
<1>2. CASE call[c].attempt = RetryAttempts
  BY <1>1, <1>2, AnswerCall DEF Postgres!Failed
<1>3. CASE call[c].attempt # RetryAttempts
  BY <1>1, <1>3, StoreRule DEF Postgres!Failed, StoreTypes, Postgres!TenantTypeOK, Postgres!Calls,
     Postgres!Stages, OwnCall
<1> QED
  BY <1>2, <1>3

\* Which action it was, and what became of the call.
StoreAction(c) ==
    \/ Postgres!Start(c) \/ Postgres!SecretResolved(c) \/ Postgres!Read(c)
    \/ Postgres!Check(c) \/ Postgres!Commit(c) \/ Postgres!Breaks(c)

LEMMA ReadCall ==
    ASSUME StoreTypes, NEW c \in Clients, Postgres!Read(c)
    PROVE  /\ OwnCall(c) /\ call'[c].stage = "writing" /\ call'[c].row = tenant
           /\ call'[c].answer = call[c].answer
           /\ call[c].stage = "reading" /\ lock = NoClient
           /\ lock' = (IF tenant = 0 THEN lock ELSE c)
           /\ UNCHANGED <<tenant, allocation, pools, pool, closed, overlapped>>
<1>1. call' = [call EXCEPT ![c].stage = "writing", ![c].row = tenant]
  BY DEF Postgres!Read
<1>2. OwnCall(c) /\ call'[c].stage = "writing" /\ call'[c].row = tenant /\ call'[c].answer = call[c].answer
  BY <1>1 DEF StoreTypes, Postgres!TenantTypeOK, Postgres!Calls, OwnCall, Postgres!Stages
<1> QED
  BY <1>2 DEF Postgres!Read, Postgres!Locks, Postgres!At, Postgres!None, Postgres!database,
              Postgres!poolVars

LEMMA StartCall ==
    ASSUME StoreTypes, NEW c \in Clients, Postgres!Start(c)
    PROVE  /\ OwnCall(c) /\ call[c].stage \in {"idle", "ready"}
           /\ UNCHANGED <<tenant, allocation, pools, pool, closed>>
           /\ \/ /\ closed /\ UNCHANGED overlapped /\ call'[c].stage \in {"idle", "ready"}
                 /\ lock' = (IF lock = c THEN NoClient ELSE lock)
                 /\ call'[c].answer \in {call[c].answer, "error"}
              \/ /\ ~closed /\ UNCHANGED lock /\ call'[c].row = call[c].row
                 /\ call'[c].stage = (IF pool = 0 THEN "resolving" ELSE "reading")
                 /\ call'[c].answer = call[c].answer
                 /\ overlapped' = (overlapped \/ (pool = 0 /\ \E d \in Clients : call[d].stage = "resolving"))
<1>1. call[c].stage \in {"idle", "ready"} /\ UNCHANGED <<tenant, allocation, pools, pool, closed>>
  BY DEF Postgres!Start, Postgres!At, Postgres!database, Postgres!poolVars
<1>2. CASE closed
  BY <1>1, <1>2, FailedCall DEF Postgres!Start, Postgres!poolVars
<1>3. CASE ~closed
  BY <1>1, <1>3, ToCall DEF Postgres!Start, Postgres!None, Postgres!At, Postgres!Stages
<1> QED
  BY <1>2, <1>3

LEMMA SecretCall ==
    ASSUME StoreTypes, NEW c \in Clients, Postgres!SecretResolved(c)
    PROVE  /\ OwnCall(c) /\ call[c].stage = "resolving" /\ call'[c].stage = "reading"
           /\ call'[c].answer = call[c].answer /\ call'[c].row = call[c].row
           /\ pools' = pools \cup {pool'} /\ (pools = {} => pool' # 0)
           /\ UNCHANGED <<tenant, allocation, lock, closed, overlapped>>
<1>1. Postgres!To(c, "reading") /\ "reading" \in Postgres!Stages
  BY DEF Postgres!SecretResolved, Postgres!Stages
<1> DEFINE P == 1 .. 2 * Postgres!Cardinality(Clients)
<1>2. ASSUME pools = {} PROVE (CHOOSE i \in P : i \notin pools) # 0
  <2>1. Postgres!Cardinality(Clients) = Cardinality(Clients)
    BY DEF Postgres!Cardinality, Cardinality
  <2>2. Cardinality(Clients) \in Nat \ {0}
    BY StoreRule, FS_EmptySet, FS_CardinalityType
  <2>3. 1 \in P /\ 1 \notin pools
    BY <1>2, <2>1, <2>2
  <2> QED
    BY <2>3
<1>3. /\ call[c].stage = "resolving" /\ pool' = (CHOOSE i \in P : i \notin pools)
      /\ pools' = pools \cup {pool'}
      /\ UNCHANGED <<tenant, allocation, lock, closed, overlapped>>
  BY DEF Postgres!SecretResolved, Postgres!At, Postgres!database
<1> QED
  BY <1>1, <1>2, <1>3, ToCall

LEMMA CheckCall ==
    ASSUME StoreTypes, NEW c \in Clients, Postgres!Check(c)
    PROVE  /\ OwnCall(c) /\ call[c].stage = "writing"
           /\ UNCHANGED <<tenant, allocation, pools, pool, closed, overlapped>>
           /\ \/ /\ call'[c].stage \in {"idle", "ready"} /\ lock' = (IF lock = c THEN NoClient ELSE lock)
                 /\ call'[c].answer \in {call[c].answer, "error"}
              \/ /\ ~Postgres!Refused(c) /\ call'[c].stage = "committing" /\ UNCHANGED lock
                 /\ call'[c].answer = call[c].answer /\ call'[c].row = call[c].row
<1>1. call[c].stage = "writing" /\ UNCHANGED <<tenant, allocation, pools, pool, closed, overlapped>>
  BY DEF Postgres!Check, Postgres!At, Postgres!database, Postgres!poolVars
<1>2. CASE Postgres!Refused(c)
  BY <1>1, <1>2, FailedCall DEF Postgres!Check
<1>3. CASE ~Postgres!Refused(c)
  BY <1>1, <1>3, ToCall DEF Postgres!Check, Postgres!Stages
<1> QED
  BY <1>2, <1>3

LEMMA BreaksCall ==
    ASSUME StoreTypes, NEW c \in Clients, Postgres!Breaks(c)
    PROVE  /\ OwnCall(c) /\ call'[c].stage \in {"idle", "ready"}
           /\ call'[c].answer \in {call[c].answer, "error"}
           /\ lock' = (IF lock = c THEN NoClient ELSE lock)
           /\ UNCHANGED <<tenant, allocation, pools, pool, closed, overlapped>>
BY FailedCall DEF Postgres!Breaks, Postgres!database, Postgres!poolVars

LEMMA CommitCall ==
    ASSUME StoreTypes, NEW c \in Clients, Postgres!Commit(c)
    PROVE  /\ OwnCall(c) /\ call[c].stage = "committing" /\ lock \in {c, NoClient}
           /\ lock' = NoClient /\ call'[c].stage \in {"idle", "ready"}
           /\ UNCHANGED <<pools, pool, closed, overlapped>>
           /\ \/ UNCHANGED <<tenant, allocation>> /\ call'[c].answer \in {call[c].answer, "error"}
              \/ /\ ~Postgres!Duplicate(c) /\ Postgres!Written(c)
                 /\ call'[c].answer \in {call[c].answer, "error", "ok"}
<1>1. call[c].stage = "committing" /\ lock \in {c, NoClient} /\ UNCHANGED <<pools, pool, closed, overlapped>>
  BY DEF Postgres!Commit, Postgres!At, Postgres!poolVars
<1>2. CASE Postgres!Duplicate(c)
  BY <1>1, <1>2, FailedCall DEF Postgres!Commit, Postgres!database
<1>3. CASE ~Postgres!Duplicate(c)
  BY <1>1, <1>3, FailedCall, AnswerCall DEF Postgres!Commit
<1> QED
  BY <1>2, <1>3
\* A transaction that has read the row of the tenant.
ReadsRow(c) == call[c].stage \in {"writing", "committing"} /\ call[c].row # 0

\* What the statements read allows the call, with the sums of the lemmas.
Allowed(c) ==
    LET row == call[c].row
        member == call[c].member
    IN  CASE call[c].operation = "bootstrap" -> row \in {0, call[c].amount}
          [] call[c].operation = "create" -> row # 0 /\ Total(Weights, Members) + call[c].amount <= row
          [] call[c].operation = "allocate" ->
                /\ row # 0 /\ allocation[member] # Postgres!NoRow
                /\ Total(Weights, Members \ {member}) + call[c].amount <= row

\* What the tenant's row and its users' say together, and what a transaction may rely on.
StoreRows ==
    /\ tenant = 0 => \A m \in Members : allocation[m] = Postgres!NoRow
    /\ tenant # 0 => Total(Weights, Members) <= tenant
    /\ \A c \in Clients : ReadsRow(c) => lock = c /\ call[c].row = tenant
    /\ \A c \in Clients : call[c].stage = "committing" =>
           /\ Allowed(c)
           /\ call[c].row = 0 => call[c].operation = "bootstrap"
    /\ \A c \in Clients : call[c].answer = "ok" =>
           IF call[c].operation = "bootstrap" THEN tenant = call[c].amount
           ELSE allocation[call[c].member] # Postgres!NoRow

\* One call at a time asks for the secret, or `overlapped` says so.
StorePools ==
    ~overlapped =>
        /\ pools \subseteq {pool} /\ (pool = 0 => pools = {})
        /\ \A c \in Clients : call[c].stage = "resolving" =>
               ~closed /\ pool = 0 /\ \A d \in Clients : call[d].stage = "resolving" => d = c

StoreInv == StoreTypes /\ StoreRows /\ StorePools

LEMMA StoreTypesStep ==
    ASSUME StoreTypes, [Postgres!TenantNext]_tenants
    PROVE  StoreTypes'
<1>1. /\ tenant \in GrossQuotas \cup {0} /\ allocation \in [Members -> Postgres!Amounts \cup {Postgres!NoRow}]
      /\ lock \in Clients \cup {NoClient} /\ call \in [Clients -> Postgres!Calls]
      /\ closed \in BOOLEAN /\ overlapped \in BOOLEAN
      /\ \A c \in Clients : call[c].operation = "bootstrap" => call[c].amount \in GrossQuotas
  BY DEF StoreTypes, Postgres!TenantTypeOK, Postgres!None
<1>2. CASE UNCHANGED tenants
  BY <1>1, <1>2 DEF tenants, StoreTypes, Postgres!TenantTypeOK, Postgres!None
<1>3. CASE Postgres!Close
  BY <1>1, <1>3 DEF Postgres!Close, Postgres!database, StoreTypes, Postgres!TenantTypeOK, Postgres!None
<1>4. ASSUME NEW c \in Clients, StoreAction(c) PROVE StoreTypes'
  <2>1. OwnCall(c) => /\ call' \in [Clients -> Postgres!Calls]
                      /\ \A d \in Clients : call'[d].operation = "bootstrap" => call'[d].amount \in GrossQuotas
    BY <1>1 DEF OwnCall
  <2>2. CASE Postgres!Start(c)
    BY <1>1, <2>1, <2>2, StartCall DEF StoreTypes, Postgres!TenantTypeOK, Postgres!None
  <2>3. CASE Postgres!SecretResolved(c)
    BY <1>1, <2>1, <2>3, SecretCall DEF StoreTypes, Postgres!TenantTypeOK, Postgres!None
  <2>4. CASE Postgres!Read(c)
    BY <1>1, <2>1, <2>4, ReadCall DEF StoreTypes, Postgres!TenantTypeOK, Postgres!None
  <2>5. CASE Postgres!Check(c)
    BY <1>1, <2>1, <2>5, CheckCall DEF StoreTypes, Postgres!TenantTypeOK, Postgres!None
  <2>6. CASE Postgres!Commit(c)
    BY <1>1, <2>1, <2>6, CommitCall DEF Postgres!Written, Postgres!Calls, StoreTypes, Postgres!TenantTypeOK,
       Postgres!None
  <2>7. CASE Postgres!Breaks(c)
    BY <1>1, <2>1, <2>7, BreaksCall DEF StoreTypes, Postgres!TenantTypeOK, Postgres!None
  <2> QED
    BY <1>4, <2>2, <2>3, <2>4, <2>5, <2>6, <2>7 DEF StoreAction
<1> QED
  BY <1>2, <1>3, <1>4 DEF Postgres!TenantNext, StoreAction
LEMMA StoreNumbers ==
    ASSUME StoreTypes
    PROVE  /\ \A m \in Members : allocation[m] \in Nat /\ Weights[m] \in Nat
           /\ \A c \in Clients : /\ call[c].amount \in Nat /\ call[c].row \in Nat /\ call[c].member \in Members
                                 /\ call[c].operation \in {"bootstrap", "create", "allocate"}
                                 /\ call[c].amount # 0 /\ call[c].amount <= Gross
           /\ Total(Weights, Members) \in Nat
           /\ \A m \in Members : Total(Weights, Members \ {m}) \in Nat
<1>1. /\ \A m \in Members : allocation[m] \in Nat
      /\ \A c \in Clients : /\ call[c].amount \in Nat /\ call[c].row \in Nat /\ call[c].member \in Members
                            /\ call[c].operation \in {"bootstrap", "create", "allocate"}
                            /\ call[c].amount # 0 /\ call[c].amount <= Gross
  <2> HIDE DEF Gross
  <2> QED
    BY StoreRule DEF StoreTypes, Postgres!TenantTypeOK, Postgres!Calls, Postgres!Operations
<1>2. \A m \in Members : Weights[m] \in Nat
  BY <1>1 DEF Weights
<1>3. \A S \in SUBSET Members : Total(Weights, S) \in Nat
  BY <1>2, StoreRule, FS_Subset, TotalType
<1>4. \A m \in Members : Members \ {m} \in SUBSET Members
  OBVIOUS
<1> QED
  BY <1>1, <1>2, <1>3, <1>4

LEMMA AllowedRule ==
    ASSUME StoreTypes, NEW c \in Clients
    PROVE  Postgres!Refused(c) <=> ~Allowed(c)
<1> DEFINE m == call[c].member
<1>1. Postgres!Used({}) = Total(Weights, Members \ {}) /\ Postgres!Used({m}) = Total(Weights, Members \ {m})
  BY UsedTotal
<1>2. Members \ {} = Members
  OBVIOUS
<1>3. /\ call[c].operation \in {"bootstrap", "create", "allocate"} /\ call[c].amount \in Nat /\ call[c].row \in Nat
      /\ Total(Weights, Members) \in Nat /\ Total(Weights, Members \ {m}) \in Nat
  BY StoreNumbers
<1>4. CASE call[c].operation = "bootstrap"
  BY <1>4 DEF Postgres!Refused, Allowed, Postgres!None
<1>5. CASE call[c].operation = "create"
  BY <1>1, <1>2, <1>3, <1>5 DEF Postgres!Refused, Allowed, Postgres!None
<1>6. CASE call[c].operation = "allocate"
  BY <1>1, <1>3, <1>6 DEF Postgres!Refused, Allowed, Postgres!None
<1> QED
  BY <1>3, <1>4, <1>5, <1>6

\* A step of c that writes nothing and takes nobody's lock away.
LEMMA RowsKept ==
    ASSUME StoreTypes, StoreRows, NEW c \in Clients, OwnCall(c), UNCHANGED <<tenant, allocation>>,
           lock # c => lock' \in {lock, c},
           ReadsRow(c)' => lock' = c /\ call'[c].row = tenant /\ lock \in {c, NoClient},
           lock' = c => lock \in {c, NoClient},
           call'[c].stage = "committing" =>
               /\ call[c].stage # "committing" => Allowed(c)
               /\ call'[c].row = call[c].row
               /\ call'[c].row = 0 => call'[c].operation = "bootstrap",
           call'[c].answer = "ok" => call[c].answer = "ok"
    PROVE  StoreRows'
<1>1. /\ tenant' = tenant /\ allocation' = allocation /\ Weights' = Weights
      /\ \A d \in Clients \ {c} : call'[d] = call[d]
      /\ \A d \in Clients : /\ call'[d].operation = call[d].operation
                            /\ call'[d].member = call[d].member /\ call'[d].amount = call[d].amount
  BY DEF OwnCall, Weights
<1>2. \A d \in Clients : ReadsRow(d)' => lock' = d /\ call'[d].row = tenant'
  <2> SUFFICES ASSUME NEW d \in Clients, d # c, ReadsRow(d)' PROVE lock' = d /\ call'[d].row = tenant'
    BY <1>1
  <2>1. ReadsRow(d) /\ lock = d /\ call[d].row = tenant
    BY <1>1 DEF ReadsRow, StoreRows
  <2>2. NoClient # d
    BY StoreRule
  <2> QED
    BY <1>1, <2>1, <2>2
<1>3. \A d \in Clients : call'[d].row = call[d].row => (Allowed(d) <=> Allowed(d)')
  BY <1>1 DEF Allowed
<1>4. \A d \in Clients : call'[d].stage = "committing" =>
          Allowed(d)' /\ (call'[d].row = 0 => call'[d].operation = "bootstrap")
  <2> SUFFICES ASSUME NEW d \in Clients, call'[d].stage = "committing"
               PROVE  Allowed(d)' /\ (call'[d].row = 0 => call'[d].operation = "bootstrap")
    OBVIOUS
  <2>1. CASE d = c
    BY <1>3, <2>1 DEF StoreRows
  <2>2. CASE d # c
    BY <1>1, <1>3, <2>2 DEF StoreRows
  <2> QED
    BY <2>1, <2>2
<1>5. \A d \in Clients : call'[d].answer = "ok" =>
          IF call'[d].operation = "bootstrap" THEN tenant' = call'[d].amount
          ELSE allocation'[call'[d].member] # Postgres!NoRow
  BY <1>1 DEF StoreRows
<1> QED
  BY <1>1, <1>2, <1>4, <1>5 DEF StoreRows

LEMMA StoreRowsStep ==
    ASSUME StoreTypes, StoreRows, NEW c \in Clients, StoreAction(c), ~Postgres!Commit(c)
    PROVE  StoreRows' /\ UNCHANGED <<tenant, allocation>>
<1>0. lock \in Clients \cup {NoClient} /\ NoClient \notin Clients
  BY StoreRule DEF StoreTypes, Postgres!TenantTypeOK
<1>1. CASE Postgres!Start(c)
  BY <1>0, <1>1, StartCall, RowsKept DEF ReadsRow
<1>2. CASE Postgres!SecretResolved(c)
  BY <1>0, <1>2, SecretCall, RowsKept DEF ReadsRow
<1>3. CASE Postgres!Read(c)
  BY <1>0, <1>3, ReadCall, RowsKept DEF ReadsRow
<1>4. CASE Postgres!Check(c)
  <2>1. /\ OwnCall(c) /\ UNCHANGED <<tenant, allocation>> /\ call[c].stage = "writing"
        /\ call'[c].answer = "ok" => call[c].answer = "ok"
    BY <1>4, CheckCall
  <2>2. CASE call'[c].stage = "committing"
    <3>1. ~Postgres!Refused(c) /\ UNCHANGED lock /\ call'[c].row = call[c].row
      BY <1>4, <2>2, CheckCall
    <3>2. Allowed(c)
      BY <3>1, AllowedRule
    <3>3. call[c].row = 0 => call'[c].operation = "bootstrap"
      BY <2>1, <3>2, StoreNumbers DEF OwnCall, Allowed
    <3>4. ReadsRow(c)' => ReadsRow(c)
      BY <2>1, <3>1 DEF ReadsRow
    <3>5. ReadsRow(c)' => lock' = c /\ call'[c].row = tenant /\ lock \in {c, NoClient}
      BY <3>1, <3>4 DEF StoreRows
    <3> QED
      BY <1>0, <2>1, <3>1, <3>2, <3>3, <3>5, RowsKept
  <2>3. CASE call'[c].stage # "committing"
    BY <1>0, <1>4, <2>1, <2>3, CheckCall, RowsKept DEF ReadsRow
  <2> QED
    BY <2>2, <2>3
<1>5. CASE Postgres!Breaks(c)
  BY <1>0, <1>5, BreaksCall, RowsKept DEF ReadsRow
<1> QED
  BY <1>1, <1>2, <1>3, <1>4, <1>5 DEF StoreAction
LEMMA WeightsChanged ==
    ASSUME StoreTypes, NEW m \in Members, NEW n \in Postgres!Amounts,
           allocation' = [allocation EXCEPT ![m] = n]
    PROVE  /\ Total(Weights', Members) = n + Total(Weights, Members \ {m})
           /\ Total(Weights, Members) = Weights[m] + Total(Weights, Members \ {m})
           /\ n # Postgres!NoRow /\ n \in Nat /\ allocation'[m] = n
<1>1. n \in Nat /\ n # Postgres!NoRow
  <2>1. Gross \in Nat /\ Postgres!NoRow = Gross + 1 /\ n \in 1 .. Gross
    BY StoreRule
  <2> HIDE DEF Gross
  <2> QED
    BY <2>1
<1>2. allocation'[m] = n /\ \A y \in Members \ {m} : allocation'[y] = allocation[y]
  BY DEF StoreTypes, Postgres!TenantTypeOK
<1>3. Weights'[m] = n /\ \A y \in Members \ {m} : Weights'[y] = Weights[y]
  BY <1>1, <1>2 DEF Weights
<1>4. \A y \in Members : Weights[y] \in Nat /\ Weights'[y] \in Nat
  BY <1>1, <1>3, StoreNumbers
<1>5. IsFiniteSet(Members) /\ IsFiniteSet(Members \ {m})
  BY StoreRule, FS_Subset
<1>6. Total(Weights, Members) = Weights[m] + Total(Weights, Members \ {m})
  BY <1>4, <1>5, TotalWithout
<1>7. Total(Weights', Members) = Weights'[m] + Total(Weights', Members \ {m})
  BY <1>4, <1>5, TotalWithout
<1>8. Total(Weights', Members \ {m}) = Total(Weights, Members \ {m})
  BY <1>3, <1>5, TotalSame
<1> QED
  BY <1>1, <1>2, <1>3, <1>6, <1>7, <1>8

\* With every member without a row, nothing is used.
LEMMA NothingUsed ==
    ASSUME StoreTypes, \A m \in Members : allocation[m] = Postgres!NoRow
    PROVE  Total(Weights, Members) = 0
BY StoreRule, TotalZero DEF Weights

\* What a commit writes: the quota held before and holds after it.
LEMMA WrittenRows ==
    ASSUME StoreTypes, StoreTypes', StoreRows, NEW c \in Clients, call[c].stage = "committing",
           ~Postgres!Duplicate(c), Postgres!Written(c)
    PROVE  /\ tenant' # 0 /\ (tenant # 0 => tenant' = tenant)
           /\ Total(Weights', Members) <= tenant'
           /\ \A m \in Members : allocation[m] # Postgres!NoRow => allocation'[m] # Postgres!NoRow
           /\ call[c].operation = "bootstrap" => tenant' = call[c].amount
           /\ call[c].operation # "bootstrap" => allocation'[call[c].member] # Postgres!NoRow
<1> DEFINE m == call[c].member
           n == call[c].amount
<1>1. /\ n \in Nat /\ n # 0 /\ n \in Postgres!Amounts /\ m \in Members /\ call[c].row \in Nat
      /\ call[c].operation \in {"bootstrap", "create", "allocate"}
      /\ tenant \in Nat
  <2>1. tenant \in GrossQuotas \cup {0} /\ call[c] \in Postgres!Calls
    BY DEF StoreTypes, Postgres!TenantTypeOK, Postgres!None
  <2>2. n \in Postgres!Amounts /\ tenant \in Nat
    BY <2>1, StoreRule DEF Postgres!Calls
  <2> QED
    BY <2>2, StoreNumbers
<1>2. Allowed(c) /\ (call[c].row = 0 => call[c].operation = "bootstrap")
  BY DEF StoreRows
<1>3. call[c].row # 0 => call[c].row = tenant
  BY DEF StoreRows, ReadsRow
<1>4. CASE call[c].operation = "bootstrap"
  <2>1. tenant' = n /\ allocation' = allocation /\ Weights' = Weights
    BY <1>4 DEF Postgres!Written, Weights
  <2>2. call[c].row = 0 \/ call[c].row = n
    BY <1>2, <1>4 DEF Allowed
  <2>3. tenant # 0 => tenant = n
    BY <1>3, <1>4, <2>2 DEF Postgres!Duplicate, Postgres!None
  <2>4. Total(Weights, Members) <= n
    <3>1. CASE tenant = 0
      BY <1>1, <3>1, NothingUsed DEF StoreRows
    <3>2. CASE tenant # 0
      BY <2>3, <3>2 DEF StoreRows
    <3> QED
      BY <3>1, <3>2
  <2> QED
    BY <1>1, <1>4, <2>1, <2>3, <2>4
<1>5. CASE call[c].operation # "bootstrap"
  <2>1. tenant' = tenant /\ allocation' = [allocation EXCEPT ![m] = n]
    BY <1>5 DEF Postgres!Written
  <2>2. tenant # 0 /\ call[c].row = tenant
    BY <1>2, <1>3, <1>5
  <2>3. /\ Total(Weights', Members) = n + Total(Weights, Members \ {m})
        /\ Total(Weights, Members) = Weights[m] + Total(Weights, Members \ {m})
        /\ n # Postgres!NoRow /\ allocation'[m] = n
    BY <1>1, <2>1, WeightsChanged
  <2>4. /\ Total(Weights, Members) \in Nat /\ Total(Weights, Members \ {m}) \in Nat /\ Weights[m] \in Nat
    BY <1>1, StoreNumbers
  <2>5. Total(Weights, Members \ {m}) + n <= tenant
    <3>1. CASE call[c].operation = "create"
      <4>1. Total(Weights, Members) + n <= tenant
        BY <1>2, <2>2, <3>1 DEF Allowed
      <4> HIDE DEF m, n
      <4> QED
        BY <1>1, <2>3, <2>4, <4>1
    <3>2. CASE call[c].operation = "allocate"
      BY <1>2, <2>2, <3>2 DEF Allowed
    <3> QED
      BY <1>1, <1>5, <3>1, <3>2
  <2>6. Total(Weights', Members) <= tenant'
    <3> HIDE DEF m, n
    <3> QED
      BY <1>1, <2>1, <2>3, <2>4, <2>5
  <2>7. \A x \in Members : allocation[x] # Postgres!NoRow => allocation'[x] # Postgres!NoRow
    BY <2>1, <2>3 DEF StoreTypes, Postgres!TenantTypeOK
  <2> QED
    BY <1>5, <2>1, <2>2, <2>3, <2>6, <2>7
<1> QED
  BY <1>4, <1>5

LEMMA CommitRows ==
    ASSUME StoreTypes, StoreTypes', StoreRows, NEW c \in Clients, Postgres!Commit(c)
    PROVE  /\ StoreRows' /\ (tenant # 0 => tenant' = tenant)
           /\ \A m \in Members : allocation[m] # Postgres!NoRow => allocation'[m] # Postgres!NoRow
<1>1. /\ OwnCall(c) /\ call[c].stage = "committing" /\ lock \in {c, NoClient}
      /\ lock' = NoClient /\ call'[c].stage \in {"idle", "ready"}
      /\ NoClient \notin Clients
  BY CommitCall, StoreRule
<1>2. ~ReadsRow(c)'
  BY <1>1 DEF ReadsRow
<1>3. CASE UNCHANGED <<tenant, allocation>> /\ call'[c].answer \in {call[c].answer, "error"}
  BY <1>1, <1>2, <1>3, RowsKept
<1>4. CASE ~Postgres!Duplicate(c) /\ Postgres!Written(c)
  <2>1. /\ tenant' # 0 /\ (tenant # 0 => tenant' = tenant)
        /\ Total(Weights', Members) <= tenant'
        /\ \A m \in Members : allocation[m] # Postgres!NoRow => allocation'[m] # Postgres!NoRow
        /\ call[c].operation = "bootstrap" => tenant' = call[c].amount
        /\ call[c].operation # "bootstrap" => allocation'[call[c].member] # Postgres!NoRow
    BY <1>1, <1>4, WrittenRows
  <2>2. \A d \in Clients \ {c} : /\ call'[d] = call[d] /\ ~ReadsRow(d) /\ ~ReadsRow(d)'
    BY <1>1 DEF OwnCall, StoreRows, ReadsRow
  <2>3. \A d \in Clients : call'[d].stage = "committing" =>
            Allowed(d)' /\ (call'[d].row = 0 => call'[d].operation = "bootstrap")
    <3> SUFFICES ASSUME NEW d \in Clients, call'[d].stage = "committing"
                 PROVE  Allowed(d)' /\ call'[d].operation = "bootstrap"
      OBVIOUS
    <3>1. d # c /\ call'[d] = call[d] /\ call[d].row = 0
      BY <1>1, <2>2 DEF ReadsRow
    <3>2. call[d].operation = "bootstrap"
      BY <3>1 DEF StoreRows
    <3> QED
      BY <3>1, <3>2 DEF Allowed
  <2>4. \A d \in Clients : call'[d].answer = "ok" =>
            IF call'[d].operation = "bootstrap" THEN tenant' = call'[d].amount
            ELSE allocation'[call'[d].member] # Postgres!NoRow
    <3> SUFFICES ASSUME NEW d \in Clients, call'[d].answer = "ok"
                 PROVE  IF call'[d].operation = "bootstrap" THEN tenant' = call'[d].amount
                        ELSE allocation'[call'[d].member] # Postgres!NoRow
      OBVIOUS
    <3>1. CASE d = c
      BY <1>1, <2>1, <3>1 DEF OwnCall
    <3>2. CASE d # c
      BY <2>1, <2>2, <3>2, StoreNumbers DEF StoreRows
    <3> QED
      BY <3>1, <3>2
  <2>5. \A d \in Clients : ~ReadsRow(d)'
    BY <1>2, <2>2
  <2> QED
    BY <2>1, <2>3, <2>4, <2>5 DEF StoreRows
<1> QED
  BY <1>3, <1>4, CommitCall

LEMMA StorePoolsStep ==
    ASSUME StoreTypes, StorePools, Postgres!TenantNext
    PROVE  StorePools'
<1>1. CASE Postgres!Close
  BY <1>1 DEF Postgres!Close, Postgres!At, Postgres!database, Postgres!None, StorePools
<1>2. ASSUME NEW c \in Clients, StoreAction(c) PROVE StorePools'
  <2>1. OwnCall(c) => \A d \in Clients \ {c} : call'[d] = call[d]
    BY DEF OwnCall
  <2>2. CASE Postgres!Start(c)
    <3>1. /\ OwnCall(c) /\ pools' = pools /\ pool' = pool /\ closed' = closed
          /\ \A d \in Clients \ {c} : call'[d] = call[d]
      BY <2>1, <2>2, StartCall
    <3>2. CASE overlapped' = overlapped /\ call'[c].stage # "resolving"
      BY <3>1, <3>2 DEF StorePools
    <3>3. CASE ~closed /\ pool = 0 /\ overlapped' = (overlapped \/ \E d \in Clients : call[d].stage = "resolving")
      BY <3>1, <3>3 DEF StorePools
    <3>4. CASE ~closed /\ pool # 0 /\ call'[c].stage = "reading" /\ overlapped' = overlapped
      BY <3>2, <3>4
    <3>5. \/ overlapped' = overlapped /\ call'[c].stage # "resolving"
          \/ ~closed /\ pool = 0 /\ overlapped' = (overlapped \/ \E d \in Clients : call[d].stage = "resolving")
          \/ ~closed /\ pool # 0 /\ call'[c].stage = "reading" /\ overlapped' = overlapped
      BY <2>2, StoreTypesStep, StartCall DEF StoreTypes, Postgres!TenantTypeOK, Postgres!TenantNext
    <3> QED
      BY <3>2, <3>3, <3>4, <3>5
  <2>3. CASE Postgres!SecretResolved(c)
    BY <2>1, <2>3, SecretCall DEF StorePools
  <2>4. CASE Postgres!Read(c)
    BY <2>1, <2>4, ReadCall DEF StorePools
  <2>5. CASE Postgres!Check(c)
    BY <2>1, <2>5, CheckCall DEF StorePools
  <2>6. CASE Postgres!Commit(c)
    BY <2>1, <2>6, CommitCall DEF StorePools
  <2>7. CASE Postgres!Breaks(c)
    BY <2>1, <2>7, BreaksCall DEF StorePools
  <2> QED
    BY <1>2, <2>2, <2>3, <2>4, <2>5, <2>6, <2>7 DEF StoreAction
<1> QED
  BY <1>1, <1>2 DEF Postgres!TenantNext, StoreAction

LEMMA StoreStep ==
    ASSUME StoreInv, [Postgres!TenantNext]_tenants
    PROVE  StoreInv' /\ Postgres!TenantSteps
<1>1. StoreTypes'
  BY StoreTypesStep DEF StoreInv
<1>2. CASE UNCHANGED <<tenants>>
  BY <1>1, <1>2 DEF tenants, Weights, Allowed, StoreInv, StoreRows, ReadsRow, StorePools, Postgres!TenantSteps
<1>3. CASE Postgres!Close
  BY <1>1, <1>3, StorePoolsStep DEF Postgres!Close, Postgres!database, Weights, Allowed, StoreInv, StoreRows,
     ReadsRow, Postgres!TenantNext, Postgres!TenantSteps
<1>4. ASSUME NEW c \in Clients, StoreAction(c) PROVE StoreInv' /\ Postgres!TenantSteps
  <2>1. Postgres!TenantNext
    BY <1>4 DEF StoreAction, Postgres!TenantNext
  <2>2. StorePools'
    BY <2>1, StorePoolsStep DEF StoreInv
  <2>3. /\ StoreRows' /\ (tenant # 0 => tenant' = tenant)
        /\ \A m \in Members : allocation[m] # Postgres!NoRow => allocation'[m] # Postgres!NoRow
    <3>1. CASE Postgres!Commit(c)
      BY <1>1, <3>1, CommitRows DEF StoreInv
    <3>2. CASE ~Postgres!Commit(c)
      BY <1>4, <3>2, StoreRowsStep DEF StoreInv
    <3> QED
      BY <3>1, <3>2
  <2> QED
    BY <1>1, <2>2, <2>3 DEF StoreInv, Postgres!TenantSteps, Postgres!None
<1> QED
  BY <1>2, <1>3, <1>4 DEF Postgres!TenantNext, StoreAction, tenants

LEMMA StoreHolds ==
    ASSUME StoreInv
    PROVE  Postgres!TenantTypeOK /\ Postgres!QuotaHeldThroughRetries
BY UsedTotal DEF StoreInv, StoreTypes, StoreRows, StorePools, Postgres!QuotaHeldThroughRetries, Postgres!None

LEMMA StoreInit ==
    ASSUME Postgres!TenantInit
    PROVE  StoreInv
<1>1. StoreTypes
  <2>1. call \in [Clients -> Postgres!Calls]
    BY StoreRule DEF Postgres!TenantInit, Postgres!Calls, Postgres!Stages, Postgres!None
  <2>2. allocation \in [Members -> Postgres!Amounts \cup {Postgres!NoRow}]
    BY DEF Postgres!TenantInit
  <2>3. \A c \in Clients : call[c].operation = "bootstrap" => call[c].amount \in GrossQuotas
    BY DEF Postgres!TenantInit
  <2> QED
    BY <2>1, <2>2, <2>3 DEF Postgres!TenantInit, StoreTypes, Postgres!TenantTypeOK
<1>2. StoreRows
  BY <1>1, NothingUsed, StoreRule DEF Postgres!TenantInit, Postgres!None, StoreRows, ReadsRow
<1>3. StorePools
  BY DEF Postgres!TenantInit, StorePools, Postgres!None
<1> QED
  BY <1>1, <1>2, <1>3 DEF StoreInv
-----------------------------------------------------------------------------
(* The migration runner. *)

LEMMA VersionsRule ==
    \E n \in Nat \ {0} : MigrationVersions = 1 .. n /\ Postgres!Latest = n
<1>0. PICK newest \in MigrationVersions : newest \in Nat /\ MigrationVersions = 1 .. newest
  BY OperationsAssumption
<1>1. PICK n \in Nat \ {0} : MigrationVersions = 1 .. n
  BY <1>0
<1>2. \A v \in 1 .. n : (\A w \in 1 .. n : w <= v) <=> v = n
  OBVIOUS
<1>3. Postgres!Latest = n
  BY <1>1, <1>2 DEF Postgres!Latest
<1> QED
  BY <1>1, <1>3

LEMMA SchemaRule ==
    /\ Postgres!Latest \in MigrationVersions /\ MigrationVersions = 1 .. Postgres!Latest
    /\ MigrationVersions \in SUBSET Nat /\ Postgres!Latest \in Nat
    /\ NoRunner \notin Runners /\ Postgres!NotApplied \notin Releases
BY VersionsRule, OperationsAssumption DEF Postgres!NotApplied

\* A runner in its transaction has the lock and knows what is applied, and has gone through
\* the versions of its release before the one it is at.
RunnerInv(r) ==
    /\ runner[r].stage = "running" =>
           /\ lockedBy = r /\ runner[r].known = applied
           /\ runner[r].pending = {v \in Postgres!Ships(r) : v < runner[r].at /\ applied[v] = Postgres!NotApplied}
           /\ \A v \in Postgres!Ships(r) : v < runner[r].at /\ applied[v] # Postgres!NotApplied =>
                  applied[v] = release[r][v]
    /\ runner[r].stage \in {"idle", "locking"} => runner[r].at = 1
    /\ runner[r].stage # "running" => runner[r].pending = {}
    /\ runner[r].stage = "done" => \A v \in Postgres!Ships(r) : applied[v] = release[r][v]

SchemaInv ==
    /\ Postgres!SchemaTypeOK
    /\ \A v \in MigrationVersions : executed[v] = IF applied[v] = Postgres!NotApplied THEN 0 ELSE 1
    /\ \A r \in Runners : RunnerInv(r)

\* A step of r leaves the other runners and what the releases are.
OwnRunner(r) ==
    /\ runner' \in [Runners -> Postgres!RunnerRecords] /\ release' = release
    /\ \A q \in Runners \ {r} : runner'[q] = runner[q]

\* A step of r that leaves the schema.
LEMMA SchemaKept ==
    ASSUME SchemaInv, NEW r \in Runners, OwnRunner(r), UNCHANGED <<applied, executed>>,
           lockedBy' \in Runners \cup {NoRunner},
           \A q \in Runners \ {r} : lockedBy = q => lockedBy' = q,
           RunnerInv(r)'
    PROVE  SchemaInv'
<1>1. /\ release' = release /\ applied' = applied /\ executed' = executed
      /\ \A q \in Runners \ {r} : runner'[q] = runner[q]
  BY DEF OwnRunner
<1>2. ASSUME NEW q \in Runners \ {r} PROVE RunnerInv(q)'
  BY <1>1 DEF SchemaInv, RunnerInv, Postgres!Ships
<1>3. Postgres!SchemaTypeOK'
  BY <1>1 DEF SchemaInv, Postgres!SchemaTypeOK, OwnRunner
<1> QED
  BY <1>1, <1>2, <1>3 DEF SchemaInv

LEMMA SchemaFail ==
    ASSUME SchemaInv, NEW r \in Runners, Postgres!Fail(r)
    PROVE  SchemaInv'
<1>1. runner \in [Runners -> Postgres!RunnerRecords] /\ lockedBy \in Runners \cup {NoRunner}
  BY DEF SchemaInv, Postgres!SchemaTypeOK
<1>2. OwnRunner(r) /\ runner'[r].stage = "failed" /\ runner'[r].pending = {}
  BY <1>1 DEF Postgres!Fail, OwnRunner, Postgres!RunnerRecords
<1>3. UNCHANGED <<applied, executed>> /\ lockedBy' = IF lockedBy = r THEN NoRunner ELSE lockedBy
  BY DEF Postgres!Fail, Postgres!Unlocked
<1>4. RunnerInv(r)'
  BY <1>2 DEF RunnerInv
<1> QED
  BY <1>1, <1>2, <1>3, <1>4, SchemaKept

LEMMA SchemaCommit ==
    ASSUME SchemaInv, NEW r \in Runners, Postgres!CommitMigrations(r)
    PROVE  SchemaInv'
<1> DEFINE N == Postgres!NotApplied
           P == runner[r].pending
<1>1. /\ runner \in [Runners -> Postgres!RunnerRecords] /\ lockedBy \in Runners \cup {NoRunner}
      /\ release \in [Runners -> [MigrationVersions -> Releases \cup {Postgres!NotShipped}]]
      /\ applied \in [MigrationVersions -> Releases \cup {N}] /\ executed \in [MigrationVersions -> Nat]
  BY DEF SchemaInv, Postgres!SchemaTypeOK, Postgres!Checksums
<1>2. /\ runner[r].stage = "running" /\ runner[r].at = Postgres!Latest + 1
      /\ applied' = [v \in MigrationVersions |-> IF v \in P THEN release[r][v] ELSE applied[v]]
      /\ executed' = [v \in MigrationVersions |-> IF v \in P THEN executed[v] + 1 ELSE executed[v]]
      /\ runner' = [runner EXCEPT ![r].stage = "done", ![r].pending = {}]
      /\ lockedBy' = (IF lockedBy = r THEN NoRunner ELSE lockedBy) /\ release' = release
  BY DEF Postgres!CommitMigrations, Postgres!RunnerAt, Postgres!Unlocked
<1>3. OwnRunner(r) /\ runner'[r].stage = "done" /\ runner'[r].pending = {}
  BY <1>1, <1>2 DEF OwnRunner, Postgres!RunnerRecords
<1>4. /\ P = {v \in Postgres!Ships(r) : applied[v] = N} /\ lockedBy = r
      /\ \A v \in Postgres!Ships(r) : applied[v] # N => applied[v] = release[r][v]
      /\ Postgres!Ships(r) \subseteq MigrationVersions
  BY <1>2, SchemaRule DEF SchemaInv, RunnerInv, Postgres!Ships
<1>5. /\ \A v \in P : applied[v] = N /\ applied'[v] = release[r][v] /\ release[r][v] \in Releases
      /\ \A v \in MigrationVersions \ P : applied'[v] = applied[v] /\ executed'[v] = executed[v]
      /\ \A v \in P : executed'[v] = executed[v] + 1
  BY <1>1, <1>2, <1>4 DEF Postgres!Ships
<1>6. \A v \in MigrationVersions : executed'[v] = IF applied'[v] = N THEN 0 ELSE 1
  BY <1>5, SchemaRule DEF SchemaInv
<1>7. ASSUME NEW q \in Runners PROVE RunnerInv(q)'
  <2>1. CASE q = r
    <3>1. \A v \in Postgres!Ships(r) : applied'[v] = release[r][v]
      BY <1>4, <1>5
    <3> QED
      BY <1>2, <1>3, <2>1, <3>1 DEF RunnerInv, Postgres!Ships
  <2>2. CASE q # r
    <3>1. runner'[q] = runner[q] /\ RunnerInv(q) /\ runner[q].stage # "running"
      BY <1>3, <1>4, <2>2 DEF OwnRunner, SchemaInv, RunnerInv
    <3>2. ASSUME runner[q].stage = "done", NEW v \in Postgres!Ships(q) PROVE applied'[v] = release[q][v]
      <4>1. applied[v] = release[q][v] /\ release[q][v] \in Releases /\ v \in MigrationVersions
        BY <1>1, <3>1, <3>2 DEF RunnerInv, Postgres!Ships
      <4> QED
        BY <1>5, <4>1, SchemaRule
    <3> QED
      BY <1>2, <3>1, <3>2 DEF RunnerInv, Postgres!Ships
  <2> QED
    BY <2>1, <2>2
<1>8. Postgres!SchemaTypeOK'
  <2> HIDE DEF P
  <2>1. applied' \in [MigrationVersions -> Releases \cup {N}]
    BY <1>1, <1>2, <1>5
  <2>2. executed' \in [MigrationVersions -> Nat]
    BY <1>1, <1>2
  <2> QED
    BY <1>1, <1>2, <1>3, <2>1, <2>2 DEF Postgres!SchemaTypeOK, OwnRunner, Postgres!Checksums
<1> QED
  BY <1>6, <1>7, <1>8 DEF SchemaInv

LEMMA SchemaMigrate ==
    ASSUME SchemaInv, NEW r \in Runners, Postgres!Migrate(r)
    PROVE  SchemaInv'
<1> DEFINE v == runner[r].at
           N == Postgres!NotApplied
<1>1. /\ runner \in [Runners -> Postgres!RunnerRecords] /\ lockedBy \in Runners \cup {NoRunner}
      /\ applied \in [MigrationVersions -> Releases \cup {N}]
      /\ release \in [Runners -> [MigrationVersions -> Releases \cup {Postgres!NotShipped}]]
      /\ runner[r].stage = "running" /\ v \in MigrationVersions
  BY DEF SchemaInv, Postgres!SchemaTypeOK, Postgres!Checksums, Postgres!Migrate, Postgres!RunnerAt
<1>2. CASE Postgres!Mismatch(r, v)
  BY <1>2, SchemaFail DEF Postgres!Migrate
<1>3. CASE ~Postgres!Mismatch(r, v)
  <2> DEFINE S == Postgres!Ships(r)
             Q == IF v \in S /\ runner[r].known[v] = N THEN runner[r].pending \cup {v} ELSE runner[r].pending
  <2>1. /\ runner' = [runner EXCEPT ![r].at = v + 1, ![r].pending = Q]
        /\ UNCHANGED <<release, lockedBy, applied, executed>>
    BY <1>3 DEF Postgres!Migrate
  <2>2. /\ lockedBy = r /\ runner[r].known = applied
        /\ runner[r].pending = {w \in S : w < v /\ applied[w] = N}
        /\ \A w \in S : w < v /\ applied[w] # N => applied[w] = release[r][w]
        /\ S \subseteq MigrationVersions
    BY <1>1 DEF SchemaInv, RunnerInv, Postgres!Ships
  <2>3. v \in S /\ applied[v] # N => applied[v] = release[r][v]
    BY <1>3, <2>2 DEF Postgres!Mismatch
  <2>4. /\ MigrationVersions \in SUBSET Nat /\ v \in Nat /\ v + 1 \in 1 .. Postgres!Latest + 1
        /\ Q \in SUBSET MigrationVersions
    BY <1>1, <2>2, SchemaRule
  <2>5. /\ OwnRunner(r) /\ runner'[r].stage = "running" /\ runner'[r].at = v + 1 /\ runner'[r].pending = Q
        /\ runner'[r].known = runner[r].known
    <3> HIDE DEF Q, v, S
    <3>1. runner[r].at = v
      BY DEF v
    <3> QED
      BY <1>1, <2>1, <2>4, <3>1 DEF OwnRunner, Postgres!RunnerRecords
  <2>A. \A w \in S : (w < v + 1) <=> (w < v \/ w = v)
    <3> HIDE DEF S, v
    <3>1. \A w \in S : w \in Nat
      BY <2>2, <2>4
    <3> QED
      BY <2>4, <3>1
  <2>6. Q = {w \in S : w < v + 1 /\ applied[w] = N}
    <3>2. Q = IF v \in S /\ applied[v] = N THEN runner[r].pending \cup {v} ELSE runner[r].pending
      BY <2>2
    <3> HIDE DEF Q, N, S
    <3>3. CASE v \in S /\ applied[v] = N
      BY <1>1, <2>2, <2>A, <3>2, <3>3
    <3>4. CASE ~(v \in S /\ applied[v] = N)
      BY <1>1, <2>2, <2>A, <3>2, <3>4
    <3> QED
      BY <3>3, <3>4
  <2>7. \A w \in S : w < v + 1 /\ applied[w] # N => applied[w] = release[r][w]
    <3> HIDE DEF N, S, v
    <3> QED
      BY <2>2, <2>3, <2>A
  <2>8. RunnerInv(r)'
    <3>1. Postgres!Ships(r)' = S
      BY <2>1 DEF Postgres!Ships
    <3> HIDE DEF Q, v, S
    <3> QED
      BY <2>1, <2>2, <2>5, <2>6, <2>7, <3>1 DEF RunnerInv
  <2> QED
    BY <1>1, <2>1, <2>5, <2>8, SchemaKept
<1> QED
  BY <1>2, <1>3

LEMMA SchemaStep ==
    ASSUME SchemaInv, [Postgres!SchemaNext]_schema
    PROVE  SchemaInv'
<1>0. /\ runner \in [Runners -> Postgres!RunnerRecords] /\ lockedBy \in Runners \cup {NoRunner}
      /\ applied \in [MigrationVersions -> Releases \cup {Postgres!NotApplied}]
  BY DEF SchemaInv, Postgres!SchemaTypeOK
<1>1. CASE UNCHANGED schema
  BY <1>1 DEF schema, SchemaInv, RunnerInv, Postgres!SchemaTypeOK, Postgres!Ships
<1>2. ASSUME NEW r \in Runners, Postgres!Begin(r) PROVE SchemaInv'
  <2>1. /\ runner' = [runner EXCEPT ![r].stage = "locking"] /\ runner[r].stage = "idle"
        /\ UNCHANGED <<release, lockedBy, applied, executed>>
    BY <1>2 DEF Postgres!Begin, Postgres!RunnerAt
  <2>2. /\ OwnRunner(r) /\ runner'[r].stage = "locking" /\ runner'[r].at = runner[r].at
        /\ runner'[r].pending = runner[r].pending
    BY <1>0, <2>1 DEF OwnRunner, Postgres!RunnerRecords
  <2>3. RunnerInv(r)'
    BY <2>1, <2>2 DEF SchemaInv, RunnerInv, Postgres!Ships
  <2> QED
    BY <1>0, <2>1, <2>2, <2>3, SchemaKept
<1>3. ASSUME NEW r \in Runners, Postgres!ReadApplied(r) PROVE SchemaInv'
  <2>1. /\ runner' = [runner EXCEPT ![r].stage = "running", ![r].known = applied] /\ runner[r].stage = "locking"
        /\ lockedBy = NoRunner /\ lockedBy' = r /\ UNCHANGED <<release, applied, executed>>
    BY <1>3 DEF Postgres!ReadApplied, Postgres!RunnerAt, Postgres!AdvisoryLock
  <2>2. /\ OwnRunner(r) /\ runner'[r].stage = "running" /\ runner'[r].at = runner[r].at
        /\ runner'[r].pending = runner[r].pending /\ runner'[r].known = applied
    BY <1>0, <2>1 DEF OwnRunner, Postgres!RunnerRecords
  <2>3. runner[r].at = 1 /\ runner[r].pending = {}
    BY <2>1 DEF SchemaInv, RunnerInv
  <2>4. \A v \in MigrationVersions : ~(v < 1)
    BY SchemaRule
  <2>5. RunnerInv(r)'
    BY <2>1, <2>2, <2>3, <2>4 DEF RunnerInv, Postgres!Ships
  <2> QED
    BY <1>0, <2>1, <2>2, <2>5, SchemaKept, SchemaRule
<1>4. ASSUME NEW r \in Runners, Postgres!Restart(r) PROVE SchemaInv'
  <2>1. /\ runner' = [runner EXCEPT ![r] = [@ EXCEPT !.stage = "idle", !.at = 1]] /\ runner[r].stage = "failed"
        /\ UNCHANGED <<release, lockedBy, applied, executed>>
    BY <1>4 DEF Postgres!Restart, Postgres!RunnerAt
  <2>2. 1 \in 1 .. Postgres!Latest + 1
    BY SchemaRule
  <2>3. /\ OwnRunner(r) /\ runner'[r].stage = "idle" /\ runner'[r].at = 1
        /\ runner'[r].pending = runner[r].pending
    BY <1>0, <2>1, <2>2 DEF OwnRunner, Postgres!RunnerRecords
  <2>4. RunnerInv(r)'
    BY <2>1, <2>3 DEF SchemaInv, RunnerInv
  <2> QED
    BY <1>0, <2>1, <2>3, <2>4, SchemaKept
<1> QED
  BY <1>1, <1>2, <1>3, <1>4, SchemaFail, SchemaMigrate, SchemaCommit
     DEF Postgres!SchemaNext, Postgres!RunnerBreaks

LEMMA SchemaInitially ==
    ASSUME Postgres!SchemaInit
    PROVE  SchemaInv
BY SchemaRule DEF Postgres!SchemaInit, Postgres!SchemaTypeOK, Postgres!RunnerRecords, RunnerInv, SchemaInv

LEMMA SchemaHolds ==
    ASSUME SchemaInv
    PROVE  Postgres!SchemaTypeOK /\ Postgres!MigratedOnce
BY DEF SchemaInv, RunnerInv, Postgres!MigratedOnce, Postgres!RunnerAt
-----------------------------------------------------------------------------
(* Start and stop of the server. *)

\* Once a stop waits, the server is started and closing, and it never listens again.
LifecycleInv ==
    /\ Lifecycle!TypeOK /\ Lifecycle!StopIsAnEnd
    /\ started = "no" => socket.listening = "no" /\ socket.connections = 0
    /\ socket.listening = "soon" => started = "waits"
    /\ started = "waits" => socket.listening = "soon"
    /\ socket.closing => state.shuttingDown /\ started # "no"
    /\ \A s \in Stoppers :
           /\ stop[s] # "none" => state.shuttingDown
           /\ stop[s] \in {"waits", "resolved"} => socket.closing
           /\ stop[s] = "waits" => socket.listening = "yes"

LEMMA LifecycleTypes ==
    ASSUME LifecycleInv
    PROVE  /\ state = [ready |-> state.ready, shuttingDown |-> state.shuttingDown]
           /\ state.ready \in BOOLEAN /\ state.shuttingDown \in BOOLEAN
           /\ socket = [listening |-> socket.listening, closing |-> socket.closing,
                        connections |-> socket.connections]
           /\ socket.listening \in {"no", "soon", "yes"} /\ socket.closing \in BOOLEAN
           /\ socket.connections \in Nat /\ socket.connections <= MaxConnections
           /\ stop \in [Stoppers -> {"none", "waits", "waived", "failed", "resolved"}]
           /\ MaxConnections \in Nat
BY OperationsAssumption DEF LifecycleInv, Lifecycle!TypeOK

LEMMA LifecycleStarts ==
    ASSUME LifecycleInv, Lifecycle!StartServer \/ Lifecycle!Listening \/ Lifecycle!ListenFails
    PROVE  LifecycleInv'
<1>1. CASE Lifecycle!StartServer
  BY <1>1, LifecycleTypes DEF Lifecycle!StartServer, LifecycleInv, Lifecycle!TypeOK, Lifecycle!StopIsAnEnd
<1>2. CASE Lifecycle!Listening
  BY <1>2, LifecycleTypes DEF Lifecycle!Listening, LifecycleInv, Lifecycle!TypeOK, Lifecycle!StopIsAnEnd
<1>3. CASE Lifecycle!ListenFails
  BY <1>3, LifecycleTypes DEF Lifecycle!ListenFails, LifecycleInv, Lifecycle!TypeOK, Lifecycle!StopIsAnEnd
<1> QED
  BY <1>1, <1>2, <1>3

LEMMA LifecycleServes ==
    ASSUME LifecycleInv,
           \/ Lifecycle!Connect \/ Lifecycle!Disconnect \/ Lifecycle!Probe
           \/ \E status \in Lifecycle!DependencyStatuses : Lifecycle!SetStatus(status)
    PROVE  LifecycleInv'
<1>1. CASE Lifecycle!Connect
  BY <1>1, LifecycleTypes
     DEF Lifecycle!Connect, Lifecycle!Accepting, LifecycleInv, Lifecycle!TypeOK, Lifecycle!StopIsAnEnd
<1>2. CASE Lifecycle!Disconnect
  BY <1>2, LifecycleTypes DEF Lifecycle!Disconnect, LifecycleInv, Lifecycle!TypeOK, Lifecycle!StopIsAnEnd
<1>3. CASE Lifecycle!Probe
  BY <1>3, LifecycleTypes
     DEF Lifecycle!Probe, Lifecycle!Readiness, LifecycleInv, Lifecycle!TypeOK, Lifecycle!StopIsAnEnd
<1>4. ASSUME NEW status \in Lifecycle!DependencyStatuses, Lifecycle!SetStatus(status) PROVE LifecycleInv'
  BY <1>4, LifecycleTypes DEF Lifecycle!SetStatus, LifecycleInv, Lifecycle!TypeOK, Lifecycle!StopIsAnEnd
<1> QED
  BY <1>1, <1>2, <1>3, <1>4

LEMMA LifecycleStops ==
    ASSUME LifecycleInv, NEW s \in Stoppers,
           Lifecycle!StopServer(s) \/ Lifecycle!Closed(s) \/ Lifecycle!TimesOut(s)
    PROVE  LifecycleInv'
<1>1. CASE Lifecycle!StopServer(s)
  <2>1. CASE state.shuttingDown
    BY <1>1, <2>1, LifecycleTypes
       DEF Lifecycle!StopServer, LifecycleInv, Lifecycle!TypeOK, Lifecycle!StopIsAnEnd
  <2>2. CASE ~state.shuttingDown
    <3>1. /\ state' = [ready |-> FALSE, shuttingDown |-> TRUE] /\ \A t \in Stoppers : stop[t] = "none"
          /\ UNCHANGED <<started, dependency, probe>>
      BY <1>1, <2>2 DEF Lifecycle!StopServer, LifecycleInv
    <3>2. CASE socket.listening = "yes"
      <4>1. /\ socket' = [socket EXCEPT !.closing = TRUE] /\ stop' = [stop EXCEPT ![s] = "waits"]
        BY <1>1, <2>2, <3>2 DEF Lifecycle!StopServer
      <4>2. /\ socket'.closing = TRUE /\ socket'.listening = "yes" /\ socket'.connections = socket.connections
            /\ \A t \in Stoppers : stop'[t] = (IF t = s THEN "waits" ELSE "none")
        BY <3>1, <3>2, <4>1, LifecycleTypes
      <4>3. Lifecycle!TypeOK'
        BY <3>1, <4>1, LifecycleTypes DEF LifecycleInv, Lifecycle!TypeOK
      <4> QED
        BY <3>1, <3>2, <4>2, <4>3 DEF LifecycleInv, Lifecycle!StopIsAnEnd
    <3>3. CASE socket.listening # "yes"
      BY <1>1, <2>2, <3>1, <3>3, LifecycleTypes DEF Lifecycle!StopServer, LifecycleInv, Lifecycle!TypeOK,
         Lifecycle!StopIsAnEnd
    <3> QED
      BY <3>2, <3>3
  <2> QED
    BY <2>1, <2>2
<1>2. CASE Lifecycle!Closed(s)
  BY <1>2, LifecycleTypes
     DEF Lifecycle!Closed, Lifecycle!Drained, LifecycleInv, Lifecycle!TypeOK, Lifecycle!StopIsAnEnd
<1>3. CASE Lifecycle!TimesOut(s)
  <2>1. /\ stop[s] = "waits" /\ stop' = [stop EXCEPT ![s] = "resolved"]
        /\ socket' = [socket EXCEPT !.connections = 0, !.listening = "no"]
        /\ UNCHANGED <<state, started, dependency, probe>>
    BY <1>3 DEF Lifecycle!TimesOut
  <2>2. /\ socket'.closing = socket.closing /\ socket'.listening = "no" /\ socket'.connections = 0
        /\ \A t \in Stoppers : stop'[t] = (IF t = s THEN "resolved" ELSE stop[t])
    BY <2>1, LifecycleTypes
  <2>3. Lifecycle!TypeOK'
    <3>1. 0 \in 0 .. MaxConnections
      BY OperationsAssumption
    <3>2. socket' \in [listening : {"no", "soon", "yes"}, closing : BOOLEAN, connections : 0 .. MaxConnections]
      BY <2>1, <3>1 DEF LifecycleInv, Lifecycle!TypeOK
    <3> QED
      BY <2>1, <3>2 DEF LifecycleInv, Lifecycle!TypeOK
  <2>4. state.shuttingDown /\ started # "no" /\ started # "waits" /\ socket.closing
    BY <2>1 DEF LifecycleInv
  <2>5. \A t \in Stoppers \ {s} : stop[t] \notin {"waits", "resolved"}
    BY <2>1 DEF LifecycleInv, Lifecycle!StopIsAnEnd
  <2> QED
    BY <2>1, <2>2, <2>3, <2>4, <2>5 DEF LifecycleInv, Lifecycle!StopIsAnEnd
<1> QED
  BY <1>1, <1>2, <1>3

LEMMA LifecycleStep ==
    ASSUME LifecycleInv, [Lifecycle!Next]_lifecycle
    PROVE  LifecycleInv'
<1>1. CASE UNCHANGED lifecycle
  BY <1>1 DEF lifecycle, LifecycleInv, Lifecycle!TypeOK, Lifecycle!StopIsAnEnd
<1>2. CASE Lifecycle!Next
  BY <1>2, LifecycleStarts, LifecycleServes, LifecycleStops DEF Lifecycle!Next
<1> QED
  BY <1>1, <1>2

LEMMA LifecycleInitially ==
    ASSUME Lifecycle!Init
    PROVE  LifecycleInv
BY OperationsAssumption DEF Lifecycle!Init, LifecycleInv, Lifecycle!TypeOK, Lifecycle!StopIsAnEnd

LEMMA LifecycleHolds ==
    ASSUME LifecycleInv
    PROVE  Lifecycle!TypeOK /\ Lifecycle!StopIsAnEnd
BY DEF LifecycleInv
-----------------------------------------------------------------------------
(* The alerts, and their delivery. *)

\* What a finite set of alerts is listed as.
Listing(S) == CHOOSE s \in [1 .. Cardinality(S) -> S] : Alerting!Within(s) = S

LEMMA ListingOfSet ==
    ASSUME NEW S, IsFiniteSet(S)
    PROVE  /\ Listing(S) \in Seq(S) /\ Len(Listing(S)) = Cardinality(S)
           /\ Alerting!Within(Listing(S)) = S
<1> DEFINE n == Cardinality(S)
<1>1. n \in Nat /\ ExistsBijection(1 .. n, S)
  BY FS_CardinalityType
<1>2. PICK f : f \in Bijection(1 .. n, S)
  BY <1>1 DEF ExistsBijection
<1>3. f \in [1 .. n -> S] /\ Alerting!Within(f) = S
  BY <1>2 DEF Bijection, Injection, Surjection, Alerting!Within
<1>4. Listing(S) \in [1 .. n -> S] /\ Alerting!Within(Listing(S)) = S
  BY <1>3 DEF Listing
<1> QED
  BY <1>1, <1>4
LEMMA AlertsFinite ==
    ASSUME NEW raised \in SUBSET Alerting!PossibleAlerts
    PROVE  IsFiniteSet(raised)
<1> DEFINE S == Alerting!Sources
           T == Alerting!Severities
           f == [p \in S \X T |-> [source |-> p[1], severity |-> p[2]]]
<1>1. IsFiniteSet(S) /\ IsFiniteSet(T)
  <2>1. /\ IsFiniteSet({"queue"}) /\ IsFiniteSet({"storage"}) /\ IsFiniteSet({"auth"})
        /\ IsFiniteSet({"certificate"}) /\ IsFiniteSet({"dependency"})
        /\ IsFiniteSet({"critical"}) /\ IsFiniteSet({"warning"})
    BY FS_Singleton
  <2>2. IsFiniteSet({"critical"} \cup {"warning"})
    BY <2>1, FS_Union
  <2>3. IsFiniteSet({"queue"} \cup {"storage"})
    BY <2>1, FS_Union
  <2>4. IsFiniteSet(({"queue"} \cup {"storage"}) \cup {"auth"})
    BY <2>1, <2>3, FS_Union
  <2>5. IsFiniteSet((({"queue"} \cup {"storage"}) \cup {"auth"}) \cup {"certificate"})
    BY <2>1, <2>4, FS_Union
  <2>6. IsFiniteSet(((({"queue"} \cup {"storage"}) \cup {"auth"}) \cup {"certificate"}) \cup {"dependency"})
    BY <2>1, <2>5, FS_Union
  <2>7. S = ((({"queue"} \cup {"storage"}) \cup {"auth"}) \cup {"certificate"}) \cup {"dependency"}
    BY DEF Alerting!Sources, Alerting!Counted
  <2>8. T = {"critical"} \cup {"warning"}
    BY DEF Alerting!Severities
  <2> QED
    BY <2>2, <2>6, <2>7, <2>8
<1>2. f \in Surjection(S \X T, Alerting!PossibleAlerts)
  <2>1. \A p \in S \X T : f[p] \in Alerting!PossibleAlerts
    BY DEF Alerting!PossibleAlerts
  <2>2. f \in [S \X T -> Alerting!PossibleAlerts]
    BY <2>1
  <2>3. ASSUME NEW a \in Alerting!PossibleAlerts PROVE \E p \in S \X T : f[p] = a
    <3>1. /\ a.source \in S /\ a.severity \in T /\ a = [source |-> a.source, severity |-> a.severity]
      BY DEF Alerting!PossibleAlerts
    <3>2. <<a.source, a.severity>> \in S \X T
      BY <3>1
    <3>3. f[<<a.source, a.severity>>] = a
      BY <3>1, <3>2
    <3> QED
      BY <3>2, <3>3
  <2> HIDE DEF f
  <2> QED
    BY <2>2, <2>3 DEF Surjection
<1> HIDE DEF f, S, T
<1> QED
  BY <1>1, <1>2, FS_Product, FS_Surjection, FS_Subset

\* The first of the sorted alerts is among the worst of them.
LEMMA SortedAlerts ==
    ASSUME NEW raised \in SUBSET Alerting!PossibleAlerts
    PROVE  LET q == Alerting!Sorted(raised)
           IN  /\ Alerting!Within(q) = raised
               /\ q = <<>> <=> raised = {}
               /\ raised # {} => q[1].severity = Alerting!Worst(raised)
<1> DEFINE With(x) == {a \in raised : a.severity = x}
           c == Listing(With("critical"))
           w == Listing(With("warning"))
<1>1. Alerting!Sorted(raised) = c \o w
  BY DEF Alerting!Sorted, Listing, Alerting!Cardinality, Cardinality
<1>2. /\ c \in Seq(With("critical")) /\ Alerting!Within(c) = With("critical")
      /\ w \in Seq(With("warning")) /\ Alerting!Within(w) = With("warning")
  BY AlertsFinite, ListingOfSet
<1>3. raised = With("critical") \cup With("warning")
  BY DEF Alerting!PossibleAlerts, Alerting!Severities
<1> HIDE DEF c, w
<1>4. /\ Len(c \o w) = Len(c) + Len(w) /\ Len(c) \in Nat /\ Len(w) \in Nat
      /\ \A i \in 1 .. Len(c) : (c \o w)[i] = c[i]
      /\ \A i \in 1 .. Len(w) : (c \o w)[Len(c) + i] = w[i]
      /\ \A i \in 1 .. Len(c) + Len(w) : i \in 1 .. Len(c) \/ i - Len(c) \in 1 .. Len(w)
      /\ DOMAIN (c \o w) = 1 .. Len(c) + Len(w)
      /\ DOMAIN c = 1 .. Len(c) /\ DOMAIN w = 1 .. Len(w)
  BY <1>2
<1>5. Alerting!Within(c \o w) = With("critical") \cup With("warning")
  <2>1. \A x : (\E i \in 1 .. Len(c) + Len(w) : (c \o w)[i] = x) <=>
               (\E i \in 1 .. Len(c) : c[i] = x) \/ (\E i \in 1 .. Len(w) : w[i] = x)
    <3>1. ASSUME NEW x, NEW i \in 1 .. Len(c) + Len(w), (c \o w)[i] = x
          PROVE  (\E j \in 1 .. Len(c) : c[j] = x) \/ (\E j \in 1 .. Len(w) : w[j] = x)
      BY <1>4, <3>1
    <3>2. ASSUME NEW x, NEW i \in 1 .. Len(c), c[i] = x PROVE \E j \in 1 .. Len(c) + Len(w) : (c \o w)[j] = x
      BY <1>4, <3>2
    <3>3. ASSUME NEW x, NEW i \in 1 .. Len(w), w[i] = x PROVE \E j \in 1 .. Len(c) + Len(w) : (c \o w)[j] = x
      BY <1>4, <3>3
    <3> QED
      BY <3>1, <3>2, <3>3
  <2>2. \A x : x \in Alerting!Within(c \o w) <=> \E i \in 1 .. Len(c) + Len(w) : (c \o w)[i] = x
    BY <1>4 DEF Alerting!Within
  <2>3. \A x : x \in Alerting!Within(c) <=> \E i \in 1 .. Len(c) : c[i] = x
    BY <1>4 DEF Alerting!Within
  <2>4. \A x : x \in Alerting!Within(w) <=> \E i \in 1 .. Len(w) : w[i] = x
    BY <1>4 DEF Alerting!Within
  <2>5. Alerting!Within(c \o w) = Alerting!Within(c) \cup Alerting!Within(w)
    BY <2>1, <2>2, <2>3, <2>4
  <2> QED
    BY <1>2, <2>5
<1>6. c \o w = <<>> <=> raised = {}
  BY <1>2, <1>3, <1>4 DEF Alerting!Within
<1>7. ASSUME raised # {} PROVE (c \o w)[1].severity = Alerting!Worst(raised)
  <2>1. CASE With("critical") # {}
    BY <1>2, <1>4, <2>1 DEF Alerting!Within, Alerting!Worst
  <2>2. CASE With("critical") = {}
    BY <1>2, <1>3, <1>4, <1>7, <2>2 DEF Alerting!Within, Alerting!Worst
  <2> QED
    BY <2>1, <2>2
<1> QED
  BY <1>1, <1>3, <1>5, <1>6, <1>7
PolicyInv ==
    /\ threshold \in [warning : 1 .. Top, critical : 1 .. Top] /\ threshold.warning <= threshold.critical
    /\ snapshot \in Alerting!Snapshots
    /\ report \in {Alerting!NoReport, Alerting!Evaluation(snapshot)}

ValidSnapshots == {s \in Alerting!Snapshots : s.queue # Alerting!Invalid}

LEMMA Levels ==
    ASSUME PolicyInv, NEW s \in Alerting!Snapshots, NEW x \in Alerting!Sources
    PROVE  Alerting!Level(s, x) \in {"critical", "warning", "none"}
BY DEF Alerting!Severity, Alerting!Level

\* What the report of a valid snapshot says of each source.
LEMMA ReportOf ==
    ASSUME PolicyInv, NEW s \in ValidSnapshots
    PROVE  LET r == Alerting!Evaluation(s)
           IN  /\ Alerting!Within(r.alerts) = Alerting!AlertsOf(s)
               /\ r.status = Alerting!Worst(Alerting!AlertsOf(s)) /\ r.status \in {"ok", "warning", "critical"}
               /\ r.status = IF r.alerts = <<>> THEN "ok" ELSE r.alerts[1].severity
               /\ \A x \in Alerting!Sources : Alerting!RankOf(r, x) = Alerting!Rank(Alerting!Level(s, x))
               /\ r.status = "critical" <=> \E x \in Alerting!Sources : Alerting!Level(s, x) = "critical"
               /\ r.status = "ok" <=> \A x \in Alerting!Sources : Alerting!Level(s, x) = "none"
<1> DEFINE A == Alerting!AlertsOf(s)
           r == Alerting!Evaluation(s)
           q == Alerting!Sorted(A)
<1>1. r.status = Alerting!Worst(A) /\ r.alerts = q
  BY DEF ValidSnapshots, Alerting!Evaluation
<1>2. A \in SUBSET Alerting!PossibleAlerts
  BY DEF Alerting!AlertsOf
<1>3. Alerting!Within(q) = A /\ (q = <<>> <=> A = {}) /\ (A # {} => q[1].severity = Alerting!Worst(A))
  <2> HIDE DEF A
  <2> QED
    BY <1>2, SortedAlerts
<1>4. \A x \in Alerting!Sources, v \in {"critical", "warning"} :
          (\E a \in A : a.source = x /\ a.severity = v) <=> Alerting!Level(s, x) = v
  <2>1. ASSUME NEW x \in Alerting!Sources, NEW v \in {"critical", "warning"}, Alerting!Level(s, x) = v
        PROVE  \E a \in A : a.source = x /\ a.severity = v
    <3> DEFINE a == [source |-> x, severity |-> v]
    <3>1. a \in Alerting!PossibleAlerts /\ a.source = x /\ a.severity = v
      BY DEF Alerting!PossibleAlerts, Alerting!Severities
    <3> HIDE DEF a
    <3>2. a \in A
      BY <2>1, <3>1 DEF Alerting!AlertsOf
    <3> QED
      BY <3>1, <3>2
  <2>2. \A a \in A : Alerting!Level(s, a.source) = a.severity
    BY DEF Alerting!AlertsOf
  <2> QED
    BY <2>1, <2>2
<1>5. \A a \in A : a.source \in Alerting!Sources /\ a.severity \in {"critical", "warning"}
  BY <1>2 DEF Alerting!PossibleAlerts, Alerting!Severities
<1>6. \A x \in Alerting!Sources : Alerting!Level(s, x) \in {"critical", "warning", "none"}
  BY Levels DEF ValidSnapshots
<1> HIDE DEF A, q, r
<1>7. \A x \in Alerting!Sources : Alerting!RankOf(r, x) = Alerting!Rank(Alerting!Level(s, x))
  <2> SUFFICES ASSUME NEW x \in Alerting!Sources
               PROVE  Alerting!RankOf(r, x) = Alerting!Rank(Alerting!Level(s, x))
    OBVIOUS
  <2>1. Alerting!RankOf(r, x) = IF \E a \in A : a.source = x /\ a.severity = "critical" THEN 2
                                ELSE IF \E a \in A : a.source = x THEN 1 ELSE 0
    BY <1>1, <1>3 DEF Alerting!RankOf
  <2>2. (\E a \in A : a.source = x) <=> Alerting!Level(s, x) \in {"critical", "warning"}
    BY <1>4, <1>5
  <2>3. (\E a \in A : a.source = x /\ a.severity = "critical") <=> Alerting!Level(s, x) = "critical"
    BY <1>4
  <2> QED
    BY <1>6, <2>1, <2>2, <2>3 DEF Alerting!Rank
<1>8. /\ r.status \in {"ok", "warning", "critical"}
      /\ r.status = "critical" <=> \E x \in Alerting!Sources : Alerting!Level(s, x) = "critical"
      /\ r.status = "ok" <=> \A x \in Alerting!Sources : Alerting!Level(s, x) = "none"
  <2>1. /\ r.status \in {"ok", "warning", "critical"}
        /\ r.status = "critical" <=> \E a \in A : a.severity = "critical"
        /\ r.status = "ok" <=> A = {}
    BY <1>1 DEF Alerting!Worst
  <2>2. (\E a \in A : a.severity = "critical") <=> \E x \in Alerting!Sources : Alerting!Level(s, x) = "critical"
    BY <1>4, <1>5
  <2>3. A = {} <=> \A x \in Alerting!Sources : Alerting!Level(s, x) = "none"
    <3>1. ASSUME NEW x \in Alerting!Sources, Alerting!Level(s, x) # "none" PROVE A # {}
      BY <1>4, <1>6, <3>1
    <3>2. ASSUME NEW a \in A PROVE \E x \in Alerting!Sources : Alerting!Level(s, x) # "none"
      BY <1>4, <1>5
    <3> QED
      BY <3>1, <3>2
  <2> QED
    BY <2>1, <2>2, <2>3
<1>9. r.status = IF r.alerts = <<>> THEN "ok" ELSE r.alerts[1].severity
  BY <1>1, <1>3 DEF Alerting!Worst
<1> QED
  BY <1>1, <1>3, <1>7, <1>8, <1>9 DEF A, r

LEMMA PolicyHolds ==
    ASSUME PolicyInv
    PROVE  Alerting!PolicyTypeOK /\ Alerting!StatusIsTheWorst
<1>1. CASE report = Alerting!NoReport
  BY <1>1 DEF Alerting!NoReport, Alerting!Within, PolicyInv, Alerting!PolicyTypeOK, Alerting!StatusIsTheWorst
<1>2. CASE report = Alerting!Evaluation(snapshot) /\ snapshot.queue = Alerting!Invalid
  BY <1>2 DEF Alerting!Evaluation, Alerting!Within, PolicyInv, Alerting!PolicyTypeOK, Alerting!StatusIsTheWorst
<1>3. CASE report = Alerting!Evaluation(snapshot) /\ snapshot.queue # Alerting!Invalid
  <2>1. snapshot \in ValidSnapshots
    BY <1>3 DEF PolicyInv, ValidSnapshots
  <2>2. /\ Alerting!Within(report.alerts) = Alerting!AlertsOf(snapshot) /\ report.status \in {"ok", "warning", "critical"}
        /\ report.status = IF report.alerts = <<>> THEN "ok" ELSE report.alerts[1].severity
        /\ report.status = "critical" <=> \E x \in Alerting!Sources : Alerting!Level(snapshot, x) = "critical"
        /\ report.status = "ok" <=> \A x \in Alerting!Sources : Alerting!Level(snapshot, x) = "none"
    BY <1>3, <2>1, ReportOf
  <2>3. Alerting!AlertsOf(snapshot) \subseteq Alerting!PossibleAlerts
    BY DEF Alerting!AlertsOf
  <2>4. ASSUME NEW x \in Alerting!Counted, snapshot[x] >= threshold.critical PROVE report.status = "critical"
    BY <2>2, <2>4 DEF Alerting!Counted, Alerting!Sources, Alerting!Level, Alerting!Severity
  <2>5. ASSUME snapshot.dependency \in {"degraded", "starting"} PROVE report.status # "ok"
    BY <2>2, <2>5 DEF Alerting!Sources, Alerting!Level
  <2> QED
    BY <2>2, <2>3, <2>4, <2>5 DEF PolicyInv, Alerting!PolicyTypeOK, Alerting!StatusIsTheWorst
<1> QED
  BY <1>1, <1>2, <1>3 DEF PolicyInv

LEMMA PolicyTypes ==
    ASSUME PolicyInv, NEW s \in Alerting!Snapshots
    PROVE  /\ s.queue \in Int /\ s.storage \in Int /\ s.auth \in Int /\ s.certificate \in Int
           /\ s.dependency \in {"ok", "disabled", "starting", "degraded", "failed"}
           /\ threshold.warning \in Int /\ threshold.critical \in Int /\ Top \in Int
           /\ threshold.warning >= 1 /\ threshold.warning <= threshold.critical
BY OperationsAssumption
   DEF PolicyInv, Alerting!Snapshots, Alerting!Measured, Alerting!Absent, Alerting!Invalid, Alerting!Statuses

\* A measurement that gets worse raises its own level, if any.
LEMMA LevelWorsens ==
    ASSUME PolicyInv, NEW s \in Alerting!Snapshots, NEW t \in Alerting!Snapshots, NEW y \in Alerting!Sources,
           t = Alerting!Worse(s, y),
           IF y = "dependency" THEN s.dependency \in {"ok", "starting", "degraded"} ELSE s[y] \in Alerting!Measured,
           NEW x \in Alerting!Sources
    PROVE  Alerting!Rank(Alerting!Level(t, x)) >= Alerting!Rank(Alerting!Level(s, x))
<1>0. /\ \A v \in {"critical", "warning", "none"} : Alerting!Rank(v) \in 0 .. 2
      /\ \A u, v \in Int : u <= v => Alerting!Rank(Alerting!Severity(v)) >= Alerting!Rank(Alerting!Severity(u))
  BY PolicyTypes DEF Alerting!Rank, Alerting!Severity
<1>1. CASE y \in Alerting!Counted
  BY <1>0, <1>1, PolicyTypes, Levels DEF Alerting!Worse, Alerting!Counted, Alerting!Snapshots,
     Alerting!Sources, Alerting!Level
<1>2. CASE y = "certificate"
  <2>1. t = [s EXCEPT !.certificate = s.certificate - 1]
    BY <1>2 DEF Alerting!Worse, Alerting!Counted
  <2>2. /\ t.queue = s.queue /\ t.storage = s.storage /\ t.auth = s.auth /\ t.dependency = s.dependency
        /\ t.certificate = s.certificate - 1
    BY <2>1 DEF Alerting!Snapshots
  <2>3. s.certificate \in Alerting!Measured
    BY <1>2
  <2>4. t.certificate # Alerting!Absent /\ s.certificate # Alerting!Absent
    BY <2>2, <2>3, OperationsAssumption DEF Alerting!Measured, Alerting!Absent
  <2>5. CASE x = "certificate"
    BY <1>0, <2>2, <2>4, <2>5, PolicyTypes DEF Alerting!Level
  <2>6. CASE x # "certificate"
    BY <1>0, <2>2, <2>6, Levels DEF Alerting!Level, Alerting!Sources, Alerting!Counted
  <2> QED
    BY <2>5, <2>6
<1>3. CASE y = "dependency"
  <2>1. t = [s EXCEPT !.dependency = IF s.dependency = "ok" THEN "degraded" ELSE "failed"]
    BY <1>3 DEF Alerting!Worse, Alerting!Counted
  <2>2. /\ t.queue = s.queue /\ t.storage = s.storage /\ t.auth = s.auth /\ t.certificate = s.certificate
        /\ t.dependency = IF s.dependency = "ok" THEN "degraded" ELSE "failed"
    BY <2>1 DEF Alerting!Snapshots
  <2>5. CASE x = "dependency"
    BY <1>3, <2>2, <2>5 DEF Alerting!Level, Alerting!Rank
  <2>6. CASE x # "dependency"
    BY <1>0, <2>2, <2>6, Levels DEF Alerting!Level, Alerting!Sources, Alerting!Counted
  <2> QED
    BY <2>5, <2>6
<1> QED
  BY <1>1, <1>2, <1>3 DEF Alerting!Sources

LEMMA PolicyStep ==
    ASSUME PolicyInv, [Alerting!PolicyNext]_policy
    PROVE  PolicyInv' /\ Alerting!WorseIsNoMilder
<1>1. CASE UNCHANGED policy
  BY <1>1 DEF policy, Alerting!Evaluation, Alerting!AlertsOf, Alerting!Level, Alerting!Severity, PolicyInv,
     Alerting!WorseIsNoMilder
<1>2. CASE Alerting!Evaluate
  BY <1>2 DEF Alerting!Evaluate, Alerting!Evaluation, Alerting!AlertsOf, Alerting!Level, Alerting!Severity,
     PolicyInv, Alerting!WorseIsNoMilder
<1>3. ASSUME NEW y \in Alerting!Sources, Alerting!Worsen(y) PROVE PolicyInv' /\ Alerting!WorseIsNoMilder
  <2> PICK s, t, r, n : s = snapshot /\ t = snapshot' /\ r = report /\ n = report'
    OBVIOUS
  <2>1. /\ threshold' = threshold /\ t = Alerting!Worse(s, y) /\ t \in Alerting!Snapshots
        /\ IF y = "dependency" THEN s.dependency \in {"ok", "starting", "degraded"} ELSE s[y] \in Alerting!Measured
        /\ s \in Alerting!Snapshots /\ r = Alerting!Evaluation(s)
    BY <1>3 DEF Alerting!Worsen, PolicyInv
  <2>2. n = Alerting!Evaluation(t) /\ Alerting!Evaluation(snapshot)' = Alerting!Evaluation(t)
    BY <1>3, <2>1 DEF Alerting!Worsen, Alerting!Evaluation, Alerting!AlertsOf, Alerting!Level, Alerting!Severity
  <2>3. PolicyInv'
    BY <2>1, <2>2 DEF PolicyInv
  <2>4. ASSUME n.status # "error"
        PROVE  /\ Alerting!Rank(n.status) >= Alerting!Rank(r.status)
               /\ \A x \in Alerting!Sources : Alerting!RankOf(n, x) >= Alerting!RankOf(r, x)
    <3>1. t.queue # Alerting!Invalid
      BY <2>2, <2>4 DEF Alerting!Evaluation
    <3>2. s.queue # Alerting!Invalid
      <4>1. CASE y = "queue"
        BY <2>1, <4>1, OperationsAssumption DEF Alerting!Measured, Alerting!Invalid
      <4>2. CASE y # "queue"
        BY <2>1, <3>1, <4>2 DEF Alerting!Worse, Alerting!Counted, Alerting!Sources, Alerting!Snapshots
      <4> QED
        BY <4>1, <4>2
    <3>3. s \in ValidSnapshots /\ t \in ValidSnapshots
      BY <2>1, <3>1, <3>2 DEF ValidSnapshots
    <3>4. /\ \A x \in Alerting!Sources : Alerting!RankOf(r, x) = Alerting!Rank(Alerting!Level(s, x))
          /\ r.status \in {"ok", "warning", "critical"}
          /\ r.status = "critical" <=> \E x \in Alerting!Sources : Alerting!Level(s, x) = "critical"
          /\ r.status = "ok" <=> \A x \in Alerting!Sources : Alerting!Level(s, x) = "none"
      BY <2>1, <3>3, ReportOf
    <3>5. /\ \A x \in Alerting!Sources : Alerting!RankOf(n, x) = Alerting!Rank(Alerting!Level(t, x))
          /\ n.status \in {"ok", "warning", "critical"}
          /\ n.status = "critical" <=> \E x \in Alerting!Sources : Alerting!Level(t, x) = "critical"
          /\ n.status = "ok" <=> \A x \in Alerting!Sources : Alerting!Level(t, x) = "none"
      BY <2>2, <3>3, ReportOf
    <3>6. \A x \in Alerting!Sources : Alerting!Rank(Alerting!Level(t, x)) >= Alerting!Rank(Alerting!Level(s, x))
      BY <2>1, LevelWorsens
    <3>7. \A x \in Alerting!Sources : /\ Alerting!Level(s, x) \in {"critical", "warning", "none"}
                                      /\ Alerting!Level(t, x) \in {"critical", "warning", "none"}
      BY <2>1, Levels
    <3>8. \A x \in Alerting!Sources : /\ Alerting!Level(s, x) = "critical" => Alerting!Level(t, x) = "critical"
                                      /\ Alerting!Level(t, x) = "none" => Alerting!Level(s, x) = "none"
      BY <3>6, <3>7 DEF Alerting!Rank
    <3> QED
      BY <3>4, <3>5, <3>6, <3>8 DEF Alerting!Rank
  <2> QED
    BY <2>3, <2>4 DEF Alerting!WorseIsNoMilder
<1> QED
  BY <1>1, <1>2, <1>3 DEF Alerting!PolicyNext

LEMMA PolicyInitially ==
    ASSUME Alerting!PolicyInit
    PROVE  PolicyInv
BY DEF Alerting!PolicyInit, PolicyInv
\* How often a value is in a sequence.
Copies(q, p) == {i \in DOMAIN q : q[i] = p}

LEMMA CopiesFinite ==
    ASSUME NEW T, NEW q \in Seq(T), NEW p
    PROVE  /\ IsFiniteSet(Copies(q, p)) /\ Cardinality(Copies(q, p)) \in Nat
           /\ (\A i \in DOMAIN q : q[i] # p) => Cardinality(Copies(q, p)) = 0
<1>1. Copies(q, p) \in SUBSET (1 .. Len(q)) /\ IsFiniteSet(1 .. Len(q))
  BY FS_Interval DEF Copies
<1>2. IsFiniteSet(Copies(q, p))
  BY <1>1, FS_Subset
<1>3. (\A i \in DOMAIN q : q[i] # p) => Copies(q, p) = {}
  BY DEF Copies
<1> QED
  BY <1>2, <1>3, FS_CardinalityType, FS_EmptySet

LEMMA CopiesAppend ==
    ASSUME NEW T, NEW q \in Seq(T), NEW a \in T, NEW p
    PROVE  Cardinality(Copies(Append(q, a), p)) =
               IF p = a THEN Cardinality(Copies(q, p)) + 1 ELSE Cardinality(Copies(q, p))
<1> DEFINE n == Len(q) + 1
<1>1. /\ DOMAIN q = 1 .. Len(q) /\ DOMAIN Append(q, a) = 1 .. n /\ Append(q, a)[n] = a
      /\ \A i \in 1 .. Len(q) : Append(q, a)[i] = q[i]
      /\ Len(q) \in Nat
  BY Appended
<1>2. n \notin Copies(q, p)
  BY <1>1 DEF Copies
<1>3. CASE p = a
  <2>1. Copies(Append(q, a), p) = Copies(q, p) \cup {n}
    BY <1>1, <1>3 DEF Copies
  <2> QED
    BY <1>2, <1>3, <2>1, CopiesFinite, FS_AddElement
<1>4. CASE p # a
  <2>1. Copies(Append(q, a), p) = Copies(q, p)
    BY <1>1, <1>4 DEF Copies
  <2> QED
    BY <1>4, <2>1
<1> QED
  BY <1>3, <1>4

WebhookInv ==
    /\ alerts \in 0 .. MaxAlerts /\ received \in Seq(Alerting!Places)
    /\ delivery \in [at : 1 .. MaxAlerts + 1, attempt : 0 .. AlertRetries,
                     delivered : SUBSET Alerting!Places, failed : SUBSET Alerting!Places]
    /\ delivery.at <= alerts + 1
    /\ \A i, j \in DOMAIN received : i < j => received[i] <= received[j]
    /\ \A i \in DOMAIN received : received[i] <= delivery.at
    /\ \A p \in Alerting!Places : Cardinality(Copies(received, p)) <= AlertRetries + 1
    /\ Cardinality(Copies(received, delivery.at)) <= delivery.attempt
    /\ delivery.delivered \subseteq {received[i] : i \in DOMAIN received}
    /\ delivery.delivered \cap delivery.failed = {}
    /\ delivery.delivered \cup delivery.failed = 1 .. delivery.at - 1

LEMMA WebhookHolds ==
    ASSUME WebhookInv
    PROVE  Alerting!WebhookTypeOK /\ Alerting!ReportDelivered
BY DEF Alerting!Count, Copies, Alerting!Cardinality, Cardinality, WebhookInv, Alerting!WebhookTypeOK,
   Alerting!ReportDelivered, Alerting!Within

\* One more alert at the receiver, or none.
LEMMA WebhookReceives ==
    ASSUME WebhookInv, delivery.at <= alerts, received' \in {received, Append(received, delivery.at)}
    PROVE  /\ delivery.at \in Alerting!Places /\ received' \in Seq(Alerting!Places)
           /\ \A i, j \in DOMAIN received' : i < j => received'[i] <= received'[j]
           /\ \A i \in DOMAIN received' : received'[i] <= delivery.at
           /\ \A p \in Alerting!Places : Cardinality(Copies(received', p)) <= AlertRetries + 1
           /\ Cardinality(Copies(received', delivery.at)) <= delivery.attempt + 1
           /\ \A p : p # delivery.at => Cardinality(Copies(received', p)) = Cardinality(Copies(received, p))
           /\ {received[i] : i \in DOMAIN received} \subseteq {received'[i] : i \in DOMAIN received'}
           /\ received' # received => delivery.at \in {received'[i] : i \in DOMAIN received'}
<1> DEFINE a == delivery.at
<1>1. /\ a \in Alerting!Places /\ received \in Seq(Alerting!Places) /\ delivery.attempt \in 0 .. AlertRetries
      /\ AlertRetries \in Nat /\ a \in Nat /\ \A p \in Alerting!Places : p \in Nat
  BY OperationsAssumption DEF WebhookInv, Alerting!Places
<1>2. \A p : Cardinality(Copies(received, p)) \in Nat
  BY <1>1, CopiesFinite
<1>3. CASE received' = received
  BY <1>1, <1>2, <1>3 DEF WebhookInv
<1>4. CASE received' = Append(received, a)
  <2> DEFINE n == Len(received) + 1
  <2>1. /\ received' \in Seq(Alerting!Places) /\ DOMAIN received = 1 .. Len(received)
        /\ DOMAIN received' = 1 .. n /\ received'[n] = a
        /\ \A i \in 1 .. Len(received) : received'[i] = received[i]
        /\ Len(received) \in Nat
    BY <1>1, <1>4, Appended
  <2>2. \A p : Cardinality(Copies(received', p)) =
                   IF p = a THEN Cardinality(Copies(received, p)) + 1 ELSE Cardinality(Copies(received, p))
    BY <1>1, <1>4, CopiesAppend
  <2>3. \A i \in 1 .. n : i \in 1 .. Len(received) \/ i = n
    BY <2>1
  <2>4. \A i \in DOMAIN received' : received'[i] \in Nat /\ received'[i] <= a
    BY <1>1, <2>1, <2>3 DEF WebhookInv
  <2>5. \A i, j \in DOMAIN received' : i < j => received'[i] <= received'[j]
    BY <2>1, <2>3, <2>4 DEF WebhookInv
  <2>6. /\ Cardinality(Copies(received', a)) <= delivery.attempt + 1
        /\ \A p \in Alerting!Places : Cardinality(Copies(received', p)) <= AlertRetries + 1
    <3>1. /\ Cardinality(Copies(received, a)) <= delivery.attempt
          /\ \A p \in Alerting!Places : Cardinality(Copies(received, p)) <= AlertRetries + 1
      BY DEF WebhookInv
    <3>2. delivery.attempt \in Nat /\ delivery.attempt <= AlertRetries
      BY <1>1
    <3> HIDE DEF a
    <3>3. /\ Cardinality(Copies(received', a)) = Cardinality(Copies(received, a)) + 1
          /\ Cardinality(Copies(received, a)) \in Nat
      BY <1>2, <2>2
    <3>4. /\ Cardinality(Copies(received', a)) <= delivery.attempt + 1
          /\ Cardinality(Copies(received', a)) <= AlertRetries + 1
      BY <1>1, <3>1, <3>2, <3>3
    <3>5. \A p \in Alerting!Places \ {a} : Cardinality(Copies(received', p)) <= AlertRetries + 1
      BY <2>2, <3>1
    <3> QED
      BY <3>4, <3>5
  <2>7. /\ {received[i] : i \in DOMAIN received} \subseteq {received'[i] : i \in DOMAIN received'}
        /\ a \in {received'[i] : i \in DOMAIN received'}
    BY <2>1
  <2> QED
    BY <1>1, <2>1, <2>2, <2>4, <2>5, <2>6, <2>7
<1> QED
  BY <1>3, <1>4

\* The next alert, with the one before it counted.
LEMMA WebhookAdvances ==
    ASSUME WebhookInv, delivery.at <= alerts, received' \in {received, Append(received, delivery.at)},
           alerts' = alerts, NEW field \in {"delivered", "failed"}, delivery' = Alerting!After(field),
           field = "delivered" => received' # received
    PROVE  WebhookInv'
<1> DEFINE a == delivery.at
<1>1. /\ a \in Alerting!Places /\ received' \in Seq(Alerting!Places)
      /\ \A i, j \in DOMAIN received' : i < j => received'[i] <= received'[j]
      /\ \A i \in DOMAIN received' : received'[i] <= a
      /\ \A p \in Alerting!Places : Cardinality(Copies(received', p)) <= AlertRetries + 1
      /\ {received[i] : i \in DOMAIN received} \subseteq {received'[i] : i \in DOMAIN received'}
      /\ received' # received => a \in {received'[i] : i \in DOMAIN received'}
  BY WebhookReceives
<1>2. /\ alerts \in 0 .. MaxAlerts /\ a \in 1 .. MaxAlerts + 1 /\ AlertRetries \in Nat /\ MaxAlerts \in Nat
      /\ delivery \in [at : 1 .. MaxAlerts + 1, attempt : 0 .. AlertRetries,
                       delivered : SUBSET Alerting!Places, failed : SUBSET Alerting!Places]
      /\ delivery.delivered \subseteq {received[i] : i \in DOMAIN received}
      /\ delivery.delivered \cap delivery.failed = {} /\ delivery.delivered \cup delivery.failed = 1 .. a - 1
  BY OperationsAssumption DEF WebhookInv
<1>3. /\ delivery' = [at |-> a + 1, attempt |-> 0,
                      delivered |-> IF field = "delivered" THEN delivery.delivered \cup {a} ELSE delivery.delivered,
                      failed |-> IF field = "failed" THEN delivery.failed \cup {a} ELSE delivery.failed]
  <2>1. CASE field = "delivered"
    BY <1>2, <2>1 DEF Alerting!After
  <2>2. CASE field = "failed"
    BY <1>2, <2>2 DEF Alerting!After
  <2> QED
    BY <2>1, <2>2
<1>4. /\ a + 1 \in 1 .. MaxAlerts + 1 /\ a + 1 <= alerts + 1 /\ a \in Nat /\ 0 \in 0 .. AlertRetries
      /\ 1 .. (a + 1) - 1 = (1 .. a - 1) \cup {a} /\ a \notin 1 .. a - 1
  BY <1>2
<1>5. \A i \in DOMAIN received' : received'[i] <= a + 1 /\ received'[i] # a + 1
  <2>1. \A i \in DOMAIN received' : received'[i] \in Nat
    <3>1. \A i \in DOMAIN received' : received'[i] \in Alerting!Places
      BY <1>1
    <3> QED
      BY <3>1 DEF Alerting!Places
  <2> QED
    BY <1>1, <1>4, <2>1
<1>6. Cardinality(Copies(received', a + 1)) = 0
  BY <1>1, <1>5, CopiesFinite
<1>7. /\ delivery' \in [at : 1 .. MaxAlerts + 1, attempt : 0 .. AlertRetries,
                        delivered : SUBSET Alerting!Places, failed : SUBSET Alerting!Places]
      /\ delivery'.at = a + 1 /\ delivery'.attempt = 0
  BY <1>1, <1>2, <1>3, <1>4
<1>8. /\ delivery'.delivered \subseteq {received'[i] : i \in DOMAIN received'}
      /\ delivery'.delivered \cap delivery'.failed = {}
      /\ delivery'.delivered \cup delivery'.failed = 1 .. (a + 1) - 1
  <2>1. CASE field = "delivered"
    <3>1. /\ delivery'.delivered = delivery.delivered \cup {a} /\ delivery'.failed = delivery.failed
          /\ a \in {received'[i] : i \in DOMAIN received'}
      BY <1>1, <1>3, <2>1
    <3> HIDE DEF a
    <3> QED
      BY <1>1, <1>2, <1>4, <3>1
  <2>2. CASE field = "failed"
    <3>1. delivery'.delivered = delivery.delivered /\ delivery'.failed = delivery.failed \cup {a}
      BY <1>3, <2>2
    <3> HIDE DEF a
    <3> QED
      BY <1>1, <1>2, <1>4, <3>1
  <2> QED
    BY <2>1, <2>2
<1>9. alerts' \in 0 .. MaxAlerts /\ a + 1 <= alerts' + 1
  BY <1>2, <1>4
<1> HIDE DEF a
<1> QED
  BY <1>1, <1>5, <1>6, <1>7, <1>8, <1>9 DEF WebhookInv

LEMMA WebhookStep ==
    ASSUME WebhookInv, [Alerting!WebhookNext]_webhook
    PROVE  WebhookInv'
<1>1. CASE UNCHANGED webhook
  BY <1>1 DEF webhook, WebhookInv
<1>2. CASE Alerting!Accepted
  <2>1. /\ delivery.at <= alerts /\ received' = Append(received, delivery.at) /\ alerts' = alerts
        /\ delivery' = Alerting!After("delivered")
    BY <1>2 DEF Alerting!Accepted, Alerting!Posting
  <2>2. received' # received
    BY <2>1, WebhookReceives DEF WebhookInv
  <2> QED
    BY <2>1, <2>2, WebhookAdvances
<1>3. ASSUME NEW transient \in BOOLEAN, NEW taken \in BOOLEAN, Alerting!Fails(transient, taken)
      PROVE  WebhookInv'
  <2>1. /\ delivery.at <= alerts /\ received' \in {received, Append(received, delivery.at)} /\ alerts' = alerts
    BY <1>3 DEF Alerting!Fails, Alerting!Posting
  <2>2. CASE Alerting!GivesUp(transient)
    BY <1>3, <2>1, <2>2, WebhookAdvances DEF Alerting!Fails
  <2>3. CASE ~Alerting!GivesUp(transient)
    <3>1. /\ delivery' = [delivery EXCEPT !.attempt = @ + 1] /\ delivery.attempt # AlertRetries
      BY <1>3, <2>3 DEF Alerting!Fails, Alerting!GivesUp
    <3>2. /\ delivery' \in [at : 1 .. MaxAlerts + 1, attempt : 0 .. AlertRetries,
                            delivered : SUBSET Alerting!Places, failed : SUBSET Alerting!Places]
          /\ delivery'.at = delivery.at /\ delivery'.attempt = delivery.attempt + 1
          /\ delivery'.delivered = delivery.delivered /\ delivery'.failed = delivery.failed
      <4>1. /\ delivery \in [at : 1 .. MaxAlerts + 1, attempt : 0 .. AlertRetries,
                             delivered : SUBSET Alerting!Places, failed : SUBSET Alerting!Places]
        BY DEF WebhookInv
      <4>2. delivery.attempt + 1 \in 0 .. AlertRetries
        <5>1. AlertRetries \in Nat
          BY OperationsAssumption
        <5>2. delivery.attempt \in 0 .. AlertRetries /\ delivery.attempt # AlertRetries
          BY <3>1, <4>1
        <5> QED
          BY <5>1, <5>2
      <4> QED
        BY <3>1, <4>1, <4>2
    <3>3. /\ received' \in Seq(Alerting!Places)
          /\ \A i, j \in DOMAIN received' : i < j => received'[i] <= received'[j]
          /\ \A i \in DOMAIN received' : received'[i] <= delivery.at
          /\ \A p \in Alerting!Places : Cardinality(Copies(received', p)) <= AlertRetries + 1
          /\ Cardinality(Copies(received', delivery.at)) <= delivery.attempt + 1
          /\ {received[i] : i \in DOMAIN received} \subseteq {received'[i] : i \in DOMAIN received'}
      BY <2>1, WebhookReceives
    <3> QED
      BY <2>1, <3>2, <3>3 DEF WebhookInv
  <2> QED
    BY <2>2, <2>3
<1> QED
  BY <1>1, <1>2, <1>3 DEF Alerting!WebhookNext

LEMMA WebhookInitially ==
    ASSUME Alerting!WebhookInit
    PROVE  WebhookInv
<1>1. /\ received = <<>> /\ alerts \in 0 .. MaxAlerts
      /\ delivery = [at |-> 1, attempt |-> 0, delivered |-> {}, failed |-> {}]
  BY DEF Alerting!WebhookInit
<1>2. received \in Seq(Alerting!Places) /\ DOMAIN received = {}
  BY <1>1
<1>3. \A p : Cardinality(Copies(received, p)) = 0
  BY <1>2, CopiesFinite
<1>4. 1 \in 1 .. MaxAlerts + 1 /\ 0 \in 0 .. AlertRetries /\ 1 .. 1 - 1 = {} /\ 0 <= AlertRetries + 1
  BY OperationsAssumption
<1> QED
  BY <1>1, <1>2, <1>3, <1>4 DEF WebhookInv
-----------------------------------------------------------------------------
(* A message on its way through the core. *)

LEMMA BeginsWhole ==
    ASSUME NEW S, NEW s \in Seq(S), NEW t \in Seq(S), Core!Begins(s, t), Len(s) = Len(t)
    PROVE  s = t
BY DEF Core!Begins

LEMMA BeginsSelf ==
    ASSUME NEW S, NEW s \in Seq(S)
    PROVE  Core!Begins(s, s) /\ Core!Begins(<<>>, s) /\ <<>> \in Seq(S) /\ Len(s) \in Nat /\ (Len(s) = 0 <=> s = <<>>)
BY DEF Core!Begins

\* One element more of what is begun with, or behind what begins it.
LEMMA BeginsAppend ==
    ASSUME NEW S, NEW s \in Seq(S), NEW t \in Seq(S), Core!Begins(s, t), NEW x \in S
    PROVE  /\ (Len(s) < Len(t) /\ x = t[Len(s) + 1]) => Core!Begins(Append(s, x), t)
           /\ Core!Begins(s, Append(t, x))
           /\ Append(s, x) \in Seq(S) /\ Len(Append(s, x)) = Len(s) + 1 /\ Append(s, x) # <<>>
           /\ Append(s, x)[Len(s) + 1] = x
<1>1. /\ Len(s) \in Nat /\ Len(t) \in Nat /\ Len(s) <= Len(t)
      /\ Append(s, x) \in Seq(S) /\ Len(Append(s, x)) = Len(s) + 1
      /\ Append(s, x)[Len(s) + 1] = x /\ \A i \in 1 .. Len(s) : Append(s, x)[i] = s[i]
      /\ Len(Append(t, x)) = Len(t) + 1 /\ \A i \in 1 .. Len(t) : Append(t, x)[i] = t[i]
  BY Appended DEF Core!Begins
<1>2. Append(s, x) # <<>>
  BY <1>1
<1>3. \A i \in 1 .. Len(s) + 1 : i \in 1 .. Len(s) \/ i = Len(s) + 1
  BY <1>1
<1>4. (Len(s) < Len(t) /\ x = t[Len(s) + 1]) => Core!Begins(Append(s, x), t)
  BY <1>1, <1>3 DEF Core!Begins
<1>5. Core!Begins(s, Append(t, x))
  BY <1>1 DEF Core!Begins
<1> QED
  BY <1>1, <1>2, <1>4, <1>5

\* What a message has on its way: the scanners first, then one recipient after another.
CoreScans(m) ==
    /\ m.reserved = <<>> /\ m.delivered = <<>> /\ m.deferred = <<>> /\ m.notified = <<>>
    /\ m.at = 1 /\ m.queued = "none" /\ m.answer = "none"
    /\ m.stage = "clamav" => m.rspamd \in {"accept", "no_action", "ok"}

CoreClean(m) == m.rspamd \in {"accept", "no_action", "ok"} /\ m.clamav = "clean"

CoreDelivers(m) ==
    /\ CoreClean(m) /\ path = "inbound" /\ m.queued = "none" /\ m.answer = "none"
    /\ m.at >= 1 /\ m.at <= (IF m.stage = "recipients" THEN Len(resolved) + 1 ELSE Len(resolved))
    /\ Len(m.reserved) = (IF m.stage = "recipients" THEN m.at - 1 ELSE m.at)
    /\ Len(m.delivered) + Len(m.deferred) = (IF m.stage = "accepted" THEN m.at ELSE m.at - 1)
    /\ Len(m.delivered) = (IF m.stage = "accepted" THEN Len(m.notified) + 1 ELSE Len(m.notified))
    /\ m.stage = "accepted" => m.delivered[Len(m.notified) + 1] = resolved[m.at]
    /\ m.deferred = <<>> => Core!Begins(m.delivered, resolved)

\* What one has however far it came.
CoreAlways(m) ==
    /\ m \in Core!Messages
    /\ m.reserved # <<>> => CoreClean(m)
    /\ m.queued \in {"delivery", "submission"} => CoreClean(m)
    /\ Len(m.delivered) <= Len(m.reserved)
    /\ Core!Begins(m.reserved, resolved) /\ Core!Begins(m.notified, m.delivered)

CoreDone(m) ==
    /\ m.answer # "none"
    /\ m.answer = "delivered" => m.delivered = resolved /\ m.notified = resolved /\ m.queued = "none"
    /\ m.answer \in {"partial", "deferred"} /\ path = "inbound" =>
           m.queued # "none" /\ m.notified = m.delivered
    /\ m.answer \in {"rejected", "quarantined", "error"} => m.queued = "none"

CoreOn(m) ==
    /\ CoreAlways(m)
    /\ m.stage \in {"rspamd", "clamav"} => CoreScans(m)
    /\ m.stage \in {"recipients", "reserved", "accepted"} => CoreDelivers(m)
    /\ m.stage = "answered" => CoreDone(m)

CoreInv == path \in {"inbound", "submission"} /\ resolved \in Seq(Members) /\ CoreOn(message)

LEMMA CoreHolds ==
    ASSUME CoreInv
    PROVE  Core!CoreTypeOK /\ Core!MessageAccounted
BY DEF CoreInv, CoreOn, CoreAlways, Core!Messages, Core!CoreTypeOK, Core!MessageAccounted, Core!Clean, Core!At,
   Core!Stages, CoreScans, CoreDelivers, CoreDone, CoreClean

LEMMA CoreInitially ==
    ASSUME Core!CoreInit
    PROVE  CoreInv
<1>1. resolved \in Seq(Members)
  BY OperationsAssumption DEF Core!CoreInit
<1>2. /\ path \in {"inbound", "submission"}
      /\ message = [stage |-> "rspamd", rspamd |-> "missing", clamav |-> "missing", at |-> 1,
                    reserved |-> <<>>, delivered |-> <<>>, deferred |-> <<>>, notified |-> <<>>,
                    queued |-> "none", answer |-> "none"]
  BY DEF Core!CoreInit
<1>3. <<>> \in Seq(Members) /\ Len(<<>>) = 0 /\ Core!Begins(<<>>, resolved) /\ Core!Begins(<<>>, <<>>)
  BY <1>1, BeginsSelf
<1>4. CoreAlways(message)
  BY <1>2, <1>3 DEF CoreAlways, Core!Messages, Core!Stages, Core!RspamdReplies, Core!ClamAvReplies,
     Core!Queued, Core!Answers
<1>5. CoreScans(message) /\ message.stage = "rspamd"
  BY <1>2 DEF CoreScans
<1> QED
  BY <1>1, <1>2, <1>4, <1>5 DEF CoreInv, CoreOn

LEMMA CoreMessage ==
    ASSUME CoreInv
    PROVE  /\ message = [stage |-> message.stage, rspamd |-> message.rspamd, clamav |-> message.clamav,
                         at |-> message.at, reserved |-> message.reserved, delivered |-> message.delivered,
                         deferred |-> message.deferred, notified |-> message.notified,
                         queued |-> message.queued, answer |-> message.answer]
           /\ message.stage \in Core!Stages /\ message.rspamd \in Core!RspamdReplies
           /\ message.clamav \in Core!ClamAvReplies /\ message.at \in Nat
           /\ message.reserved \in Seq(Members) /\ message.delivered \in Seq(Members)
           /\ message.deferred \in Seq(Members) /\ message.notified \in Seq(Members)
           /\ message.queued \in Core!Queued /\ message.answer \in Core!Answers
           /\ resolved \in Seq(Members) /\ path \in {"inbound", "submission"}
BY DEF CoreInv, CoreOn, CoreAlways, Core!Messages

\* A message as it is after a step that answers it.
LEMMA CoreAnswered ==
    ASSUME CoreInv, UNCHANGED <<path, resolved>>, NEW r \in Core!RspamdReplies, NEW c \in Core!ClamAvReplies,
           NEW q \in Core!Queued, NEW a \in Core!Answers,
           message' = [stage |-> "answered", rspamd |-> r, clamav |-> c,
                       at |-> message.at, reserved |-> message.reserved, delivered |-> message.delivered,
                       deferred |-> message.deferred, notified |-> message.notified,
                       queued |-> q, answer |-> a],
           message.reserved = <<>> \/ (r = message.rspamd /\ c = message.clamav),
           q \in {"delivery", "submission"} => r \in {"accept", "no_action", "ok"} /\ c = "clean",
           a # "none",
           a = "delivered" => message.delivered = resolved /\ message.notified = resolved /\ q = "none",
           a \in {"partial", "deferred"} /\ path = "inbound" => q # "none" /\ message.notified = message.delivered,
           a \in {"rejected", "quarantined", "error"} => q = "none"
    PROVE  CoreInv'
BY CoreMessage DEF Core!Messages, Core!Stages, CoreAlways, CoreInv, CoreOn, CoreClean, CoreDone

\* The first scanner: it ends here, or goes on to the second.
LEMMA CoreScansRspamd ==
    ASSUME CoreInv, NEW reply \in Core!RspamdReplies, Core!ScanRspamd(reply)
    PROVE  CoreInv'
<1> DEFINE action == Core!RspamdAction(reply)
           m == [message EXCEPT !.rspamd = reply]
<1>1. /\ message.stage = "rspamd" /\ UNCHANGED <<path, resolved>>
      /\ message' = CASE action = "reject" -> Core!Answer(m, "rejected")
                      [] action = "quarantine" -> Core!Answer(m, "quarantined")
                      [] action \in {"soft_reject", "unavailable"} -> Core!Deferred(m)
                      [] OTHER -> [m EXCEPT !.stage = "clamav"]
  BY DEF Core!ScanRspamd, Core!At, Core!Become
<1>2. CoreScans(message)
  BY <1>1 DEF CoreInv, CoreOn
<1>3. CASE action \in {"reject", "quarantine", "soft_reject", "unavailable"}
  <2> DEFINE q == IF action \in {"soft_reject", "unavailable"} /\ path = "inbound" THEN "scanner" ELSE "none"
             a == IF action = "reject" THEN "rejected" ELSE IF action = "quarantine" THEN "quarantined" ELSE "deferred"
  <2>1. q \in Core!Queued /\ a \in Core!Answers
    BY DEF Core!Queued, Core!Answers
  <2>2. message' = [stage |-> "answered", rspamd |-> reply, clamav |-> message.clamav,
                    at |-> message.at, reserved |-> message.reserved, delivered |-> message.delivered,
                    deferred |-> message.deferred, notified |-> message.notified, queued |-> q, answer |-> a]
    <3>1. message.queued = "none"
      BY <1>2 DEF CoreScans
    <3> HIDE DEF action
    <3> QED
      BY <1>1, <1>3, <3>1, CoreMessage DEF Core!Answer, Core!Deferred
  <2>3. /\ message.clamav \in Core!ClamAvReplies /\ message.reserved = <<>>
        /\ q \notin {"delivery", "submission"} /\ a \notin {"none", "delivered", "partial"}
        /\ (a = "deferred" /\ path = "inbound") => q # "none" /\ message.notified = message.delivered
        /\ a \in {"rejected", "quarantined", "error"} => q = "none"
    BY <1>2, <1>3, CoreMessage DEF CoreScans
  <2> HIDE DEF q, a
  <2> QED
    BY <1>1, <2>1, <2>2, <2>3, CoreAnswered
<1>4. CASE action \notin {"reject", "quarantine", "soft_reject", "unavailable"}
  <2>1. message' = [m EXCEPT !.stage = "clamav"]
    BY <1>1, <1>4
  <2>2. reply \in {"accept", "no_action", "ok"}
    BY <1>4 DEF Core!RspamdAction, Core!RspamdReplies
  <2>3. message' = [stage |-> "clamav", rspamd |-> reply, clamav |-> message.clamav,
                    at |-> message.at, reserved |-> message.reserved, delivered |-> message.delivered,
                    deferred |-> message.deferred, notified |-> message.notified,
                    queued |-> message.queued, answer |-> message.answer]
    BY <2>1, CoreMessage
  <2>4. message' \in Core!Messages
    BY <2>3, CoreMessage DEF Core!Messages, Core!Stages
  <2>5. CoreAlways(message)' /\ CoreScans(message)'
    BY <1>1, <1>2, <2>2, <2>3, <2>4 DEF CoreAlways, CoreScans, CoreInv, CoreOn
  <2> QED
    BY <1>1, <2>3, <2>5, CoreMessage DEF CoreInv, CoreOn
<1> QED
  BY <1>3, <1>4

\* The second scanner: only what both let pass is queued or delivered.
LEMMA CoreScansClamAv ==
    ASSUME CoreInv, NEW reply \in Core!ClamAvReplies, Core!ScanClamAv(reply)
    PROVE  CoreInv'
<1> DEFINE status == Core!ClamAvStatus(reply)
           m == [message EXCEPT !.clamav = reply]
<1>1. /\ message.stage = "clamav" /\ UNCHANGED <<path, resolved>>
      /\ message' = CASE status = "infected" -> Core!Answer(m, "quarantined")
                      [] status = "unavailable" -> Core!Deferred(m)
                      [] status = "clean" /\ path = "submission" -> Core!Answer([m EXCEPT !.queued = "submission"], "queued")
                      [] OTHER -> [m EXCEPT !.stage = "recipients"]
  BY DEF Core!ScanClamAv, Core!At, Core!Become
<1>2. CoreScans(message) /\ message.rspamd \in {"accept", "no_action", "ok"}
  BY <1>1 DEF CoreInv, CoreOn, CoreScans
<1>3. status \in {"infected", "unavailable", "clean"} /\ (status = "clean" => reply = "clean")
  BY DEF Core!ClamAvStatus, Core!ClamAvReplies
<1>4. CASE status \in {"infected", "unavailable"} \/ path = "submission"
  <2> DEFINE q == IF status = "infected" THEN "none"
                  ELSE IF status = "unavailable" THEN IF path = "inbound" THEN "scanner" ELSE "none"
                  ELSE "submission"
             a == IF status = "infected" THEN "quarantined"
                  ELSE IF status = "unavailable" THEN "deferred" ELSE "queued"
  <2>1. q \in Core!Queued /\ a \in Core!Answers
    BY DEF Core!Queued, Core!Answers
  <2>2. message' = [stage |-> "answered", rspamd |-> message.rspamd, clamav |-> reply,
                    at |-> message.at, reserved |-> message.reserved, delivered |-> message.delivered,
                    deferred |-> message.deferred, notified |-> message.notified, queued |-> q, answer |-> a]
    <3>1. message.queued = "none"
      BY <1>2 DEF CoreScans
    <3> HIDE DEF status
    <3>2. CASE status = "infected"
      BY <1>1, <3>1, <3>2, CoreMessage DEF Core!Answer
    <3>3. CASE status = "unavailable"
      BY <1>1, <3>1, <3>3, CoreMessage DEF Core!Answer, Core!Deferred
    <3>4. CASE status \notin {"infected", "unavailable"} /\ path = "submission"
      BY <1>1, <1>3, <3>4, CoreMessage DEF Core!Answer
    <3> QED
      BY <1>4, <3>2, <3>3, <3>4
  <2>3. /\ message.rspamd \in Core!RspamdReplies /\ message.reserved = <<>>
        /\ q \in {"delivery", "submission"} => message.rspamd \in {"accept", "no_action", "ok"} /\ reply = "clean"
        /\ a \notin {"none", "delivered", "partial"}
        /\ (a = "deferred" /\ path = "inbound") => q # "none" /\ message.notified = message.delivered
        /\ a \in {"rejected", "quarantined", "error"} => q = "none"
    BY <1>2, <1>3, <1>4, CoreMessage DEF CoreScans
  <2> HIDE DEF q, a
  <2> QED
    BY <1>1, <2>1, <2>2, <2>3, CoreAnswered
<1>5. CASE status \notin {"infected", "unavailable"} /\ path # "submission"
  <2>1. message' = [m EXCEPT !.stage = "recipients"] /\ path = "inbound"
    BY <1>1, <1>5, CoreMessage
  <2>2. message' = [stage |-> "recipients", rspamd |-> message.rspamd, clamav |-> reply,
                    at |-> message.at, reserved |-> message.reserved, delivered |-> message.delivered,
                    deferred |-> message.deferred, notified |-> message.notified,
                    queued |-> message.queued, answer |-> message.answer]
    BY <2>1, CoreMessage
  <2>3. message' \in Core!Messages
    BY <2>2, CoreMessage DEF Core!Messages, Core!Stages
  <2>4. CoreAlways(message)'
    BY <1>1, <1>2, <2>2, <2>3 DEF CoreAlways, CoreScans, CoreInv, CoreOn
  <2>5. Core!Begins(<<>>, resolved) /\ Len(<<>>) = 0 /\ Len(resolved) \in Nat
    BY CoreMessage, BeginsSelf
  <2>6. /\ message'.reserved = <<>> /\ message'.delivered = <<>> /\ message'.deferred = <<>>
        /\ message'.notified = <<>> /\ message'.at = 1 /\ message'.queued = "none"
        /\ message'.answer = "none" /\ message'.stage = "recipients"
        /\ message'.rspamd \in {"accept", "no_action", "ok"} /\ message'.clamav = "clean"
    BY <1>2, <1>3, <1>5, <2>2 DEF CoreScans
  <2>7. CoreDelivers(message)'
    <3>1. CoreClean(message)' /\ path' = "inbound"
      BY <1>1, <2>1, <2>6 DEF CoreClean
    <3>2. Len(message'.reserved) = 0 /\ Len(message'.delivered) = 0 /\ Len(message'.deferred) = 0
          /\ Len(message'.notified) = 0 /\ Core!Begins(message'.delivered, resolved') /\ Len(resolved') \in Nat
      BY <1>1, <2>5, <2>6
    <3> QED
      BY <3>1, <3>2, <2>6 DEF CoreDelivers
  <2> QED
    BY <1>1, <2>2, <2>4, <2>7, CoreMessage DEF CoreInv, CoreOn
<1> QED
  BY <1>4, <1>5

\* What deliveries have as long as none is answered.
LEMMA CoreDelivering ==
    ASSUME CoreInv, message.stage \in {"recipients", "reserved", "accepted"}
    PROVE  /\ CoreDelivers(message) /\ CoreClean(message)
           /\ message.at <= Len(resolved) => message.at \in 1 .. Len(resolved) /\ resolved[message.at] \in Members
           /\ Len(resolved) \in Nat /\ Len(message.reserved) \in Nat /\ Len(message.delivered) \in Nat
           /\ Len(message.deferred) \in Nat /\ Len(message.notified) \in Nat
           /\ Core!Begins(message.reserved, resolved) /\ Core!Begins(message.notified, message.delivered)
           /\ Len(message.delivered) <= Len(message.reserved)
<1>1. CoreDelivers(message) /\ Core!Begins(message.reserved, resolved) /\ Core!Begins(message.notified, message.delivered)
      /\ Len(message.delivered) <= Len(message.reserved)
  BY DEF CoreInv, CoreOn, CoreAlways
<1>2. /\ Len(resolved) \in Nat /\ Len(message.reserved) \in Nat /\ Len(message.delivered) \in Nat
      /\ Len(message.deferred) \in Nat /\ Len(message.notified) \in Nat
  BY CoreMessage
<1>3. message.at >= 1 /\ message.at \in Nat
  BY <1>1, CoreMessage DEF CoreDelivers
<1>4. message.at <= Len(resolved) => message.at \in 1 .. Len(resolved)
  BY <1>2, <1>3
<1>5. message.at \in 1 .. Len(resolved) => resolved[message.at] \in Members
  BY CoreMessage
<1> QED
  BY <1>1, <1>2, <1>4, <1>5 DEF CoreDelivers

LEMMA CoreReserves ==
    ASSUME CoreInv, Core!Reserve
    PROVE  CoreInv'
<1> DEFINE x == resolved[message.at]
<1>1. /\ message.stage = "recipients" /\ message.at <= Len(resolved) /\ UNCHANGED <<path, resolved>>
      /\ message' = [stage |-> "reserved", rspamd |-> message.rspamd, clamav |-> message.clamav,
                     at |-> message.at, reserved |-> Append(message.reserved, x),
                     delivered |-> message.delivered, deferred |-> message.deferred,
                     notified |-> message.notified, queued |-> message.queued, answer |-> message.answer]
  BY CoreMessage DEF Core!Reserve, Core!More, Core!At, Core!Become, Core!Recipient
<1>2. x \in Members /\ CoreDelivers(message)
  BY <1>1, CoreDelivering
<1>3. Len(message.reserved) = message.at - 1 /\ Len(message.reserved) \in Nat /\ message.at \in Nat /\ Len(resolved) \in Nat
  BY <1>1, <1>2, CoreDelivering, CoreMessage DEF CoreDelivers
<1>4. /\ Core!Begins(Append(message.reserved, x), resolved) /\ Append(message.reserved, x) \in Seq(Members)
      /\ Len(Append(message.reserved, x)) = message.at
  <2>1. Len(message.reserved) < Len(resolved) /\ message.at = Len(message.reserved) + 1
    BY <1>1, <1>3
  <2>2. x = resolved[Len(message.reserved) + 1]
    BY <2>1
  <2>3. Core!Begins(message.reserved, resolved)
    BY <1>1, CoreDelivering
  <2> HIDE DEF x
  <2> QED
    BY <1>1, <1>2, <1>3, <2>1, <2>2, <2>3, CoreMessage, BeginsAppend
<1> HIDE DEF x
<1>5. message' \in Core!Messages
  BY <1>1, <1>4, CoreMessage DEF Core!Messages, Core!Stages
<1>6. CoreAlways(message)'
  BY <1>1, <1>3, <1>4, <1>5, CoreDelivering DEF CoreAlways, CoreClean
<1>7. CoreDelivers(message)'
  BY <1>1, <1>2, <1>3, <1>4 DEF CoreDelivers, CoreClean
<1> QED
  BY <1>1, <1>6, <1>7, CoreMessage DEF CoreInv, CoreOn

LEMMA CoreTakes ==
    ASSUME CoreInv, Core!LmtpTakes
    PROVE  CoreInv'
<1> DEFINE x == resolved[message.at]
<1>1. /\ message.stage = "reserved" /\ UNCHANGED <<path, resolved>>
      /\ message' = [stage |-> "accepted", rspamd |-> message.rspamd, clamav |-> message.clamav,
                     at |-> message.at, reserved |-> message.reserved,
                     delivered |-> Append(message.delivered, x), deferred |-> message.deferred,
                     notified |-> message.notified, queued |-> message.queued, answer |-> message.answer]
  BY CoreMessage DEF Core!LmtpTakes, Core!At, Core!Become, Core!Recipient
<1>2. /\ CoreDelivers(message) /\ CoreClean(message) /\ message.at <= Len(resolved)
      /\ Len(message.reserved) = message.at /\ Len(message.delivered) + Len(message.deferred) = message.at - 1
      /\ Len(message.delivered) = Len(message.notified)
  BY <1>1, CoreDelivering DEF CoreDelivers
<1>3. x \in Members
  BY <1>1, <1>2, CoreDelivering
<1>4. /\ Len(message.reserved) \in Nat /\ message.at \in Nat /\ Len(resolved) \in Nat
      /\ Len(message.delivered) \in Nat /\ Len(message.deferred) \in Nat
      /\ Core!Begins(message.reserved, resolved) /\ Core!Begins(message.notified, message.delivered)
  BY <1>1, CoreDelivering, CoreMessage
<1> DEFINE d == Append(message.delivered, x)
<1>5. /\ d \in Seq(Members) /\ Len(d) = Len(message.delivered) + 1 /\ d[Len(message.delivered) + 1] = x
      /\ Core!Begins(message.notified, d)
  <2>1. x \in Members /\ message.delivered \in Seq(Members) /\ message.notified \in Seq(Members)
    BY <1>3, CoreMessage
  <2> HIDE DEF x
  <2> QED
    BY <1>4, <2>1, BeginsAppend, BeginsSelf
<1>6. (message.deferred = <<>>) => Core!Begins(d, resolved)
  <2> SUFFICES ASSUME message.deferred = <<>> PROVE Core!Begins(d, resolved)
    OBVIOUS
  <2>1. Core!Begins(message.delivered, resolved)
    BY <1>2 DEF CoreDelivers
  <2>2. Len(message.deferred) = 0
    BY CoreMessage, BeginsSelf
  <2>3. Len(message.delivered) < Len(resolved) /\ message.at = Len(message.delivered) + 1
    BY <1>2, <1>4, <2>2
  <2>4. x = resolved[Len(message.delivered) + 1]
    BY <2>3
  <2> HIDE DEF x
  <2> QED
    BY <1>3, <2>1, <2>3, <2>4, CoreMessage, BeginsAppend
<1> HIDE DEF x, d
<1>7. message' \in Core!Messages
  BY <1>1, <1>5, CoreMessage DEF Core!Messages, Core!Stages, d
<1> DEFINE n == Len(message.delivered)
           w == Len(message.deferred)
<1>n. Len(d) + Len(message.deferred) = message.at /\ Len(d) <= Len(message.reserved)
  <2>1. n \in Nat /\ w \in Nat /\ message.at \in Nat /\ n + w = message.at - 1
    BY <1>2, <1>4
  <2>2. Len(d) = n + 1 /\ Len(message.deferred) = w /\ Len(message.reserved) = message.at
    BY <1>2, <1>5
  <2> HIDE DEF n, w
  <2>3. (n + 1) + w = message.at /\ n + 1 <= message.at
    BY <2>1
  <2> QED
    BY <2>2, <2>3
<1>f. /\ message'.reserved = message.reserved /\ message'.delivered = d /\ message'.notified = message.notified
      /\ message'.deferred = message.deferred /\ message'.queued = message.queued
      /\ message'.rspamd = message.rspamd /\ message'.clamav = message.clamav
      /\ message'.at = message.at /\ message'.answer = message.answer /\ message'.stage = "accepted"
  BY <1>1 DEF d
<1>8. CoreAlways(message)'
  BY <1>1, <1>2, <1>4, <1>5, <1>7, <1>f, <1>n DEF CoreClean, CoreAlways
<1>9. CoreDelivers(message)'
  BY <1>1, <1>2, <1>4, <1>5, <1>6, <1>f, <1>n DEF CoreDelivers, CoreClean, x
<1> QED
  BY <1>1, <1>8, <1>9, CoreMessage DEF CoreInv, CoreOn

LEMMA CoreDefers ==
    ASSUME CoreInv, Core!LmtpDefers
    PROVE  CoreInv'
<1> DEFINE x == resolved[message.at]
           d == Append(message.deferred, x)
<1>1. /\ message.stage = "reserved" /\ UNCHANGED <<path, resolved>>
      /\ message' = [stage |-> "recipients", rspamd |-> message.rspamd, clamav |-> message.clamav,
                     at |-> message.at + 1, reserved |-> message.reserved,
                     delivered |-> message.delivered, deferred |-> d,
                     notified |-> message.notified, queued |-> message.queued, answer |-> message.answer]
  <2>1. message' = Core!NextOne([message EXCEPT !.deferred = d])
    BY DEF Core!LmtpDefers, Core!Become, Core!Recipient
  <2> HIDE DEF d
  <2>2. message.stage = "reserved" /\ UNCHANGED <<path, resolved>>
    BY DEF Core!LmtpDefers, Core!At, Core!Become
  <2> QED
    BY <2>1, <2>2, CoreMessage DEF Core!NextOne
<1>2. /\ CoreDelivers(message) /\ CoreClean(message) /\ message.at <= Len(resolved)
      /\ Len(message.reserved) = message.at /\ Len(message.delivered) + Len(message.deferred) = message.at - 1
      /\ Len(message.delivered) = Len(message.notified) /\ message.at >= 1
      /\ path = "inbound" /\ message.queued = "none" /\ message.answer = "none"
  BY <1>1, CoreDelivering DEF CoreDelivers
<1>3. x \in Members
  BY <1>1, <1>2, CoreDelivering
<1>4. /\ message.at \in Nat /\ Len(resolved) \in Nat /\ Len(message.delivered) \in Nat /\ Len(message.deferred) \in Nat
      /\ Core!Begins(message.reserved, resolved) /\ Core!Begins(message.notified, message.delivered)
      /\ Len(message.delivered) <= Len(message.reserved)
  BY <1>1, CoreDelivering, CoreMessage
<1>5. d \in Seq(Members) /\ Len(d) = Len(message.deferred) + 1 /\ d # <<>>
  <2> HIDE DEF x
  <2> QED
    BY <1>3, CoreMessage, BeginsAppend, BeginsSelf
<1> HIDE DEF x, d
<1>6. /\ message'.reserved = message.reserved /\ message'.delivered = message.delivered
      /\ message'.notified = message.notified /\ message'.deferred = d /\ message'.queued = message.queued
      /\ message'.rspamd = message.rspamd /\ message'.clamav = message.clamav
      /\ message'.at = message.at + 1 /\ message'.answer = message.answer /\ message'.stage = "recipients"
  BY <1>1
<1>7. message' \in Core!Messages
  BY <1>1, <1>5, CoreMessage DEF Core!Messages, Core!Stages
<1>8. CoreClean(message)'
  BY <1>2, <1>6 DEF CoreClean
<1>9. CoreAlways(message)'
  BY <1>1, <1>4, <1>6, <1>7, <1>8 DEF CoreAlways
<1> DEFINE n == Len(message.delivered)
           w == Len(message.deferred)
<1>n. Len(message.delivered) + Len(d) = (message.at + 1) - 1 /\ (message.at + 1) - 1 = message.at
      /\ message.at + 1 >= 1 /\ message.at + 1 <= Len(resolved) + 1
  <2>1. n \in Nat /\ w \in Nat /\ message.at \in Nat /\ n + w = message.at - 1
    BY <1>2, <1>4
  <2>2. Len(d) = w + 1 /\ Len(message.delivered) = n
    BY <1>2, <1>5
  <2> HIDE DEF n, w
  <2>3. n + (w + 1) = (message.at + 1) - 1 /\ (message.at + 1) - 1 = message.at
    BY <2>1
  <2>4. message.at + 1 >= 1 /\ message.at + 1 <= Len(resolved) + 1
    BY <1>2, <1>4
  <2> QED
    BY <2>2, <2>3, <2>4
<1>10. CoreDelivers(message)'
  BY <1>1, <1>2, <1>5, <1>6, <1>8, <1>n DEF CoreDelivers
<1> QED
  BY <1>1, <1>6, <1>9, <1>10, CoreMessage DEF CoreInv, CoreOn

LEMMA CoreNotifies ==
    ASSUME CoreInv, Core!Notify
    PROVE  CoreInv'
<1> DEFINE x == resolved[message.at]
           d == Append(message.notified, x)
<1>1. /\ message.stage = "accepted" /\ UNCHANGED <<path, resolved>>
      /\ message' = [stage |-> "recipients", rspamd |-> message.rspamd, clamav |-> message.clamav,
                     at |-> message.at + 1, reserved |-> message.reserved,
                     delivered |-> message.delivered, deferred |-> message.deferred,
                     notified |-> d, queued |-> message.queued, answer |-> message.answer]
  <2>1. message' = Core!NextOne([message EXCEPT !.notified = d])
    BY DEF Core!Notify, Core!Become, Core!Recipient
  <2> HIDE DEF d
  <2>2. message.stage = "accepted" /\ UNCHANGED <<path, resolved>>
    BY DEF Core!Notify, Core!At, Core!Become
  <2> QED
    BY <2>1, <2>2, CoreMessage DEF Core!NextOne
<1>2. /\ CoreDelivers(message) /\ CoreClean(message) /\ message.at <= Len(resolved)
      /\ Len(message.reserved) = message.at /\ Len(message.delivered) + Len(message.deferred) = message.at
      /\ Len(message.delivered) = Len(message.notified) + 1 /\ message.at >= 1
      /\ message.delivered[Len(message.notified) + 1] = x
      /\ (message.deferred = <<>> => Core!Begins(message.delivered, resolved))
      /\ path = "inbound" /\ message.queued = "none" /\ message.answer = "none"
  BY <1>1, CoreDelivering DEF CoreDelivers
<1>3. x \in Members
  BY <1>1, <1>2, CoreDelivering
<1>4. /\ message.at \in Nat /\ Len(resolved) \in Nat /\ Len(message.delivered) \in Nat /\ Len(message.notified) \in Nat
      /\ Core!Begins(message.reserved, resolved) /\ Core!Begins(message.notified, message.delivered)
      /\ Len(message.delivered) <= Len(message.reserved)
  BY <1>1, CoreDelivering, CoreMessage
<1>5. d \in Seq(Members) /\ Len(d) = Len(message.notified) + 1 /\ Core!Begins(d, message.delivered)
  <2>1. Len(message.notified) < Len(message.delivered)
    BY <1>2, <1>4
  <2>2. message.notified \in Seq(Members) /\ message.delivered \in Seq(Members)
    BY CoreMessage
  <2>3. x = message.delivered[Len(message.notified) + 1]
    BY <1>2
  <2> HIDE DEF x
  <2> QED
    BY <1>3, <1>4, <2>1, <2>2, <2>3, BeginsAppend
<1> HIDE DEF x, d
<1>6. /\ message'.reserved = message.reserved /\ message'.delivered = message.delivered
      /\ message'.notified = d /\ message'.deferred = message.deferred /\ message'.queued = message.queued
      /\ message'.rspamd = message.rspamd /\ message'.clamav = message.clamav
      /\ message'.at = message.at + 1 /\ message'.answer = message.answer /\ message'.stage = "recipients"
  BY <1>1
<1>7. message' \in Core!Messages
  BY <1>1, <1>5, CoreMessage DEF Core!Messages, Core!Stages
<1>8. CoreClean(message)'
  BY <1>2, <1>6 DEF CoreClean
<1>9. CoreAlways(message)'
  BY <1>1, <1>4, <1>5, <1>6, <1>7, <1>8 DEF CoreAlways
<1>n. /\ Len(message.delivered) + Len(message.deferred) = (message.at + 1) - 1 /\ (message.at + 1) - 1 = message.at
      /\ message.at + 1 >= 1 /\ message.at + 1 <= Len(resolved) + 1
  <2>1. message.at + 1 >= 1 /\ message.at + 1 <= Len(resolved) + 1 /\ (message.at + 1) - 1 = message.at
    BY <1>2, <1>4
  <2> QED
    BY <1>2, <2>1
<1>10. CoreDelivers(message)'
  BY <1>1, <1>2, <1>5, <1>6, <1>8, <1>n DEF CoreDelivers
<1> QED
  BY <1>1, <1>6, <1>9, <1>10, CoreMessage DEF CoreInv, CoreOn

\* What ends a delivery in the middle.
LEMMA CoreFails ==
    ASSUME CoreInv,
           Core!ReserveFails \/ Core!NotifyFails \/ \E end \in {"rejected", "error"} : Core!LmtpFails(end)
    PROVE  CoreInv'
<1>1. PICK a \in {"rejected", "error"} :
          /\ message.stage \in {"recipients", "reserved", "accepted"} /\ UNCHANGED <<path, resolved>>
          /\ message' = Core!Answer(message, a)
  BY DEF Core!ReserveFails, Core!NotifyFails, Core!LmtpFails, Core!More, Core!At, Core!Become
<1>2. message.queued = "none"
  BY <1>1, CoreDelivering DEF CoreDelivers
<1>3. message' = [stage |-> "answered", rspamd |-> message.rspamd, clamav |-> message.clamav,
                  at |-> message.at, reserved |-> message.reserved, delivered |-> message.delivered,
                  deferred |-> message.deferred, notified |-> message.notified,
                  queued |-> message.queued, answer |-> a]
  BY <1>1, CoreMessage DEF Core!Answer
<1>4. /\ message.rspamd \in Core!RspamdReplies /\ message.clamav \in Core!ClamAvReplies
      /\ message.queued \in Core!Queued /\ a \in Core!Answers
  BY CoreMessage DEF Core!Answers
<1> QED
  BY <1>1, <1>2, <1>3, <1>4, CoreAnswered

LEMMA CoreFinishes ==
    ASSUME CoreInv, Core!Finish
    PROVE  CoreInv'
<1>1. /\ message.stage = "recipients" /\ message.at > Len(resolved) /\ UNCHANGED <<path, resolved>>
      /\ message' = Core!Finished(message)
  BY DEF Core!Finish, Core!At, Core!Become
<1>2. /\ CoreClean(message) /\ message.at = Len(resolved) + 1 /\ message.queued = "none"
      /\ Len(message.delivered) + Len(message.deferred) = message.at - 1
      /\ Len(message.delivered) = Len(message.notified)
      /\ (message.deferred = <<>> => Core!Begins(message.delivered, resolved))
      /\ Core!Begins(message.notified, message.delivered)
      /\ Len(resolved) \in Nat /\ Len(message.delivered) \in Nat /\ Len(message.deferred) \in Nat
  BY <1>1, CoreMessage, CoreDelivering DEF CoreDelivers
<1>3. message.notified = message.delivered
  BY <1>2, CoreMessage, BeginsWhole
<1> DEFINE q == IF message.deferred = <<>> THEN "none" ELSE "delivery"
           a == IF message.deferred = <<>> THEN "delivered"
                ELSE IF message.delivered # <<>> THEN "partial" ELSE "deferred"
<1>4. message.deferred = <<>> => message.delivered = resolved
  <2> SUFFICES ASSUME message.deferred = <<>> PROVE message.delivered = resolved
    OBVIOUS
  <2>1. Len(message.delivered) = Len(resolved)
    BY <1>2, BeginsSelf, CoreMessage
  <2> QED
    BY <1>2, <2>1, CoreMessage, BeginsWhole
<1>5. message' = [stage |-> "answered", rspamd |-> message.rspamd, clamav |-> message.clamav,
                  at |-> message.at, reserved |-> message.reserved, delivered |-> message.delivered,
                  deferred |-> message.deferred, notified |-> message.notified, queued |-> q, answer |-> a]
  <2>1. CASE message.deferred = <<>>
    BY <1>1, <1>2, <2>1, CoreMessage DEF Core!Answer, Core!Finished
  <2>2. CASE message.deferred # <<>>
    BY <1>1, <2>2, CoreMessage DEF Core!Answer, Core!Finished
  <2> QED
    BY <2>1, <2>2
<1>6. /\ message.rspamd \in Core!RspamdReplies /\ message.clamav \in Core!ClamAvReplies
      /\ q \in Core!Queued /\ a \in Core!Answers
  BY CoreMessage DEF Core!Answers, Core!Queued
<1>7. /\ a \notin {"none", "rejected", "quarantined", "error"}
      /\ a = "delivered" => message.delivered = resolved /\ message.notified = resolved /\ q = "none"
      /\ a \in {"partial", "deferred"} => q # "none" /\ message.notified = message.delivered
      /\ message.rspamd \in {"accept", "no_action", "ok"} /\ message.clamav = "clean"
  BY <1>2, <1>3, <1>4 DEF CoreClean
<1> HIDE DEF q, a
<1> QED
  BY <1>1, <1>5, <1>6, <1>7, CoreAnswered

LEMMA CoreStep ==
    ASSUME CoreInv, [Core!CoreNext]_core
    PROVE  CoreInv'
<1>1. CASE UNCHANGED core
  BY <1>1 DEF core, CoreInv, CoreOn, CoreAlways, CoreScans, CoreDelivers, CoreDone, CoreClean
<1>2. CASE Core!CoreNext
  BY <1>2, CoreScansRspamd, CoreScansClamAv, CoreReserves, CoreTakes, CoreDefers, CoreNotifies, CoreFails,
     CoreFinishes DEF Core!CoreNext
<1> QED
  BY <1>1, <1>2
-----------------------------------------------------------------------------
(* The signatures of a scanner. *)

\* What a reader has in hand was active once and whole then, and nobody writes it again.
SignatureInv ==
    /\ Core!SignatureTypeOK /\ Core!StatusIsTrue
    /\ active.previous <= active.current
    /\ active.current # 0 => manifest[active.current].state = "whole"
    /\ active.previous # 0 => manifest[active.previous].state = "whole"
    /\ signatureReader.pointer <= active.current
    /\ signatureReader.pointer # 0 => manifest[signatureReader.pointer].state \in {"absent", "whole"}
    /\ signatureReader.status = "ready" => signatureReader.pointer # 0
    /\ signatureReader.stage = "pointer" =>
           /\ signatureReader.pointer # 0
           /\ signatureReader.pointer + signatureReader.activations <= active.current
           /\ signatureReader.activations = 0 => signatureReader.pointer = active.current
           /\ signatureReader.activations = 1 => signatureReader.pointer = active.previous

LEMMA SignatureHolds ==
    ASSUME SignatureInv
    PROVE  Core!SignatureTypeOK /\ Core!StatusIsTrue
BY DEF SignatureInv

LEMMA SignatureTypes ==
    ASSUME SignatureInv
    PROVE  /\ manifest \in [1 .. MaxGenerations -> Core!Manifests] /\ clock \in 0 .. SignatureTime
           /\ \A g \in 1 .. MaxGenerations :
                  /\ manifest[g].state \in {"absent", "partial", "whole"}
                  /\ manifest[g].publishedAt \in 0 .. SignatureTime + 1
           /\ active = [current |-> active.current, previous |-> active.previous]
           /\ active.current \in 0 .. MaxGenerations /\ active.previous \in 0 .. MaxGenerations
           /\ signatureReader = [stage |-> signatureReader.stage, pointer |-> signatureReader.pointer,
                                 status |-> signatureReader.status, readAt |-> signatureReader.readAt,
                                 activations |-> signatureReader.activations]
           /\ signatureReader.stage \in {"idle", "pointer"} /\ signatureReader.pointer \in 0 .. MaxGenerations
           /\ signatureReader.status \in Core!Statuses /\ signatureReader.readAt \in 0 .. SignatureTime
           /\ signatureReader.activations \in 0 .. MaxGenerations
           /\ MaxGenerations \in Nat /\ SignatureTime \in Nat /\ MaxAge \in Nat
BY OperationsAssumption DEF SignatureInv, Core!SignatureTypeOK, Core!Readers, Core!Generations, Core!Manifests

LEMMA SignatureInitially ==
    ASSUME Core!SignatureInit
    PROVE  SignatureInv
BY OperationsAssumption DEF Core!Absent, Core!Manifests, Core!SignatureInit, Core!SignatureTypeOK,
   Core!Readers, Core!NoGeneration, Core!Statuses, SignatureInv, Core!StatusIsTrue

\* The job changes a generation that no reader has in hand, or removes one that is not active.
LEMMA SignatureWrites ==
    ASSUME SignatureInv, NEW g \in 1 .. MaxGenerations, NEW m \in Core!Manifests,
           manifest' = [manifest EXCEPT ![g] = m], UNCHANGED <<active, signatureReader, clock>>,
           \/ m.state = "partial" /\ g > active.current
           \/ m.state = "whole" /\ manifest[g].state = "partial"
           \/ m = Core!Absent /\ g < active.current /\ g # active.previous
    PROVE  SignatureInv'
<1>1. /\ manifest' \in [1 .. MaxGenerations -> Core!Manifests]
      /\ \A h \in 1 .. MaxGenerations : manifest'[h] = IF h = g THEN m ELSE manifest[h]
      /\ active' = active /\ signatureReader' = signatureReader /\ clock' = clock
  BY SignatureTypes
<1>2. Core!SignatureTypeOK'
  BY <1>1 DEF SignatureInv, Core!SignatureTypeOK, Core!Generations
<1>3. g \in Nat /\ Core!Absent.state = "absent"
  BY SignatureTypes DEF Core!Absent
<1>4. /\ g = signatureReader.pointer => signatureReader.pointer # 0
      /\ g = signatureReader.pointer => m.state = "absent"
      /\ g # active.previous \/ m.state # "absent"
      /\ active.current # 0 => active.current \in 1 .. MaxGenerations /\ g # active.current
      /\ active.previous # 0 => active.previous \in 1 .. MaxGenerations /\ g # active.previous
      /\ signatureReader.pointer # 0 => signatureReader.pointer \in 1 .. MaxGenerations
  <2>1. /\ g \in Nat /\ g # 0 /\ active.current \in Nat /\ active.previous \in Nat /\ signatureReader.pointer \in Nat
        /\ active.previous <= active.current /\ signatureReader.pointer <= active.current
        /\ active.current # 0 => active.current \in 1 .. MaxGenerations
        /\ active.previous # 0 => active.previous \in 1 .. MaxGenerations
        /\ signatureReader.pointer # 0 => signatureReader.pointer \in 1 .. MaxGenerations
    BY SignatureTypes DEF SignatureInv
  <2>2. /\ active.current # 0 => manifest[active.current].state = "whole"
        /\ active.previous # 0 => manifest[active.previous].state = "whole"
        /\ signatureReader.pointer # 0 => manifest[signatureReader.pointer].state \in {"absent", "whole"}
    BY DEF SignatureInv
  <2>3. CASE m.state = "partial" /\ g > active.current
    BY <2>1, <2>3
  <2>4. CASE m.state = "whole" /\ manifest[g].state = "partial"
    BY <2>1, <2>2, <2>4
  <2>5. CASE m = Core!Absent /\ g < active.current /\ g # active.previous
    BY <1>3, <2>1, <2>5
  <2> QED
    BY <2>3, <2>4, <2>5
<1>5. Core!StatusIsTrue'
  BY <1>1, <1>4, SignatureTypes DEF SignatureInv, Core!StatusIsTrue
<1> QED
  BY <1>1, <1>2, <1>4, <1>5 DEF SignatureInv

LEMMA SignatureJob ==
    ASSUME SignatureInv, NEW g \in 1 .. MaxGenerations,
           Core!Write(g) \/ Core!Complete(g) \/ Core!Collect(g)
    PROVE  SignatureInv'
<1>1. CASE Core!Write(g)
  <2> DEFINE m == [manifest[g] EXCEPT !.state = "partial"]
  <2>1. manifest' = [manifest EXCEPT ![g] = m] /\ UNCHANGED <<active, signatureReader, clock>> /\ g > active.current
    BY <1>1 DEF Core!Write
  <2>2. m \in Core!Manifests /\ m.state = "partial"
    BY SignatureTypes DEF Core!Manifests
  <2> HIDE DEF m
  <2> QED
    BY <2>1, <2>2, SignatureWrites
<1>2. CASE Core!Complete(g)
  <2>1. PICK ahead \in 0 .. 1 : manifest' = [manifest EXCEPT ![g] = [state |-> "whole", publishedAt |-> clock + ahead]]
    BY <1>2 DEF Core!Complete
  <2> DEFINE m == [state |-> "whole", publishedAt |-> clock + ahead]
  <2>2. manifest[g].state = "partial" /\ UNCHANGED <<active, signatureReader, clock>>
    BY <1>2 DEF Core!Complete
  <2>3. m \in Core!Manifests /\ m.state = "whole" /\ manifest' = [manifest EXCEPT ![g] = m]
    BY <2>1, SignatureTypes DEF Core!Manifests
  <2> HIDE DEF m
  <2> QED
    BY <2>2, <2>3, SignatureWrites
<1>3. CASE Core!Collect(g)
  <2>1. /\ manifest' = [manifest EXCEPT ![g] = Core!Absent] /\ UNCHANGED <<active, signatureReader, clock>>
        /\ g < active.current /\ g # active.previous
    BY <1>3 DEF Core!Collect
  <2>2. Core!Absent \in Core!Manifests
    BY OperationsAssumption DEF Core!Absent, Core!Manifests
  <2> QED
    BY <2>1, <2>2, SignatureWrites
<1> QED
  BY <1>1, <1>2, <1>3

LEMMA SignatureActivates ==
    ASSUME SignatureInv, NEW g \in 1 .. MaxGenerations, Core!Activate(g)
    PROVE  SignatureInv'
<1>1. /\ manifest[g].state = "whole" /\ g > active.current /\ UNCHANGED <<manifest, clock>>
      /\ active' = [current |-> g, previous |-> active.current]
      /\ signatureReader' = [signatureReader EXCEPT !.activations =
                                 IF signatureReader.stage = "pointer" THEN @ + 1 ELSE @]
  BY DEF Core!Activate
<1>2. /\ active'.current = g /\ active'.previous = active.current
      /\ signatureReader'.stage = signatureReader.stage /\ signatureReader'.pointer = signatureReader.pointer
      /\ signatureReader'.status = signatureReader.status /\ signatureReader'.readAt = signatureReader.readAt
      /\ signatureReader'.activations =
             IF signatureReader.stage = "pointer" THEN signatureReader.activations + 1 ELSE signatureReader.activations
  BY <1>1, SignatureTypes
<1>3. /\ signatureReader.pointer <= active.current
      /\ signatureReader.stage = "pointer" =>
             signatureReader.pointer # 0 /\ signatureReader.pointer + signatureReader.activations <= active.current
  BY DEF SignatureInv
<1>4. signatureReader'.activations \in 0 .. MaxGenerations
  BY <1>1, <1>2, <1>3, SignatureTypes
<1>5. signatureReader' \in Core!Readers
  BY <1>1, <1>2, <1>4, SignatureTypes DEF Core!Readers
<1>6. Core!SignatureTypeOK'
  BY <1>1, <1>5, SignatureTypes DEF SignatureInv, Core!SignatureTypeOK
<1>7. Core!StatusIsTrue'
  BY <1>1, <1>2 DEF SignatureInv, Core!StatusIsTrue
<1>8. /\ active.previous <= active.current /\ active.current <= g /\ signatureReader.pointer <= g /\ g # 0
      /\ signatureReader.stage = "pointer" => signatureReader.pointer + (signatureReader.activations + 1) <= g
      /\ signatureReader.activations + 1 # 0
      /\ signatureReader.activations + 1 = 1 => signatureReader.activations = 0
  <2>1. /\ g \in Nat /\ g # 0 /\ g > active.current /\ active.current \in Nat /\ active.previous \in Nat
        /\ signatureReader.pointer \in Nat /\ signatureReader.activations \in Nat
    BY <1>1, SignatureTypes
  <2>2. active.previous <= active.current
    BY DEF SignatureInv
  <2>3. \A p, a, c \in Nat : (p + a <= c /\ g > c) => p + (a + 1) <= g
    BY <2>1
  <2>4. signatureReader.stage = "pointer" => signatureReader.pointer + (signatureReader.activations + 1) <= g
    BY <1>3, <2>1, <2>3
  <2> QED
    BY <1>3, <2>1, <2>2, <2>4
<1>9. (active'.current # 0 => manifest'[active'.current].state = "whole")
      /\ (active'.previous # 0 => manifest'[active'.previous].state = "whole")
  BY <1>1, <1>2 DEF SignatureInv
<1> QED
  BY <1>1, <1>2, <1>3, <1>6, <1>7, <1>8, <1>9 DEF SignatureInv

LEMMA SignatureTicks ==
    ASSUME SignatureInv, Core!SignatureTick
    PROVE  SignatureInv'
BY SignatureTypes DEF Core!SignatureTick, SignatureInv, Core!SignatureTypeOK, Core!StatusIsTrue

\* A new value of the reader.
LEMMA SignatureReads ==
    ASSUME SignatureInv, Core!ReadPointer \/ Core!ReadManifest
    PROVE  SignatureInv'
<1>1. CASE Core!ReadPointer /\ active.current = 0
  <2>1. /\ UNCHANGED <<manifest, active, clock>> /\ signatureReader.stage = "idle"
        /\ signatureReader' = [signatureReader EXCEPT !.status = "missing", !.pointer = 0, !.readAt = clock]
    BY <1>1 DEF Core!ReadPointer, Core!NoGeneration
  <2>2. signatureReader' = [stage |-> "idle", pointer |-> 0, status |-> "missing", readAt |-> clock,
                            activations |-> signatureReader.activations]
    BY <2>1, SignatureTypes
  <2>3. Core!SignatureTypeOK'
    BY <2>1, <2>2, SignatureTypes DEF SignatureInv, Core!SignatureTypeOK, Core!Readers, Core!Statuses
  <2> QED
    BY <2>1, <2>2, <2>3, SignatureTypes DEF SignatureInv, Core!StatusIsTrue, Core!NoGeneration
<1>2. CASE Core!ReadPointer /\ active.current # 0
  <2>1. /\ UNCHANGED <<manifest, active, clock>>
        /\ signatureReader' = [signatureReader EXCEPT !.stage = "pointer", !.status = "none",
                                   !.pointer = active.current, !.activations = 0]
    BY <1>2 DEF Core!ReadPointer, Core!NoGeneration
  <2>2. signatureReader' = [stage |-> "pointer", pointer |-> active.current, status |-> "none",
                            readAt |-> signatureReader.readAt, activations |-> 0]
    BY <2>1, SignatureTypes
  <2>3. Core!SignatureTypeOK'
    BY <2>1, <2>2, SignatureTypes DEF SignatureInv, Core!SignatureTypeOK, Core!Readers, Core!Statuses
  <2> QED
    BY <1>2, <2>1, <2>2, <2>3, SignatureTypes DEF SignatureInv, Core!StatusIsTrue
<1>3. CASE Core!ReadManifest
  <2> DEFINE m == manifest[signatureReader.pointer]
             s == CASE m.state = "absent" -> "missing"
                    [] m.state = "partial" -> "invalid"
                    [] OTHER -> Core!Status(m)
  <2>1. /\ UNCHANGED <<manifest, active, clock>> /\ signatureReader.stage = "pointer"
        /\ signatureReader' = [signatureReader EXCEPT !.stage = "idle", !.readAt = clock, !.status = s]
    BY <1>3 DEF Core!ReadManifest
  <2>2. signatureReader' = [stage |-> "idle", pointer |-> signatureReader.pointer, status |-> s,
                            readAt |-> clock, activations |-> signatureReader.activations]
    <3> HIDE DEF s
    <3> QED
      BY <2>1, SignatureTypes
  <2>3. /\ signatureReader.pointer # 0 /\ m.state \in {"absent", "whole"}
        /\ signatureReader.activations <= 1 => m.state = "whole"
        /\ signatureReader.pointer \in 1 .. MaxGenerations
    BY <2>1, SignatureTypes DEF SignatureInv
  <2>4. /\ s \in {"missing", "ready", "stale"}
        /\ s = "missing" => m.state = "absent"
        /\ s = "ready" => m.state = "whole" /\ m.publishedAt <= clock /\ clock - m.publishedAt <= MaxAge
    <3>1. m.publishedAt \in Int /\ clock \in Int /\ MaxAge \in Int
      BY <2>3, SignatureTypes
    <3> HIDE DEF m
    <3> QED
      BY <2>3, <3>1 DEF Core!Status
  <2> HIDE DEF s
  <2>5. Core!SignatureTypeOK'
    BY <2>1, <2>2, <2>4, SignatureTypes DEF SignatureInv, Core!SignatureTypeOK, Core!Readers, Core!Statuses
  <2>6. Core!StatusIsTrue'
    BY <2>1, <2>2, <2>3, <2>4, SignatureTypes DEF Core!StatusIsTrue
  <2> QED
    BY <2>1, <2>2, <2>3, <2>5, <2>6 DEF SignatureInv
<1> QED
  BY <1>1, <1>2, <1>3 DEF Core!ReadPointer

LEMMA SignatureStep ==
    ASSUME SignatureInv, [Core!SignatureNext]_<<signatures, clock>>
    PROVE  SignatureInv'
<1>1. CASE UNCHANGED <<signatures, clock>>
  BY <1>1 DEF signatures, SignatureInv, Core!SignatureTypeOK, Core!StatusIsTrue
<1>2. CASE Core!SignatureNext
  BY <1>2, SignatureJob, SignatureActivates, SignatureTicks, SignatureReads
     DEF Core!SignatureNext, Core!Generations
<1> QED
  BY <1>1, <1>2
-----------------------------------------------------------------------------
(* The rate of submissions. *)

\* Where a sequence has an element of a set.
Among(q, T) == {i \in DOMAIN q : q[i] \in T}

LEMMA AmongFinite ==
    ASSUME NEW S, NEW q \in Seq(S), NEW T
    PROVE  /\ IsFiniteSet(Among(q, T)) /\ Cardinality(Among(q, T)) \in Nat
           /\ (\A i \in DOMAIN q : q[i] \notin T) => Cardinality(Among(q, T)) = 0
<1>1. Among(q, T) \in SUBSET (1 .. Len(q)) /\ IsFiniteSet(1 .. Len(q))
  BY FS_Interval DEF Among
<1>2. IsFiniteSet(Among(q, T))
  BY <1>1, FS_Subset
<1>3. (\A i \in DOMAIN q : q[i] \notin T) => Among(q, T) = {}
  BY DEF Among
<1> QED
  BY <1>2, <1>3, FS_CardinalityType, FS_EmptySet

LEMMA AmongAppend ==
    ASSUME NEW S, NEW q \in Seq(S), NEW a \in S, NEW T
    PROVE  Cardinality(Among(Append(q, a), T)) =
               IF a \in T THEN Cardinality(Among(q, T)) + 1 ELSE Cardinality(Among(q, T))
<1> DEFINE n == Len(q) + 1
<1>1. /\ DOMAIN q = 1 .. Len(q) /\ DOMAIN Append(q, a) = 1 .. n /\ Append(q, a)[n] = a
      /\ \A i \in 1 .. Len(q) : Append(q, a)[i] = q[i]
      /\ Len(q) \in Nat
  BY Appended
<1>2. n \notin Among(q, T)
  BY <1>1 DEF Among
<1>3. CASE a \in T
  <2>1. Among(Append(q, a), T) = Among(q, T) \cup {n}
    BY <1>1, <1>3 DEF Among
  <2> QED
    BY <1>2, <1>3, <2>1, AmongFinite, FS_AddElement
<1>4. CASE a \notin T
  <2>1. Among(Append(q, a), T) = Among(q, T)
    BY <1>1, <1>4 DEF Among
  <2> QED
    BY <1>4, <2>1
<1> QED
  BY <1>3, <1>4

LEMMA AmongSplit ==
    ASSUME NEW S, NEW q \in Seq(S), NEW T, NEW A, NEW B, \A i \in DOMAIN q : q[i] \in T => q[i] \in A \/ q[i] \in B
    PROVE  Cardinality(Among(q, T)) <= Cardinality(Among(q, A)) + Cardinality(Among(q, B))
<1>1. Among(q, T) \subseteq Among(q, A) \cup Among(q, B)
  BY DEF Among
<1>2. IsFiniteSet(Among(q, A)) /\ IsFiniteSet(Among(q, B)) /\ IsFiniteSet(Among(q, T))
  BY AmongFinite
<1>3. /\ IsFiniteSet(Among(q, A) \cup Among(q, B))
      /\ Cardinality(Among(q, A) \cup Among(q, B)) =
             Cardinality(Among(q, A)) + Cardinality(Among(q, B)) - Cardinality(Among(q, A) \cap Among(q, B))
  BY <1>2, FS_Union
<1>4. Cardinality(Among(q, A) \cap Among(q, B)) \in Nat
  BY <1>2, FS_Intersection, FS_CardinalityType
<1>5. Cardinality(Among(q, T)) <= Cardinality(Among(q, A) \cup Among(q, B))
  BY <1>1, <1>3, FS_Subset
<1>6. Cardinality(Among(q, A)) \in Nat /\ Cardinality(Among(q, B)) \in Nat /\ Cardinality(Among(q, T)) \in Nat
  BY AmongFinite
<1> QED
  BY <1>3, <1>4, <1>5, <1>6

LEMMA AmongFewer ==
    ASSUME NEW S, NEW q \in Seq(S), NEW T, NEW A, \A i \in DOMAIN q : q[i] \in T => q[i] \in A
    PROVE  Cardinality(Among(q, T)) <= Cardinality(Among(q, A))
<1>1. Among(q, T) \subseteq Among(q, A)
  BY DEF Among
<1> QED
  BY <1>1, AmongFinite, FS_Subset

\* One user's window and the times of what was accepted of him.  The window that ran before this
\* one held no more than the limit of any time that reaches this one.
RateOk(w, q, c) ==
    /\ w.startedAt \in 0 .. SubmissionTime /\ w.count \in 0 .. SubmissionLimit
    /\ q \in Seq(0 .. SubmissionTime) /\ w.startedAt <= c
    /\ \A i \in DOMAIN q : q[i] <= c /\ q[i] < w.startedAt + SubmissionWindow
    /\ w.count = 0 => q = <<>>
    /\ Cardinality(Among(q, w.startedAt .. SubmissionTime)) = w.count
    /\ \A t \in Nat : Cardinality(Among(q, t .. t + SubmissionWindow - 1)) <= 2 * SubmissionLimit
    /\ \A t \in Nat : t + SubmissionWindow > w.startedAt =>
           Cardinality(Among(q, t .. w.startedAt - 1)) <= SubmissionLimit

LEMMA RateTypes ==
    ASSUME NEW w, NEW q, NEW c \in 0 .. SubmissionTime, RateOk(w, q, c)
    PROVE  /\ SubmissionTime \in Nat /\ SubmissionLimit \in Nat /\ SubmissionLimit >= 1
           /\ SubmissionWindow \in Nat /\ SubmissionWindow >= 1 /\ c \in Nat /\ c <= SubmissionTime
           /\ q \in Seq(0 .. SubmissionTime) /\ w.startedAt \in Nat /\ w.count \in Nat /\ w.count <= SubmissionLimit
           /\ w.startedAt <= c
           /\ \A i \in DOMAIN q : /\ q[i] \in 0 .. SubmissionTime
                                  /\ q[i] <= c /\ q[i] < w.startedAt + SubmissionWindow
<1>1. /\ SubmissionTime \in Nat /\ SubmissionLimit \in Nat \ {0} /\ SubmissionWindow \in Nat \ {0}
  BY OperationsAssumption
<1>2. /\ w.startedAt \in 0 .. SubmissionTime /\ w.count \in 0 .. SubmissionLimit
      /\ q \in Seq(0 .. SubmissionTime) /\ w.startedAt <= c
      /\ \A i \in DOMAIN q : q[i] <= c /\ q[i] < w.startedAt + SubmissionWindow
  BY DEF RateOk
<1>3. \A i \in DOMAIN q : q[i] \in 0 .. SubmissionTime
  <2>1. DOMAIN q = 1 .. Len(q)
    BY <1>2
  <2> QED
    BY <1>2, <2>1, MemberOf
<1> QED
  BY <1>1, <1>2, <1>3

\* A window that is new.
LEMMA RateFresh ==
    ASSUME NEW w, NEW q, NEW c \in 0 .. SubmissionTime, RateOk(w, q, c),
           w.count = 0 \/ c - w.startedAt >= SubmissionWindow
    PROVE  RateOk([startedAt |-> c, count |-> 1], Append(q, c), c)
<1> DEFINE p == Append(q, c)
<1>1. /\ SubmissionTime \in Nat /\ SubmissionLimit \in Nat /\ SubmissionLimit >= 1
      /\ SubmissionWindow \in Nat /\ SubmissionWindow >= 1 /\ c \in Nat /\ c <= SubmissionTime
      /\ q \in Seq(0 .. SubmissionTime) /\ w.startedAt \in Nat /\ w.count \in Nat /\ w.count <= SubmissionLimit
  BY RateTypes
<1>2. p \in Seq(0 .. SubmissionTime) /\ \A i \in DOMAIN p : p[i] = c \/ (i \in DOMAIN q /\ p[i] = q[i])
  <2>1. /\ DOMAIN q = 1 .. Len(q) /\ DOMAIN p = 1 .. Len(q) + 1 /\ p[Len(q) + 1] = c /\ Len(q) \in Nat
        /\ \A i \in 1 .. Len(q) : p[i] = q[i]
        /\ p \in Seq(0 .. SubmissionTime)
    BY <1>1, Appended
  <2>2. \A i \in DOMAIN p : i \in 1 .. Len(q) \/ i = Len(q) + 1
    BY <2>1
  <2> HIDE DEF p
  <2> QED
    BY <2>1, <2>2
<1>3. \A i \in DOMAIN q : q[i] \in Nat /\ q[i] <= c /\ q[i] # c
  <2> SUFFICES ASSUME NEW i \in DOMAIN q PROVE q[i] \in Nat /\ q[i] <= c /\ q[i] # c
    OBVIOUS
  <2>1. w.count # 0
    <3> SUFFICES ASSUME w.count = 0 PROVE FALSE
      OBVIOUS
    <3>1. q = <<>>
      BY DEF RateOk
    <3> QED
      BY <3>1
  <2>2. q[i] \in 0 .. SubmissionTime /\ q[i] <= c /\ q[i] < w.startedAt + SubmissionWindow
    BY RateTypes
  <2> QED
    BY <1>1, <2>1, <2>2
<1>4. \A T : Cardinality(Among(p, T)) = IF c \in T THEN Cardinality(Among(q, T)) + 1 ELSE Cardinality(Among(q, T))
  BY <1>1, AmongAppend
<1>5. \A T : Cardinality(Among(q, T)) \in Nat
  BY <1>1, AmongFinite
<1> HIDE DEF p
<1>6. Cardinality(Among(p, c .. SubmissionTime)) = 1
  <2>1. \A i \in DOMAIN q : q[i] \notin c .. SubmissionTime
    BY <1>1, <1>3
  <2>2. Cardinality(Among(q, c .. SubmissionTime)) = 0
    BY <1>1, <2>1, AmongFinite
  <2>3. c \in c .. SubmissionTime
    BY <1>1
  <2>4. Cardinality(Among(p, c .. SubmissionTime)) = Cardinality(Among(q, c .. SubmissionTime)) + 1
    BY <1>4, <2>3
  <2> QED
    BY <2>2, <2>4
<1>7. ASSUME NEW t \in Nat, t + SubmissionWindow > c
      PROVE  Cardinality(Among(q, t .. c - 1)) <= SubmissionLimit
  <2>1. CASE w.count = 0
    <3>1. q = <<>>
      BY <2>1 DEF RateOk
    <3>2. \A i \in DOMAIN q : q[i] \notin t .. c - 1
      BY <3>1
    <3>3. Cardinality(Among(q, t .. c - 1)) = 0
      BY <1>1, <3>2, AmongFinite
    <3> QED
      BY <1>1, <3>3
  <2>2. CASE c - w.startedAt >= SubmissionWindow
    <3>1. \A i \in DOMAIN q : q[i] \in t .. c - 1 => q[i] \in w.startedAt .. SubmissionTime
      BY <1>1, <1>3, <1>7, <2>2
    <3>2. Cardinality(Among(q, t .. c - 1)) <= Cardinality(Among(q, w.startedAt .. SubmissionTime))
      BY <1>1, <3>1, AmongFewer
    <3>3. Cardinality(Among(q, w.startedAt .. SubmissionTime)) = w.count
      BY DEF RateOk
    <3>4. Cardinality(Among(q, t .. c - 1)) \in Nat
      BY <1>5
    <3> QED
      BY <1>1, <3>2, <3>3, <3>4
  <2> QED
    BY <2>1, <2>2
<1>8. ASSUME NEW t \in Nat, t + SubmissionWindow > c
      PROVE  Cardinality(Among(p, t .. c - 1)) <= SubmissionLimit
  BY <1>1, <1>4, <1>7, <1>8
<1>9. ASSUME NEW t \in Nat
      PROVE  Cardinality(Among(p, t .. t + SubmissionWindow - 1)) <= 2 * SubmissionLimit
  <2> DEFINE W == t .. t + SubmissionWindow - 1
  <2>1. CASE c \notin W
    BY <1>4, <2>1 DEF RateOk
  <2>2. CASE c \in W
    <3>1. t + SubmissionWindow > c
      BY <1>1, <2>2
    <3>2. \A i \in DOMAIN q : q[i] \in W => q[i] \in t .. c - 1
      BY <1>1, <1>3
    <3>3. Cardinality(Among(q, W)) <= Cardinality(Among(q, t .. c - 1))
      <4> HIDE DEF W
      <4> QED
        BY <1>1, <3>2, AmongFewer
    <3>4. Cardinality(Among(q, t .. c - 1)) <= SubmissionLimit
      BY <1>7, <3>1
    <3>5. Cardinality(Among(p, W)) = Cardinality(Among(q, W)) + 1
      BY <1>4, <2>2
    <3>6. Cardinality(Among(q, W)) \in Nat /\ Cardinality(Among(q, t .. c - 1)) \in Nat
      BY <1>5
    <3> HIDE DEF W
    <3>7. Cardinality(Among(p, W)) <= 2 * SubmissionLimit
      BY <1>1, <3>3, <3>4, <3>5, <3>6
    <3> QED
      BY <3>7 DEF W
  <2> QED
    BY <2>1, <2>2
<1>10. \A i \in DOMAIN p : p[i] <= c /\ p[i] < c + SubmissionWindow
  BY <1>1, <1>2, <1>3
<1>11. RateOk([startedAt |-> c, count |-> 1], p, c)
  BY <1>1, <1>2, <1>6, <1>8, <1>9, <1>10 DEF RateOk
<1> QED
  BY <1>11 DEF p

\* A window that runs and has room.
LEMMA RateRuns ==
    ASSUME NEW w, NEW q, NEW c \in 0 .. SubmissionTime, RateOk(w, q, c),
           w.count # 0, c - w.startedAt < SubmissionWindow, w.count < SubmissionLimit, NEW v,
           v.startedAt = w.startedAt, v.count = w.count + 1
    PROVE  RateOk(v, Append(q, c), c)
<1> DEFINE p == Append(q, c)
           s == w.startedAt
<1>1. /\ SubmissionTime \in Nat /\ SubmissionLimit \in Nat /\ SubmissionLimit >= 1
      /\ SubmissionWindow \in Nat /\ SubmissionWindow >= 1 /\ c \in Nat /\ c <= SubmissionTime
      /\ q \in Seq(0 .. SubmissionTime) /\ s \in Nat /\ w.count \in Nat /\ w.count <= SubmissionLimit
      /\ s <= c
  BY RateTypes
<1>2. p \in Seq(0 .. SubmissionTime) /\ \A i \in DOMAIN p : p[i] = c \/ (i \in DOMAIN q /\ p[i] = q[i])
  <2>1. /\ DOMAIN q = 1 .. Len(q) /\ DOMAIN p = 1 .. Len(q) + 1 /\ p[Len(q) + 1] = c /\ Len(q) \in Nat
        /\ \A i \in 1 .. Len(q) : p[i] = q[i]
        /\ p \in Seq(0 .. SubmissionTime)
    BY <1>1, Appended
  <2>2. \A i \in DOMAIN p : i \in 1 .. Len(q) \/ i = Len(q) + 1
    BY <2>1
  <2> HIDE DEF p
  <2> QED
    BY <2>1, <2>2
<1>3. /\ Cardinality(Among(q, s .. SubmissionTime)) = w.count
      /\ \A t \in Nat : Cardinality(Among(q, t .. t + SubmissionWindow - 1)) <= 2 * SubmissionLimit
      /\ \A t \in Nat : t + SubmissionWindow > s => Cardinality(Among(q, t .. s - 1)) <= SubmissionLimit
  BY DEF RateOk
<1>4. \A T : Cardinality(Among(p, T)) = IF c \in T THEN Cardinality(Among(q, T)) + 1 ELSE Cardinality(Among(q, T))
  <2> TAKE T
  <2>1. q \in Seq(0 .. SubmissionTime) /\ c \in 0 .. SubmissionTime
    BY <1>1
  <2> QED
    BY <2>1, AmongAppend
<1>5. \A T : Cardinality(Among(p, T)) \in Nat
  BY <1>2, AmongFinite
<1> HIDE DEF p
<1>6. Cardinality(Among(p, s .. SubmissionTime)) = w.count + 1
  <2>1. c \in s .. SubmissionTime
    BY <1>1
  <2>2. Cardinality(Among(p, s .. SubmissionTime)) = Cardinality(Among(q, s .. SubmissionTime)) + 1
    BY <1>4, <2>1
  <2> QED
    BY <1>3, <2>2
<1>7. ASSUME NEW t \in Nat, t + SubmissionWindow > s
      PROVE  Cardinality(Among(p, t .. s - 1)) <= SubmissionLimit
  <2>1. c \notin t .. s - 1
    BY <1>1
  <2> QED
    BY <1>3, <1>4, <1>7, <2>1
<1>8. ASSUME NEW t \in Nat
      PROVE  Cardinality(Among(p, t .. t + SubmissionWindow - 1)) <= 2 * SubmissionLimit
  <2> DEFINE W == t .. t + SubmissionWindow - 1
  <2>1. CASE c \notin W
    BY <1>3, <1>4, <2>1
  <2>2. CASE c \in W
    <3>1. t + SubmissionWindow > s
      BY <1>1, <2>2
    <3>2. \A i \in DOMAIN p : p[i] \in W => p[i] \in t .. s - 1 \/ p[i] \in s .. SubmissionTime
      <4>1. \A i \in DOMAIN p : p[i] \in Nat /\ p[i] <= SubmissionTime
        BY <1>1, <1>2, MemberOf
      <4> QED
        BY <1>1, <4>1
    <3>3. Cardinality(Among(p, W)) <= Cardinality(Among(p, t .. s - 1)) + Cardinality(Among(p, s .. SubmissionTime))
      <4> HIDE DEF W, s
      <4> QED
        BY <1>2, <3>2, AmongSplit
    <3>4. Cardinality(Among(p, t .. s - 1)) <= SubmissionLimit
      BY <1>7, <3>1
    <3>5. Cardinality(Among(p, W)) \in Nat /\ Cardinality(Among(p, t .. s - 1)) \in Nat
      BY <1>5
    <3> HIDE DEF W, s
    <3>6. Cardinality(Among(p, W)) <= 2 * SubmissionLimit
      BY <1>1, <1>6, <3>3, <3>4, <3>5
    <3> QED
      BY <3>6 DEF W
  <2> QED
    BY <2>1, <2>2
<1>9. \A i \in DOMAIN p : p[i] <= c /\ p[i] < s + SubmissionWindow
  <2>1. \A i \in DOMAIN q : q[i] <= c /\ q[i] < s + SubmissionWindow
    BY RateTypes
  <2>2. c < s + SubmissionWindow /\ c <= c
    BY <1>1
  <2> QED
    BY <1>2, <2>1, <2>2
<1>10. w.count + 1 \in 0 .. SubmissionLimit /\ w.count + 1 # 0 /\ s \in 0 .. SubmissionTime
  BY <1>1
<1>11. RateOk(v, p, c)
  BY <1>1, <1>2, <1>6, <1>7, <1>8, <1>9, <1>10 DEF RateOk
<1> QED
  BY <1>11 DEF p

LEMMA RateTicks ==
    ASSUME NEW w, NEW q, NEW c \in 0 .. SubmissionTime, RateOk(w, q, c), c + 1 <= SubmissionTime
    PROVE  RateOk(w, q, c + 1)
<1>1. /\ c \in Nat /\ w.startedAt \in Nat /\ w.startedAt <= c /\ SubmissionTime \in Nat
      /\ \A i \in DOMAIN q : q[i] \in 0 .. SubmissionTime /\ q[i] <= c /\ q[i] < w.startedAt + SubmissionWindow
  BY RateTypes
<1>2. w.startedAt <= c + 1 /\ \A i \in DOMAIN q : q[i] <= c + 1 /\ q[i] < w.startedAt + SubmissionWindow
  BY <1>1
<1> QED
  BY <1>2 DEF RateOk

LEMMA RateStarts == RateOk([startedAt |-> 0, count |-> 0], <<>>, 0)
<1>1. SubmissionTime \in Nat /\ SubmissionLimit \in Nat
  BY OperationsAssumption
<1>2. <<>> \in Seq(0 .. SubmissionTime) /\ DOMAIN <<>> = {}
  OBVIOUS
<1>3. \A T : Cardinality(Among(<<>>, T)) = 0
  BY <1>2, AmongFinite
<1>4. 0 <= 2 * SubmissionLimit /\ 0 <= SubmissionLimit /\ 0 \in 0 .. SubmissionTime /\ 0 \in 0 .. SubmissionLimit
  BY <1>1
<1> QED
  BY <1>2, <1>3, <1>4 DEF RateOk

\* Who submitted and to whom, by a directory that stays as it is.
AddressedOk ==
    /\ directory \in Submission!Directories /\ last \in Submission!Outcomes
    /\ last.path = "submission" => last.user \in Submission!Resolved(last.sender) \cap directory.active
    /\ last.path # "none" =>
           \A address \in last.recipients :
               \/ last.path = "submission" /\ address = Submission!Elsewhere
               \/ Submission!Resolved(address) # {} /\ Submission!Resolved(address) \subseteq directory.active

SubmissionInv ==
    /\ AddressedOk /\ clock \in 0 .. SubmissionTime
    /\ submitted \in [Members -> [startedAt : 0 .. SubmissionTime, count : 0 .. SubmissionLimit]]
    /\ accepted \in [Members -> Seq(0 .. SubmissionTime)]
    /\ \A u \in Members : RateOk(submitted[u], accepted[u], clock)

LEMMA SubmissionHolds ==
    ASSUME SubmissionInv
    PROVE  Submission!TypeOK /\ Submission!PolicyHolds
<1>1. Submission!TypeOK
  BY DEF SubmissionInv, AddressedOk, Submission!TypeOK
<1>2. \A u, T : Submission!AcceptedIn(u, T) = Cardinality(Among(accepted[u], T))
  BY DEF Submission!AcceptedIn, Among, Submission!Cardinality, Cardinality
<1>3. ASSUME NEW u \in Members
      PROVE  /\ submitted[u].count > 0 =>
                    Submission!AcceptedIn(u, submitted[u].startedAt .. SubmissionTime) = submitted[u].count
             /\ submitted[u].count <= SubmissionLimit
             /\ \A t \in 0 .. SubmissionTime :
                    Submission!AcceptedIn(u, t .. t + SubmissionWindow - 1) <= 2 * SubmissionLimit
  <2>1. RateOk(submitted[u], accepted[u], clock) /\ clock \in 0 .. SubmissionTime
    BY DEF SubmissionInv
  <2>2. /\ Cardinality(Among(accepted[u], submitted[u].startedAt .. SubmissionTime)) = submitted[u].count
        /\ \A t \in Nat : Cardinality(Among(accepted[u], t .. t + SubmissionWindow - 1)) <= 2 * SubmissionLimit
    BY <2>1 DEF RateOk
  <2>3. submitted[u].count <= SubmissionLimit
    BY <2>1, RateTypes
  <2>4. \A t \in 0 .. SubmissionTime : t \in Nat
    BY OperationsAssumption
  <2> QED
    BY <1>2, <2>2, <2>3, <2>4
<1>4. Submission!PolicyHolds
  BY <1>3 DEF Submission!PolicyHolds, SubmissionInv, AddressedOk
<1> QED
  BY <1>1, <1>4

LEMMA SubmissionInitially ==
    ASSUME Submission!Init
    PROVE  SubmissionInv
<1>1. SubmissionTime \in Nat /\ SubmissionLimit \in Nat
  BY OperationsAssumption
<1>2. AddressedOk
  BY DEF Submission!Init, AddressedOk, Submission!Outcomes, Submission!Addresses
<1>3. clock = 0 /\ submitted = [u \in Members |-> [startedAt |-> 0, count |-> 0]] /\ accepted = [u \in Members |-> <<>>]
  BY DEF Submission!Init, Submission!NoWindow
<1>4. /\ submitted \in [Members -> [startedAt : 0 .. SubmissionTime, count : 0 .. SubmissionLimit]]
      /\ accepted \in [Members -> Seq(0 .. SubmissionTime)] /\ clock \in 0 .. SubmissionTime
  BY <1>1, <1>3
<1>5. \A u \in Members : RateOk(submitted[u], accepted[u], clock)
  BY <1>3, RateStarts
<1> QED
  BY <1>2, <1>4, <1>5 DEF SubmissionInv

LEMMA SubmissionAccepts ==
    ASSUME SubmissionInv, NEW asked \in Submission!Requests, Submission!AuthorizeSubmission(asked)
    PROVE  SubmissionInv'
<1> DEFINE u == asked.user
           w == submitted[u]
<1>1. /\ Submission!MaySubmit(asked) /\ ~Submission!Exhausted(w) /\ UNCHANGED <<directory, clock>>
      /\ submitted' = [submitted EXCEPT ![u] = Submission!Consumed(w)]
      /\ accepted' = [accepted EXCEPT ![u] = Append(accepted[u], clock)]
      /\ last' = [path |-> "submission", user |-> u, sender |-> asked.sender, recipients |-> asked.recipients]
  BY DEF Submission!AuthorizeSubmission
<1>2. /\ u \in Members /\ asked.sender \in Submission!Addresses /\ asked.recipients \in SUBSET Submission!Addresses
  BY DEF Submission!Requests, Submission!Recipients
<1>3. AddressedOk'
  <2>1. /\ asked.sender \in Submission!Internal /\ ~Submission!Broken /\ u \in Submission!Resolved(asked.sender)
        /\ \A address \in asked.recipients \cap Submission!Internal : Submission!Resolved(address) # {}
    BY <1>1 DEF Submission!MaySubmit, Submission!OwnsSender
  <2>2. last' \in Submission!Outcomes
    BY <1>1, <1>2 DEF Submission!Outcomes
  <2>3. \A address : Submission!Resolved(address) \subseteq directory.active /\ Submission!Resolved(address)' = Submission!Resolved(address)
    BY <1>1, <2>1 DEF Submission!Resolved, Submission!Broken
  <2>4. /\ last'.path = "submission" /\ last'.user = u /\ last'.sender = asked.sender
        /\ last'.recipients = asked.recipients /\ directory' = directory
    BY <1>1
  <2>5. directory \in Submission!Directories
    BY DEF SubmissionInv, AddressedOk
  <2>6. (last.user \in Submission!Resolved(last.sender) \cap directory.active)'
    BY <2>1, <2>4 DEF Submission!Resolved, Submission!Broken
  <2>7. \A address \in last'.recipients :
            \/ address = Submission!Elsewhere
            \/ Submission!Resolved(address)' # {} /\ Submission!Resolved(address)' \subseteq directory'.active
    BY <1>2, <2>1, <2>3, <2>4 DEF Submission!Internal
  <2> QED
    BY <1>1, <2>1, <2>2, <2>3, <2>4, <2>5, <2>6, <2>7 DEF AddressedOk, Submission!Resolved
<1>4. /\ submitted \in [Members -> [startedAt : 0 .. SubmissionTime, count : 0 .. SubmissionLimit]]
      /\ accepted \in [Members -> Seq(0 .. SubmissionTime)] /\ clock \in 0 .. SubmissionTime
      /\ RateOk(w, accepted[u], clock)
  BY <1>2 DEF SubmissionInv
<1>5. RateOk(Submission!Consumed(w), Append(accepted[u], clock), clock)
      /\ Submission!Consumed(w) \in [startedAt : 0 .. SubmissionTime, count : 0 .. SubmissionLimit]
  <2>1. /\ w \in [startedAt : 0 .. SubmissionTime, count : 0 .. SubmissionLimit] /\ clock \in Nat
        /\ w.count \in Nat /\ w.startedAt \in Nat /\ SubmissionLimit \in Nat /\ SubmissionLimit >= 1 /\ SubmissionWindow \in Nat
    BY <1>2, <1>4, RateTypes
  <2> HIDE DEF w
  <2>2. CASE Submission!Fresh(w)
    BY <1>4, <2>1, <2>2, RateFresh DEF Submission!Consumed, Submission!Fresh
  <2>3. CASE ~Submission!Fresh(w)
    <3>1. w.count # 0 /\ clock - w.startedAt < SubmissionWindow /\ w.count < SubmissionLimit
      BY <1>1, <2>1, <2>3 DEF Submission!Fresh, Submission!Exhausted
    <3>2. Submission!Consumed(w) = [startedAt |-> w.startedAt, count |-> w.count + 1]
      BY <2>1, <2>3 DEF Submission!Consumed
    <3>3. RateOk([startedAt |-> w.startedAt, count |-> w.count + 1], Append(accepted[u], clock), clock)
      <4> DEFINE v == [startedAt |-> w.startedAt, count |-> w.count + 1]
      <4>1. v.startedAt = w.startedAt /\ v.count = w.count + 1
        OBVIOUS
      <4> HIDE DEF v
      <4>2. RateOk(v, Append(accepted[u], clock), clock)
        BY <1>4, <3>1, <4>1, RateRuns
      <4> QED
        BY <4>2 DEF v
    <3>4. w.count + 1 \in 0 .. SubmissionLimit /\ w.startedAt \in 0 .. SubmissionTime
      BY <2>1, <3>1
    <3> QED
      BY <3>2, <3>3, <3>4
  <2> QED
    BY <2>2, <2>3
<1>6. Append(accepted[u], clock) \in Seq(0 .. SubmissionTime)
  BY <1>2, <1>4, Appended
<1> HIDE DEF u, w
<1>7. /\ submitted' \in [Members -> [startedAt : 0 .. SubmissionTime, count : 0 .. SubmissionLimit]]
      /\ \A x \in Members : submitted'[x] = IF x = u THEN Submission!Consumed(w) ELSE submitted[x]
  BY <1>1, <1>4, <1>5
<1>8. /\ accepted' \in [Members -> Seq(0 .. SubmissionTime)]
      /\ \A x \in Members : accepted'[x] = IF x = u THEN Append(accepted[u], clock) ELSE accepted[x]
  BY <1>1, <1>4, <1>6
<1>9. \A x \in Members : RateOk(submitted'[x], accepted'[x], clock)
  <2> SUFFICES ASSUME NEW x \in Members PROVE RateOk(submitted'[x], accepted'[x], clock)
    OBVIOUS
  <2>1. CASE x = u
    BY <1>5, <1>7, <1>8, <2>1
  <2>2. CASE x # u
    BY <1>7, <1>8, <2>2 DEF SubmissionInv
  <2> QED
    BY <2>1, <2>2
<1>10. clock' = clock /\ clock \in 0 .. SubmissionTime
  BY <1>1, <1>4
<1> QED
  BY <1>3, <1>7, <1>8, <1>9, <1>10 DEF SubmissionInv

LEMMA SubmissionReceives ==
    ASSUME SubmissionInv, NEW recipients \in Submission!Recipients, NEW fault,
           Submission!AuthorizeInbound(recipients, fault)
    PROVE  SubmissionInv'
BY DEF Submission!AuthorizeInbound, SubmissionInv, AddressedOk, Submission!Outcomes, Submission!Recipients,
   Submission!Deliverable, Submission!Broken, Submission!Resolved

LEMMA SubmissionTicks ==
    ASSUME SubmissionInv, Submission!Tick
    PROVE  SubmissionInv'
<1>1. /\ clock \in 0 .. SubmissionTime /\ clock < SubmissionTime /\ clock' = clock + 1 /\ SubmissionTime \in Nat
      /\ UNCHANGED <<directory, submitted, accepted, last>>
  BY OperationsAssumption DEF SubmissionInv, Submission!Tick
<1>2. clock' \in 0 .. SubmissionTime /\ clock + 1 <= SubmissionTime
  BY <1>1
<1>3. \A u \in Members : RateOk(submitted[u], accepted[u], clock + 1)
  BY <1>1, <1>2, RateTicks DEF SubmissionInv
<1> QED
  BY <1>1, <1>2, <1>3 DEF SubmissionInv, AddressedOk, Submission!Resolved

LEMMA SubmissionStep ==
    ASSUME SubmissionInv, [Submission!Next]_<<submission, clock>>
    PROVE  SubmissionInv'
<1>1. CASE UNCHANGED <<submission, clock>>
  BY <1>1 DEF submission, SubmissionInv, AddressedOk, Submission!Resolved
<1>2. CASE Submission!Next
  BY <1>2, SubmissionAccepts, SubmissionReceives, SubmissionTicks DEF Submission!Next
<1> QED
  BY <1>1, <1>2
-----------------------------------------------------------------------------
(* One person's sign-ins. *)

\* What an answer was earned by.
EarnedBy(s, a) ==
    /\ \E p \in s.seen : p.entries > 0 /\ p.password = s.guess /\ (source = "database" => p.active)
    /\ a.role # "user" => \E p \in s.seen : p.roles = {a.role}
    /\ (a.user = "own" /\ source # "ldap") => \E p \in s.seen : p.active

\* What an account that stays as it is gets for a guess.
DueFor(g, p) ==
    IF /\ settings = "ok" /\ p.entries = 1 /\ p.password = g /\ (source = "ldap" \/ p.active)
       /\ p.roles \in {{}, {"monitor"}}
    THEN [user |-> "own", role |-> IF p.roles = {} THEN "user" ELSE "monitor"]
    ELSE Identity!Refused

\* A sign-in has seen the account as it is, guessed once at most, and knows of an account nobody
\* touched what it asked of it already.
SignInOk(s, p) ==
    /\ s.stage = "idle" => s.seen = {} /\ s.answer = Identity!Refused /\ s.guesses = 0
    /\ IsFiniteSet(s.seen) /\ (s.stage # "idle" => p \in s.seen)
    /\ s.stage \notin {"idle", "done"} => s.answer = Identity!Refused /\ settings = "ok"
    /\ s.guesses \in {0, 1} /\ (s.stage \in {"find", "bind", "verify"} => s.guesses = 0)
    /\ s.stage \in {"find", "bind"} => source = "ldap"
    /\ s.stage = "verify" => source # "ldap"
    /\ s.stage = "accounts" => source = "plesk"
    /\ s.stage \in {"lookup", "accounts"} =>
           \E q \in s.seen : q.entries > 0 /\ q.password = s.guess /\ (source = "database" => q.active)
    /\ s.answer # Identity!Refused => EarnedBy(s, s.answer)
    /\ s.seen = {p} =>
           /\ s.stage = "bind" => p.entries = 1
           /\ s.stage \in {"lookup", "accounts"} =>
                  p.entries = 1 /\ p.password = s.guess /\ (source = "database" => p.active)
           /\ (s.stage = "done" /\ ~s.faulty) => s.answer = DueFor(s.guess, p)

IdentityStages == {"idle", "find", "bind", "verify", "lookup", "accounts", "stuck", "done"}
IdentityAnswers == [user : {"none", "own", "typed"}, role : Identity!Roles]
SignIns == [stage : IdentityStages, guess : Identity!Passwords, left : 0 .. LookupRetries, guesses : Nat,
            faulty : BOOLEAN, seen : SUBSET Identity!Held(source), answer : IdentityAnswers]

IdentityInv ==
    /\ source \in Identity!Sources /\ settings \in {"ok", "disabled", "incomplete"}
    /\ person \in Identity!Held(source) /\ changes \in 0 .. MaxPersonChanges
    /\ signIn \in SignIns /\ SignInOk(signIn, person)

LEMMA IdentityHolds ==
    ASSUME IdentityInv
    PROVE  Identity!TypeOK /\ Identity!SignInIsEarned
<1>1. Identity!TypeOK
  BY DEF IdentityInv, SignIns, IdentityStages, IdentityAnswers, Identity!TypeOK
<1>2. signIn.guesses <= 1
  BY DEF IdentityInv, SignInOk
<1>3. signIn.answer # Identity!Refused =>
          /\ \E p \in signIn.seen : /\ p.entries > 0 /\ p.password = signIn.guess
                                   /\ source = "database" => p.active
          /\ signIn.answer.role # "user" => \E p \in signIn.seen : p.roles = {signIn.answer.role}
          /\ (signIn.answer.user = "own" /\ source # "ldap") => \E p \in signIn.seen : p.active
  BY DEF IdentityInv, SignInOk, EarnedBy
<1>4. ASSUME signIn.stage = "done", ~signIn.faulty, Identity!Cardinality(signIn.seen) = 1, NEW p \in signIn.seen
      PROVE  signIn.answer = Identity!Due(p)
  <2>1. person \in signIn.seen
    BY <1>4 DEF IdentityInv, SignInOk
  <2>2. IsFiniteSet(signIn.seen)
    BY DEF IdentityInv, SignInOk
  <2>3. Cardinality(signIn.seen) = 1
    BY <1>4 DEF Identity!Cardinality, Cardinality
  <2>4. signIn.seen = {person}
    BY <2>1, <2>2, <2>3, FS_Singleton, FS_Subset
  <2>5. p = person /\ signIn.answer = DueFor(signIn.guess, person)
    BY <1>4, <2>4 DEF IdentityInv, SignInOk
  <2> QED
    BY <2>5 DEF DueFor, Identity!Due
<1> QED
  BY <1>1, <1>2, <1>3, <1>4 DEF Identity!SignInIsEarned

LEMMA IdentityTypes ==
    ASSUME IdentityInv
    PROVE  /\ signIn = [stage |-> signIn.stage, guess |-> signIn.guess, left |-> signIn.left,
                        guesses |-> signIn.guesses, faulty |-> signIn.faulty, seen |-> signIn.seen,
                        answer |-> signIn.answer]
           /\ signIn.stage \in IdentityStages /\ signIn.guess \in Identity!Passwords
           /\ signIn.left \in 0 .. LookupRetries /\ signIn.guesses \in {0, 1} /\ signIn.faulty \in BOOLEAN
           /\ signIn.seen \in SUBSET Identity!Held(source) /\ signIn.answer \in IdentityAnswers
           /\ source \in Identity!Sources /\ settings \in {"ok", "disabled", "incomplete"}
           /\ person \in Identity!Held(source) /\ changes \in 0 .. MaxPersonChanges
           /\ SignInOk(signIn, person) /\ LookupRetries \in Nat /\ MaxPersonChanges \in Nat
BY OperationsAssumption DEF IdentityInv, SignIns, SignInOk

LEMMA PersonTypes ==
    ASSUME NEW s, NEW p \in Identity!Held(s)
    PROVE  /\ p = [entries |-> p.entries, active |-> p.active, password |-> p.password, roles |-> p.roles]
           /\ p.entries \in 0 .. 2 /\ p.active \in BOOLEAN /\ p.password \in Identity!Passwords
           /\ p.roles \in {{}, {"monitor"}, {"provider"}, {"user", "monitor"}}
           /\ s # "ldap" => p.entries <= 1
BY DEF Identity!Held, Identity!Persons

LEMMA IdentityInitially ==
    ASSUME Identity!Init
    PROVE  IdentityInv
<1>1. /\ source \in Identity!Sources /\ settings \in {"ok", "disabled", "incomplete"}
      /\ person \in Identity!Held(source) /\ changes = 0
      /\ signIn = [stage |-> "idle", guess |-> "p1", left |-> LookupRetries, guesses |-> 0,
                   faulty |-> FALSE, seen |-> {}, answer |-> Identity!Refused]
  BY DEF Identity!Init, Identity!Idle
<1>2. LookupRetries \in 0 .. LookupRetries /\ 0 \in 0 .. MaxPersonChanges /\ IsFiniteSet({})
  BY OperationsAssumption, FS_EmptySet
<1>3. Identity!Refused \in IdentityAnswers
  BY DEF Identity!Refused, IdentityAnswers, Identity!Roles
<1>4. signIn \in SignIns
  BY <1>1, <1>2, <1>3 DEF SignIns, IdentityStages, Identity!Passwords
<1>5. SignInOk(signIn, person)
  BY <1>1, <1>2 DEF SignInOk
<1> QED
  BY <1>1, <1>2, <1>4, <1>5 DEF IdentityInv

\* A sign-in that ends, and one that goes on.
LEMMA IdentityEnds ==
    ASSUME IdentityInv, UNCHANGED <<source, settings, person, changes>>,
           NEW f \in BOOLEAN, NEW a \in IdentityAnswers, NEW n \in {0, 1}, signIn.stage # "idle",
           signIn' = [stage |-> "done", guess |-> signIn.guess, left |-> signIn.left, guesses |-> n,
                      faulty |-> f, seen |-> signIn.seen, answer |-> a],
           a # Identity!Refused => EarnedBy(signIn, a),
           signIn.seen = {person} /\ ~f => a = DueFor(signIn.guess, person)
    PROVE  IdentityInv'
BY IdentityTypes DEF SignIns, IdentityStages, SignInOk, EarnedBy, DueFor, IdentityInv

LEMMA IdentityGoes ==
    ASSUME IdentityInv, UNCHANGED <<source, settings, person, changes>>,
           NEW st \in {"find", "bind", "verify", "lookup", "accounts", "stuck"}, NEW l \in 0 .. LookupRetries,
           NEW n \in {0, 1}, signIn.stage \notin {"idle", "done"},
           signIn' = [stage |-> st, guess |-> signIn.guess, left |-> l, guesses |-> n,
                      faulty |-> signIn.faulty, seen |-> signIn.seen, answer |-> signIn.answer],
           st \in {"find", "bind", "verify"} => n = 0,
           st \in {"find", "bind"} => source = "ldap",
           st = "verify" => source # "ldap",
           st = "accounts" => source = "plesk",
           st \in {"lookup", "accounts"} =>
               \E q \in signIn.seen : q.entries > 0 /\ q.password = signIn.guess /\ (source = "database" => q.active),
           signIn.seen = {person} =>
               /\ st = "bind" => person.entries = 1
               /\ st \in {"lookup", "accounts"} =>
                      person.entries = 1 /\ person.password = signIn.guess /\ (source = "database" => person.active)
    PROVE  IdentityInv'
BY IdentityTypes DEF SignIns, IdentityStages, SignInOk, IdentityInv

LEMMA IdentityChanges ==
    ASSUME IdentityInv, Identity!AdministratorChanges
    PROVE  IdentityInv'
<1>1. /\ changes < MaxPersonChanges /\ changes' = changes + 1 /\ UNCHANGED <<source, settings>>
      /\ person' \in Identity!Held(source)
      /\ signIn' = [signIn EXCEPT !.seen = IF @ = {} THEN {} ELSE @ \cup {person'}]
  BY DEF Identity!AdministratorChanges
<1>2. person' # person
  <2> SUFFICES ASSUME person' = person PROVE FALSE
    OBVIOUS
  <2>1. Cardinality({f \in DOMAIN person' : person'[f] # person[f]}) = 1
    BY DEF Identity!AdministratorChanges, Identity!Cardinality, Cardinality
  <2>2. {f \in DOMAIN person' : person'[f] # person[f]} = {}
    OBVIOUS
  <2> QED
    BY <2>1, <2>2, FS_EmptySet
<1>3. PICK p \in Identity!Held(source) : p = person'
  BY <1>1
<1> DEFINE S == IF signIn.seen = {} THEN {} ELSE signIn.seen \cup {p}
<1>4. signIn' = [stage |-> signIn.stage, guess |-> signIn.guess, left |-> signIn.left,
                 guesses |-> signIn.guesses, faulty |-> signIn.faulty, seen |-> S, answer |-> signIn.answer]
  BY <1>1, <1>3, IdentityTypes
<1>5. /\ S \in SUBSET Identity!Held(source) /\ IsFiniteSet(S)
      /\ signIn.seen \subseteq S /\ (signIn.stage # "idle" => p \in S /\ S # {p})
      /\ signIn.stage = "idle" => S = {}
  BY <1>2, <1>3, IdentityTypes, FS_AddElement DEF SignInOk
<1> HIDE DEF S
<1>6. signIn' \in SignIns /\ source' = source
  BY <1>1, <1>4, <1>5, IdentityTypes DEF SignIns
<1>7. SignInOk(signIn, person)'
  <2>1. /\ person' = p /\ source' = source /\ settings' = settings
        /\ signIn'.stage = signIn.stage /\ signIn'.guess = signIn.guess /\ signIn'.guesses = signIn.guesses
        /\ signIn'.seen = S /\ signIn'.answer = signIn.answer
    BY <1>1, <1>3, <1>4
  <2>2. EarnedBy(signIn, signIn.answer) => EarnedBy(signIn, signIn.answer)'
    BY <1>5, <2>1 DEF EarnedBy
  <2>3. SignInOk(signIn, person)
    BY IdentityTypes
  <2>4. signIn.stage \in {"lookup", "accounts"} =>
            \E q \in S : q.entries > 0 /\ q.password = signIn.guess /\ (source = "database" => q.active)
    BY <1>5, <2>3 DEF SignInOk
  <2>5. S = {p} => signIn.stage = "idle" /\ FALSE
    BY <1>5
  <2> QED
    BY <1>5, <2>1, <2>2, <2>3, <2>4, <2>5 DEF SignInOk
<1>8. changes' \in 0 .. MaxPersonChanges
  BY <1>1, IdentityTypes
<1> QED
  BY <1>1, <1>6, <1>7, <1>8, IdentityTypes DEF IdentityInv, SignIns

LEMMA IdentityBegins ==
    ASSUME IdentityInv, NEW guess \in Identity!Passwords, NEW wellFormed \in BOOLEAN,
           Identity!Begin(guess, wellFormed)
    PROVE  IdentityInv'
<1> DEFINE st == IF wellFormed /\ settings = "ok" THEN (IF source = "ldap" THEN "find" ELSE "verify") ELSE "done"
           f == ~wellFormed
<1>1. /\ UNCHANGED <<source, settings, person, changes>>
      /\ signIn' = [stage |-> st, guess |-> guess, left |-> LookupRetries, guesses |-> 0,
                   faulty |-> f, seen |-> {person}, answer |-> Identity!Refused]
  BY DEF Identity!Begin, Identity!Idle, Identity!HasClient
<1>2. /\ st \in IdentityStages /\ st \in {"find", "verify", "done"}
      /\ st = "find" => source = "ldap" /\ settings = "ok"
      /\ st = "verify" => source # "ldap" /\ settings = "ok"
      /\ (st = "done" /\ ~f) => settings # "ok"
  BY DEF IdentityStages
<1>3. f \in BOOLEAN /\ Identity!Refused \in IdentityAnswers /\ LookupRetries \in 0 .. LookupRetries
      /\ person \in Identity!Held(source) /\ IsFiniteSet({person})
  <2>1. f \in BOOLEAN
    OBVIOUS
  <2>2. Identity!Refused \in IdentityAnswers
    BY DEF Identity!Refused, IdentityAnswers, Identity!Roles
  <2>3. IsFiniteSet({person})
    BY FS_Singleton
  <2> QED
    BY <2>1, <2>2, <2>3, IdentityTypes
<1> HIDE DEF st, f
<1>4. signIn' \in SignIns
  BY <1>1, <1>2, <1>3 DEF SignIns
<1>5. SignInOk(signIn, person)'
  BY <1>1, <1>2, <1>3 DEF SignInOk, DueFor
<1> QED
  BY <1>1, <1>4, <1>5, IdentityTypes DEF IdentityInv, SignIns

\* The next attempt of a call changes nothing else.
LEMMA IdentityRetries ==
    ASSUME IdentityInv, UNCHANGED <<source, settings, person, changes>>,
           signIn.stage \notin {"idle", "done"}, signIn.left > 0, signIn' = [signIn EXCEPT !.left = @ - 1]
    PROVE  IdentityInv'
BY IdentityTypes DEF SignIns, SignInOk, DueFor, EarnedBy, IdentityInv

LEMMA IdentityFinds ==
    ASSUME IdentityInv, Identity!Find \/ Identity!FindFails
    PROVE  IdentityInv'
<1>1. /\ signIn.stage = "find" /\ UNCHANGED <<source, settings, person, changes>>
      /\ source = "ldap" /\ signIn.answer = Identity!Refused /\ signIn.guesses = 0
  BY IdentityTypes DEF Identity!Find, Identity!FindFails, Identity!At, SignInOk
<1>2. Identity!Refused \in IdentityAnswers /\ LookupRetries \in 0 .. LookupRetries
  BY IdentityTypes DEF Identity!Refused, IdentityAnswers, Identity!Roles
<1>3. CASE signIn.left > 0 /\ signIn' = [signIn EXCEPT !.left = @ - 1]
  BY <1>1, <1>3, IdentityRetries
<1>4. CASE person.entries = 1 /\ Identity!Goes("bind")
  BY <1>1, <1>2, <1>4, IdentityTypes, IdentityGoes DEF Identity!Goes
<1>5. ASSUME NEW fault \in BOOLEAN, Identity!Refuses(fault), fault \/ person.entries # 1 PROVE IdentityInv'
  <2> DEFINE f == signIn.faulty \/ fault
  <2>1. signIn' = [stage |-> "done", guess |-> signIn.guess, left |-> signIn.left, guesses |-> 0,
                   faulty |-> f, seen |-> signIn.seen, answer |-> Identity!Refused]
    BY <1>1, <1>5, IdentityTypes DEF Identity!Refuses
  <2>2. f \in BOOLEAN /\ (~f => person.entries # 1)
    BY <1>5, IdentityTypes
  <2>3. signIn.seen = {person} /\ ~f => Identity!Refused = DueFor(signIn.guess, person)
    BY <2>2 DEF DueFor
  <2> HIDE DEF f
  <2> QED
    BY <1>1, <1>2, <2>1, <2>2, <2>3, IdentityEnds
<1>6. CASE Identity!Find
  <2>1. CASE person.entries = 1 /\ Identity!Goes("bind")
    BY <1>4, <2>1
  <2>2. CASE person.entries = 0 /\ Identity!Refuses(FALSE)
    <3>1. person.entries # 1
      BY <2>2
    <3> QED
      BY <1>5, <2>2, <3>1
  <2>3. CASE person.entries = 2 /\ Identity!Again(Identity!Refuses(FALSE))
    <3>1. person.entries # 1
      BY <2>3
    <3>2. CASE Identity!Refuses(FALSE)
      BY <1>5, <3>1, <3>2
    <3> QED
      BY <1>3, <2>3, <3>2 DEF Identity!Again
  <2> QED
    BY <1>6, <2>1, <2>2, <2>3 DEF Identity!Find
<1>7. CASE Identity!FindFails
  BY <1>3, <1>5, <1>7 DEF Identity!FindFails, Identity!Again
<1> QED
  BY <1>6, <1>7

LEMMA IdentityVerifies ==
    ASSUME IdentityInv, Identity!VerifyPassword \/ Identity!VerifyFails
    PROVE  IdentityInv'
<1>1. /\ signIn.stage \in {"bind", "verify"} /\ UNCHANGED <<source, settings, person, changes>>
      /\ signIn.answer = Identity!Refused /\ signIn.guesses = 0 /\ person \in signIn.seen
      /\ (signIn.seen = {person} /\ source = "ldap") => person.entries = 1
  BY IdentityTypes DEF Identity!VerifyPassword, Identity!VerifyFails, Identity!At, SignInOk
<1>2. Identity!Refused \in IdentityAnswers /\ 0 + 1 = 1
  BY DEF Identity!Refused, IdentityAnswers, Identity!Roles
<1>3. CASE Identity!VerifyFails
  BY <1>1, <1>2, <1>3, IdentityTypes, IdentityEnds DEF Identity!VerifyFails, Identity!VerifierDown
<1>4. ASSUME NEW barred \in BOOLEAN, signIn' = [signIn EXCEPT !.guesses = @ + 1, !.stage = "lookup"],
             Identity!Verified(barred)
      PROVE  IdentityInv'
  <2>1. signIn' = [stage |-> "lookup", guess |-> signIn.guess, left |-> signIn.left, guesses |-> 1,
                   faulty |-> signIn.faulty, seen |-> signIn.seen, answer |-> signIn.answer]
    BY <1>1, <1>2, <1>4, IdentityTypes
  <2>2. /\ person.entries > 0 /\ person.password = signIn.guess /\ (source = "database" => person.active)
    BY <1>4 DEF Identity!Verified
  <2>3. signIn.seen = {person} => person.entries = 1
    BY <1>1, <2>2, IdentityTypes, PersonTypes
  <2>4. signIn.left \in 0 .. LookupRetries
    BY IdentityTypes
  <2> QED
    BY <1>1, <2>1, <2>2, <2>3, <2>4, IdentityGoes
<1>5. ASSUME NEW barred \in BOOLEAN, signIn' = [signIn EXCEPT !.guesses = @ + 1, !.stage = "done"],
             ~Identity!Verified(barred)
      PROVE  IdentityInv'
  <2>1. signIn' = [stage |-> "done", guess |-> signIn.guess, left |-> signIn.left, guesses |-> 1,
                   faulty |-> signIn.faulty, seen |-> signIn.seen, answer |-> Identity!Refused]
    BY <1>1, <1>2, <1>5, IdentityTypes
  <2>2. DueFor(signIn.guess, person) = Identity!Refused
    BY <1>5 DEF Identity!Verified, Identity!Panels, DueFor
  <2>3. signIn.faulty \in BOOLEAN
    BY IdentityTypes
  <2> QED
    BY <1>1, <1>2, <2>1, <2>2, <2>3, IdentityEnds
<1>6. CASE Identity!VerifyPassword
  <2>1. PICK barred \in BOOLEAN :
            signIn' = [signIn EXCEPT !.guesses = @ + 1,
                                     !.stage = IF Identity!Verified(barred) THEN "lookup" ELSE "done"]
    BY <1>6 DEF Identity!VerifyPassword
  <2>2. CASE Identity!Verified(barred)
    BY <1>4, <2>1, <2>2
  <2>3. CASE ~Identity!Verified(barred)
    BY <1>5, <2>1, <2>3
  <2> QED
    BY <2>2, <2>3
<1> QED
  BY <1>3, <1>6

\* What the lookup makes of the account: its role is known when it is the only one.
LEMMA RoleOf ==
    ASSUME IdentityInv
    PROVE  /\ Identity!Identity.known = (person.entries # 0)
           /\ person.entries # 0 =>
                  /\ Identity!Identity.active = (source = "ldap" \/ person.active)
                  /\ person.roles = {} => Identity!LoginRole(Identity!Identity.role) = "user"
                  /\ person.roles = {"monitor"} => Identity!LoginRole(Identity!Identity.role) = "monitor"
                  /\ person.roles \notin {{}, {"monitor"}} => Identity!LoginRole(Identity!Identity.role) = "none"
           /\ person.entries = 0 => Identity!Identity = Identity!NoIdentity
<1>1. person.roles \in {{}, {"monitor"}, {"provider"}, {"user", "monitor"}}
  BY IdentityTypes, PersonTypes
<1>2. CASE person.entries = 0
  BY <1>2 DEF Identity!Identity, Identity!NoIdentity
<1>3. CASE person.entries # 0
  <2> DEFINE role == IF person.roles = {} THEN "absent"
                     ELSE IF Identity!Cardinality(person.roles) > 1 THEN "ambiguous"
                     ELSE CHOOSE r \in person.roles : TRUE
  <2>1. Identity!Identity = [known |-> TRUE, active |-> source = "ldap" \/ person.active, role |-> role]
    BY <1>3 DEF Identity!Identity
  <2>2. person.roles = {} => role = "absent"
    OBVIOUS
  <2>3. \A x : Identity!Cardinality({x}) = 1
    BY FS_Singleton DEF Identity!Cardinality, Cardinality
  <2>4. Identity!Cardinality({"user", "monitor"}) = 2
    <3>1. IsFiniteSet({"user"}) /\ Cardinality({"user"}) = 1
      BY FS_Singleton
    <3>2. {"user", "monitor"} = {"user"} \cup {"monitor"} /\ "monitor" \notin {"user"}
      OBVIOUS
    <3>3. Cardinality({"user", "monitor"}) = 2
      BY <3>1, <3>2, FS_AddElement
    <3> QED
      BY <3>3 DEF Identity!Cardinality, Cardinality
  <2>5. ASSUME NEW x, person.roles = {x} PROVE role = x
    BY <2>3, <2>5
  <2>6. person.roles = {"user", "monitor"} => role = "ambiguous"
    BY <2>4
  <2>7. person.roles = {"monitor"} => role = "monitor"
    BY <2>5
  <2>8. person.roles = {"provider"} => role = "provider"
    BY <2>5
  <2> HIDE DEF role
  <2>9. /\ Identity!Identity.known = TRUE /\ Identity!Identity.active = (source = "ldap" \/ person.active)
        /\ Identity!Identity.role = role
    BY <2>1
  <2>10. /\ Identity!LoginRole("absent") = "user" /\ Identity!LoginRole("monitor") = "monitor"
         /\ Identity!LoginRole("provider") = "none" /\ Identity!LoginRole("ambiguous") = "none"
    BY DEF Identity!LoginRole
  <2> QED
    BY <1>1, <1>3, <2>2, <2>6, <2>7, <2>8, <2>9, <2>10
<1> QED
  BY <1>2, <1>3

\* The end of a sign-in whose password was right.
LEMMA IdentityConcludes ==
    ASSUME IdentityInv, UNCHANGED <<source, settings, person, changes>>,
           signIn.stage \in {"lookup", "accounts"}, NEW fault \in BOOLEAN,
           \/ Identity!Concludes(Identity!Identity, fault) /\ (person.entries < 2 \/ source # "ldap")
           \/ Identity!Concludes(Identity!NoIdentity, fault) /\ (fault \/ person.entries = 2)
    PROVE  IdentityInv'
<1>1. /\ signIn.answer = Identity!Refused /\ signIn.guesses \in {0, 1} /\ person \in signIn.seen
      /\ \E q \in signIn.seen : q.entries > 0 /\ q.password = signIn.guess /\ (source = "database" => q.active)
      /\ signIn.seen = {person} =>
             person.entries = 1 /\ person.password = signIn.guess /\ (source = "database" => person.active)
      /\ settings = "ok"
  BY IdentityTypes DEF SignInOk
<1> DEFINE f == signIn.faulty \/ fault
<1>2. f \in BOOLEAN
  BY IdentityTypes
<1>3. Identity!Refused \in IdentityAnswers
  BY DEF Identity!Refused, IdentityAnswers, Identity!Roles
<1>4. ASSUME NEW a, signIn' = [signIn EXCEPT !.stage = "done", !.faulty = @ \/ fault, !.answer = a]
      PROVE  signIn' = [stage |-> "done", guess |-> signIn.guess, left |-> signIn.left,
                        guesses |-> signIn.guesses, faulty |-> f, seen |-> signIn.seen, answer |-> a]
  BY <1>4, IdentityTypes
<1>5. CASE Identity!Concludes(Identity!NoIdentity, fault) /\ (fault \/ person.entries = 2)
  <2> DEFINE a == [user |-> "typed", role |-> "user"]
  <2>1. Identity!MayEnter(Identity!NoIdentity) /\ Identity!NoIdentity.known = FALSE
        /\ Identity!LoginRole(Identity!NoIdentity.role) = "user"
    BY DEF Identity!MayEnter, Identity!NoIdentity, Identity!LoginRole
  <2>2. signIn' = [signIn EXCEPT !.stage = "done", !.faulty = @ \/ fault, !.answer = a]
    BY <1>5, <2>1 DEF Identity!Concludes
  <2>3. a \in IdentityAnswers
    BY DEF IdentityAnswers, Identity!Roles
  <2>4. EarnedBy(signIn, a)
    BY <1>1 DEF EarnedBy
  <2>5. ~(signIn.seen = {person} /\ ~f)
    BY <1>1, <1>5
  <2> HIDE DEF a, f
  <2>6. signIn' = [stage |-> "done", guess |-> signIn.guess, left |-> signIn.left,
                   guesses |-> signIn.guesses, faulty |-> f, seen |-> signIn.seen, answer |-> a]
    BY <1>4, <2>2
  <2> QED
    BY <1>1, <1>2, <2>3, <2>4, <2>5, <2>6, IdentityEnds
<1>6. CASE Identity!Concludes(Identity!Identity, fault) /\ (person.entries < 2 \/ source # "ldap")
  <2> DEFINE i == Identity!Identity
             a == IF ~Identity!MayEnter(i) THEN Identity!Refused
                  ELSE [user |-> IF i.known THEN "own" ELSE "typed", role |-> Identity!LoginRole(i.role)]
  <2>1. signIn' = [signIn EXCEPT !.stage = "done", !.faulty = @ \/ fault, !.answer = a]
    BY <1>6 DEF Identity!Concludes
  <2>2. Identity!LoginRole(i.role) \in {"user", "monitor", "none"}
    BY RoleOf, IdentityTypes DEF Identity!NoIdentity, Identity!LoginRole
  <2>3. a \in IdentityAnswers
    <3> HIDE DEF i
    <3> QED
      BY <1>3, <2>2 DEF IdentityAnswers, Identity!Roles
  <2>4. a # Identity!Refused => EarnedBy(signIn, a)
    <3> SUFFICES ASSUME Identity!MayEnter(i), a = [user |-> IF i.known THEN "own" ELSE "typed",
                                                   role |-> Identity!LoginRole(i.role)]
                 PROVE  EarnedBy(signIn, a)
      OBVIOUS
    <3>1. CASE person.entries = 0
      <4>1. i = Identity!NoIdentity
        BY <3>1, RoleOf
      <4>2. a = [user |-> "typed", role |-> "user"]
        BY <4>1 DEF Identity!NoIdentity, Identity!LoginRole
      <4> HIDE DEF a
      <4> QED
        BY <1>1, <4>2 DEF EarnedBy
    <3>2. CASE person.entries # 0
      <4>1. /\ i.active = (source = "ldap" \/ person.active) /\ Identity!LoginRole(i.role) # "none" /\ i.active
        BY <3>2, RoleOf DEF Identity!MayEnter
      <4>2. a.role # "user" => person.roles = {"monitor"} /\ a.role = "monitor"
        <5>1. a.role = Identity!LoginRole(i.role)
          OBVIOUS
        <5> HIDE DEF a, i
        <5> QED
          BY <3>2, <4>1, <5>1, RoleOf DEF i
      <4> HIDE DEF a
      <4> QED
        BY <1>1, <4>1, <4>2 DEF EarnedBy
    <3> QED
      BY <3>1, <3>2
  <2>5. signIn.seen = {person} /\ ~f => a = DueFor(signIn.guess, person)
    <3> SUFFICES ASSUME signIn.seen = {person} PROVE a = DueFor(signIn.guess, person)
      OBVIOUS
    <3>1. person.entries = 1 /\ person.password = signIn.guess
      BY <1>1
    <3>2. i.known = TRUE /\ i.active = (source = "ldap" \/ person.active)
      <4>1. person.entries # 0
        BY <3>1
      <4>2. i.known = (person.entries # 0)
        BY RoleOf
      <4>3. i.known = TRUE
        BY <4>1, <4>2
      <4>4. i.active = (source = "ldap" \/ person.active)
        BY <4>1, RoleOf
      <4> QED
        BY <4>3, <4>4
    <3>3. /\ person.roles = {} => Identity!LoginRole(i.role) = "user"
          /\ person.roles = {"monitor"} => Identity!LoginRole(i.role) = "monitor"
          /\ person.roles \notin {{}, {"monitor"}} => Identity!LoginRole(i.role) = "none"
      BY <3>1, RoleOf
    <3> HIDE DEF i
    <3>4. CASE ~(source = "ldap" \/ person.active)
      BY <3>2, <3>4 DEF DueFor, Identity!MayEnter
    <3>5. CASE source = "ldap" \/ person.active
      BY <1>1, <3>1, <3>2, <3>3, <3>5 DEF DueFor, Identity!MayEnter
    <3> QED
      BY <3>4, <3>5
  <2> HIDE DEF a, f
  <2>6. signIn' = [stage |-> "done", guess |-> signIn.guess, left |-> signIn.left,
                   guesses |-> signIn.guesses, faulty |-> f, seen |-> signIn.seen, answer |-> a]
    BY <1>4, <2>1
  <2> QED
    BY <1>1, <1>2, <2>3, <2>4, <2>5, <2>6, IdentityEnds
<1> QED
  BY <1>5, <1>6

LEMMA IdentityLooksUp ==
    ASSUME IdentityInv, \/ Identity!Lookup \/ Identity!LookupAccounts \/ Identity!LookupFails
                        \/ Identity!PanelReportsError \/ Identity!BodyNeverComes
    PROVE  IdentityInv'
<1>1. signIn.stage \in {"lookup", "accounts"} /\ UNCHANGED <<source, settings, person, changes>>
  BY DEF Identity!Lookup, Identity!LookupAccounts, Identity!LookupFails, Identity!PanelReportsError,
     Identity!BodyNeverComes, Identity!At
<1>2. CASE signIn.left > 0 /\ signIn' = [signIn EXCEPT !.left = @ - 1]
  BY <1>1, <1>2, IdentityRetries
<1>3. CASE Identity!Concludes(Identity!NoIdentity, TRUE)
  BY <1>1, <1>3, IdentityConcludes
<1>4. CASE Identity!Lookup
  <2>1. CASE source = "ldap" /\ person.entries = 2 /\ Identity!Concludes(Identity!NoIdentity, FALSE)
    BY <1>1, <2>1, IdentityConcludes
  <2>2. CASE source = "plesk" /\ person.entries > 0 /\ Identity!Goes("accounts")
    <3>1. signIn' = [stage |-> "accounts", guess |-> signIn.guess, left |-> LookupRetries,
                     guesses |-> signIn.guesses, faulty |-> signIn.faulty, seen |-> signIn.seen,
                     answer |-> signIn.answer]
      BY <2>2, IdentityTypes DEF Identity!Goes
    <3>2. /\ \E q \in signIn.seen : q.entries > 0 /\ q.password = signIn.guess /\ (source = "database" => q.active)
          /\ signIn.seen = {person} =>
                 person.entries = 1 /\ person.password = signIn.guess /\ (source = "database" => person.active)
      BY <1>1, IdentityTypes DEF SignInOk
    <3>3. signIn.guesses \in {0, 1} /\ LookupRetries \in 0 .. LookupRetries
      BY IdentityTypes
    <3> QED
      BY <1>1, <2>2, <3>1, <3>2, <3>3, IdentityGoes
  <2>3. CASE person.entries < 2 /\ Identity!Concludes(Identity!Identity, FALSE)
    BY <1>1, <2>3, IdentityConcludes
  <2> QED
    BY <1>2, <1>4, <2>1, <2>2, <2>3 DEF Identity!Lookup, Identity!Again
<1>5. CASE Identity!LookupAccounts
  BY <1>1, <1>5, IdentityTypes, IdentityConcludes DEF Identity!LookupAccounts, Identity!At, SignInOk
<1>6. CASE Identity!LookupFails
  BY <1>2, <1>3, <1>6 DEF Identity!LookupFails, Identity!Again
<1>7. CASE Identity!PanelReportsError
  BY <1>3, <1>7 DEF Identity!PanelReportsError
<1>8. CASE Identity!BodyNeverComes
  <2>1. signIn' = [stage |-> "stuck", guess |-> signIn.guess, left |-> LookupRetries,
                   guesses |-> signIn.guesses, faulty |-> signIn.faulty, seen |-> signIn.seen,
                   answer |-> signIn.answer]
    BY <1>8, IdentityTypes DEF Identity!BodyNeverComes, Identity!Goes
  <2>2. signIn.guesses \in {0, 1} /\ LookupRetries \in 0 .. LookupRetries
    BY IdentityTypes
  <2> QED
    BY <1>1, <2>1, <2>2, IdentityGoes
<1> QED
  BY <1>4, <1>5, <1>6, <1>7, <1>8

LEMMA IdentityStep ==
    ASSUME IdentityInv, [Identity!Next]_identity
    PROVE  IdentityInv'
<1>1. CASE UNCHANGED identity
  BY <1>1 DEF identity, IdentityInv, SignIns, SignInOk, EarnedBy, DueFor
<1>2. CASE Identity!Next
  BY <1>2, IdentityChanges, IdentityBegins, IdentityFinds, IdentityVerifies, IdentityLooksUp DEF Identity!Next
<1> QED
  BY <1>1, <1>2
-----------------------------------------------------------------------------
(* The password hash of one account. *)

\* What is stored was made of a password the policy took, at a cost that can be derived.
HashOk(h) ==
    /\ h \in [password : Hashes!Passwords, cost : Hashes!Costs, whole : BOOLEAN]
    /\ Hashes!Accepted(h.cost) /\ Hashes!Derivable(h.cost)
    /\ h.password.length >= 8 /\ h.password.characters = "ascii"

HashCallOk ==
    /\ lastHashCall.code \in Hashes!Codes /\ lastHashCall.valid \in BOOLEAN /\ lastHashCall.rehash \in BOOLEAN
    /\ lastHashCall.operation = "verify" =>
           /\ hash # <<>>
           /\ lastHashCall.valid = (hash[1].whole /\ lastHashCall.password = hash[1].password)
           /\ lastHashCall.rehash = (lastHashCall.valid /\ hash[1].cost # cost)

HashesInv ==
    /\ cost \in Hashes!Costs /\ Hashes!Accepted(cost) /\ minLength \in {8, 12}
    /\ deployments \in 0 .. MaxDeployments
    /\ hash = <<>> \/ (hash = <<hash[1]>> /\ HashOk(hash[1]))
    /\ HashCallOk

LEMMA HashesHolds ==
    ASSUME HashesInv
    PROVE  Hashes!TypeOK /\ Hashes!PasswordStands
BY DEF HashesInv, HashOk, HashCallOk, Hashes!TypeOK, Hashes!PasswordStands

LEMMA NoHashCall ==
    /\ Hashes!NoCall.operation = "none" /\ Hashes!NoCall.code \in Hashes!Codes
    /\ Hashes!NoCall.valid \in BOOLEAN /\ Hashes!NoCall.rehash \in BOOLEAN
BY DEF Hashes!NoCall, Hashes!Codes

LEMMA HashesInitially ==
    ASSUME Hashes!Init
    PROVE  HashesInv
BY OperationsAssumption, NoHashCall DEF Hashes!Init, HashesInv, HashCallOk

LEMMA HashesDeploy ==
    ASSUME HashesInv, Hashes!Deploy
    PROVE  HashesInv'
<1>1. deployments' \in 0 .. MaxDeployments
  <2>1. deployments \in 0 .. MaxDeployments /\ MaxDeployments \in Nat
    BY OperationsAssumption DEF HashesInv
  <2>2. deployments < MaxDeployments /\ deployments' = deployments + 1
    BY DEF Hashes!Deploy
  <2> QED
    BY <2>1, <2>2
<1>2. HashCallOk'
  BY NoHashCall DEF HashCallOk, Hashes!Deploy
<1> QED
  BY <1>1, <1>2 DEF HashesInv, Hashes!Deploy

LEMMA HashesDamage ==
    ASSUME HashesInv, Hashes!Damage
    PROVE  HashesInv'
<1>1. /\ hash # <<>> /\ hash' = [hash EXCEPT ![1].whole = FALSE] /\ lastHashCall' = Hashes!NoCall
      /\ UNCHANGED <<cost, minLength, deployments>>
  BY DEF Hashes!Damage
<1>2. HashCallOk'
  BY <1>1, NoHashCall DEF HashCallOk
<1>3. PICK h : hash = <<h>> /\ HashOk(h)
  BY <1>1 DEF HashesInv
<1> DEFINE d == [h EXCEPT !.whole = FALSE]
<1>4. hash' = <<d>>
  <2>1. hash' = [<<h>> EXCEPT ![1].whole = FALSE]
    BY <1>1, <1>3
  <2>2. [<<h>> EXCEPT ![1].whole = FALSE] = [<<h>> EXCEPT ![1] = [<<h>>[1] EXCEPT !.whole = FALSE]]
    OBVIOUS
  <2>3. [<<h>>[1] EXCEPT !.whole = FALSE] = d
    OBVIOUS
  <2>4. \A x : [<<h>> EXCEPT ![1] = x] = <<x>>
    OBVIOUS
  <2> QED
    BY <2>1, <2>2, <2>3, <2>4
<1>5. /\ d \in [password : Hashes!Passwords, cost : Hashes!Costs, whole : BOOLEAN]
      /\ d.password = h.password /\ d.cost = h.cost
  BY <1>3 DEF HashOk
<1> HIDE DEF d
<1>6. HashOk(d)
  BY <1>3, <1>5 DEF HashOk
<1>7. hash' = <<d>> /\ hash'[1] = d
  BY <1>4
<1> QED
  BY <1>1, <1>2, <1>6, <1>7 DEF HashesInv

LEMMA HashesHash ==
    ASSUME HashesInv, NEW password \in Hashes!Passwords, Hashes!Hash(password)
    PROVE  HashesInv'
<1>1. /\ lastHashCall' = [Hashes!NoCall EXCEPT !.operation = "hash", !.password = password,
                                               !.code = Hashes!HashCode(password)]
      /\ hash' = IF Hashes!HashCode(password) = "none"
                 THEN <<[password |-> password, cost |-> cost, whole |-> TRUE]>> ELSE hash
      /\ UNCHANGED <<cost, minLength, deployments>>
  BY DEF Hashes!Hash
<1>2. Hashes!HashCode(password) \in Hashes!Codes
  BY DEF Hashes!HashCode, Hashes!Validate, Hashes!Codes
<1>3. HashCallOk'
  BY <1>1, <1>2 DEF Hashes!NoCall, HashCallOk
<1>4. CASE Hashes!HashCode(password) = "none"
  <2> DEFINE h == [password |-> password, cost |-> cost, whole |-> TRUE]
  <2>1. Hashes!Validate(password) = "none" /\ Hashes!Derivable(cost)
    BY <1>4 DEF Hashes!HashCode, Hashes!Validate
  <2>2. /\ password.length >= 8 /\ password.characters = "ascii"
    BY <2>1 DEF Hashes!Passwords, HashesInv, Hashes!Validate
  <2>3. cost \in Hashes!Costs /\ Hashes!Accepted(cost)
    BY DEF HashesInv
  <2>4. HashOk(h)
    BY <2>1, <2>2, <2>3 DEF HashOk
  <2>5. hash' = <<h>> /\ hash'[1] = h
    BY <1>1, <1>4
  <2> HIDE DEF h
  <2> QED
    BY <1>1, <1>3, <2>4, <2>5 DEF HashesInv
<1>5. CASE Hashes!HashCode(password) # "none"
  BY <1>1, <1>3, <1>5 DEF HashesInv
<1> QED
  BY <1>4, <1>5

LEMMA HashesVerify ==
    ASSUME HashesInv, NEW password \in Hashes!Passwords, Hashes!Verify(password)
    PROVE  HashesInv'
<1> DEFINE parsed == hash[1].whole /\ Hashes!Accepted(hash[1].cost)
           valid == parsed /\ Hashes!Matches(password)
<1>1. /\ hash # <<>> /\ UNCHANGED <<cost, minLength, hash, deployments>>
      /\ lastHashCall' = [operation |-> "verify", password |-> password, valid |-> valid,
                          rehash |-> valid /\ hash[1].cost # cost,
                          code |-> IF ~parsed \/ ~Hashes!Derivable(hash[1].cost) THEN "HASH_INVALID"
                                   ELSE IF valid THEN "none" ELSE "PASSWORD_INVALID"]
  BY DEF Hashes!Verify
<1>2. HashOk(hash[1])
  BY <1>1 DEF HashesInv
<1>3. valid = (hash[1].whole /\ password = hash[1].password)
  BY <1>2 DEF HashOk, Hashes!Matches
<1> HIDE DEF valid, parsed
<1>4. /\ lastHashCall'.operation = "verify" /\ lastHashCall'.password = password /\ lastHashCall'.valid = valid
      /\ lastHashCall'.rehash = (valid /\ hash[1].cost # cost)
      /\ lastHashCall'.code \in {"HASH_INVALID", "none", "PASSWORD_INVALID"}
  BY <1>1
<1>5. valid \in BOOLEAN
  BY <1>3
<1>6. HashCallOk'
  <2>1. lastHashCall'.code \in Hashes!Codes
    BY <1>4 DEF Hashes!Codes
  <2>2. lastHashCall'.valid \in BOOLEAN /\ lastHashCall'.rehash \in BOOLEAN
    BY <1>4, <1>5
  <2>3. lastHashCall'.valid = (hash'[1].whole /\ lastHashCall'.password = hash'[1].password)
    BY <1>1, <1>3, <1>4
  <2>4. lastHashCall'.rehash = (lastHashCall'.valid /\ hash'[1].cost # cost')
    BY <1>1, <1>4
  <2>5. hash' # <<>>
    BY <1>1
  <2> QED
    BY <2>1, <2>2, <2>3, <2>4, <2>5 DEF HashCallOk
<1> QED
  BY <1>1, <1>6 DEF HashesInv

LEMMA HashesStep ==
    ASSUME HashesInv, [Hashes!Next]_hashes
    PROVE  HashesInv'
<1>1. CASE UNCHANGED hashes
  BY <1>1 DEF hashes, HashesInv, HashCallOk
<1>2. CASE Hashes!Next
  BY <1>2, HashesDeploy, HashesDamage, HashesHash, HashesVerify DEF Hashes!Next
<1> QED
  BY <1>1, <1>2
-----------------------------------------------------------------------------
(***************************************************************************)
(* Redaction.  An entry of an object that has been walked has been shown or  *)
(* is still to be; the objects walked are those shown as one, once each.     *)
(***************************************************************************)
LogKeys == {"detail", "password"}
LogEntries == [path : Seq(LogKeys), value : Log!Values, key : LogKeys \cup {Log!None}]
Due(where) == (\E s \in shown : s.path = where) \/ \E i \in DOMAIN todo : todo[i].path = where
EntriesDue ==
    \A d \in shown : d.leaf = "object" =>
       \A j \in DOMAIN Log!Entries(d.value, d.path) : Due(Log!Entries(d.value, d.path)[j].path)

RedactionInv ==
    /\ heap \in [LoggedObjects -> [list : BOOLEAN, detail : Log!Values \cup {Log!None},
                                   password : Log!Values \cup {Log!None}]]
    /\ todo \in Seq(LogEntries) /\ expanded \subseteq LoggedObjects
    /\ \A e \in shown : /\ e.value \in Log!Values /\ e.leaf \in {"plain", "redacted", "circular", "object"}
                        /\ e.key = "password" => e.leaf = "redacted"
                        /\ e.leaf \in {"circular", "object"} => e.value \in expanded
    /\ \A v \in expanded : \E d \in shown : d.value = v /\ d.leaf = "object"
    /\ \A d, e \in shown : (d.leaf = "object" /\ e.leaf = "object" /\ d.value = e.value) => d = e
    /\ EntriesDue

LEMMA RedactionHolds ==
    ASSUME RedactionInv
    PROVE  Log!RedactionTypeOK /\ Log!LogShowsAllButSecrets
<1>1. Log!RedactionTypeOK
  BY DEF RedactionInv, Log!RedactionTypeOK
<1>2. ASSUME todo = <<>>, NEW d \in shown, d.leaf = "object",
             NEW j \in DOMAIN Log!Entries(d.value, d.path)
      PROVE  \E s \in shown : s.path = Log!Entries(d.value, d.path)[j].path
  BY <1>2 DEF RedactionInv, EntriesDue, Due
<1> QED
  BY <1>1, <1>2 DEF RedactionInv, Log!LogShowsAllButSecrets

LEMMA LogEntriesType ==
    ASSUME RedactionInv, NEW o \in LoggedObjects, NEW where \in Seq(LogKeys)
    PROVE  Log!Entries(o, where) \in Seq(LogEntries)
<1> DEFINE Present(k) == IF heap[o][k] # Log!None THEN <<k>> ELSE <<>>
           present == Present("detail") \o Present("password")
<1>1. /\ heap[o] \in [list : BOOLEAN, detail : Log!Values \cup {Log!None}, password : Log!Values \cup {Log!None}]
      /\ \A k \in LogKeys : heap[o][k] \in Log!Values \cup {Log!None}
  BY DEF RedactionInv, LogKeys
<1>2. present \in Seq(LogKeys) /\ \A i \in DOMAIN present : heap[o][present[i]] # Log!None
  <2>1. CASE heap[o]["detail"] # Log!None /\ heap[o]["password"] # Log!None
    BY <2>1 DEF LogKeys
  <2>2. CASE heap[o]["detail"] # Log!None /\ heap[o]["password"] = Log!None
    BY <2>2 DEF LogKeys
  <2>3. CASE heap[o]["detail"] = Log!None /\ heap[o]["password"] # Log!None
    BY <2>3 DEF LogKeys
  <2>4. CASE heap[o]["detail"] = Log!None /\ heap[o]["password"] = Log!None
    BY <2>4
  <2> QED
    BY <2>1, <2>2, <2>3, <2>4
<1>3. Log!Entries(o, where) =
        [i \in DOMAIN present |-> [path |-> Append(where, present[i]), value |-> heap[o][present[i]],
                                   key |-> IF heap[o].list THEN Log!None ELSE present[i]]]
  BY DEF Log!Entries
<1> HIDE DEF present
<1>4. \A i \in DOMAIN present :
         [path |-> Append(where, present[i]), value |-> heap[o][present[i]],
          key |-> IF heap[o].list THEN Log!None ELSE present[i]] \in LogEntries
  <2> SUFFICES ASSUME NEW i \in DOMAIN present
               PROVE  [path |-> Append(where, present[i]), value |-> heap[o][present[i]],
                       key |-> IF heap[o].list THEN Log!None ELSE present[i]] \in LogEntries
    OBVIOUS
  <2>1. present[i] \in LogKeys
    BY <1>2
  <2>2. heap[o][present[i]] \in Log!Values
    BY <1>1, <1>2, <2>1
  <2>3. Append(where, present[i]) \in Seq(LogKeys)
    BY <2>1
  <2> QED
    BY <2>1, <2>2, <2>3 DEF LogEntries
<1>5. DOMAIN present = 1 .. Len(present) /\ Len(present) \in Nat
  BY <1>2
<1> QED
  BY <1>3, <1>4, <1>5

LEMMA RedactionInitially ==
    ASSUME Log!RedactionInit
    PROVE  RedactionInv
BY OperationsAssumption DEF Log!Root, LogEntries, Log!Values, Log!RedactionInit, RedactionInv, EntriesDue

LEMMA EntriesStay ==
    ASSUME heap' = heap
    PROVE  \A o, where : Log!Entries(o, where)' = Log!Entries(o, where)
BY DEF Log!Entries

\* One entry: what was due is shown, and for an object its entries are due instead.
LEMMA RedactionShows ==
    ASSUME RedactionInv, Log!Sanitize, NEW leaf,
           Log!Show(Head(todo), leaf),
           todo # <<>>,
           \/ /\ leaf \in {"plain", "redacted", "circular"} /\ todo' = Tail(todo) /\ expanded' = expanded
              /\ leaf = "circular" => Head(todo).value \in expanded
              /\ Head(todo).key = "password" => leaf = "redacted"
           \/ /\ leaf = "object" /\ Head(todo).value \in LoggedObjects \ expanded
              /\ Head(todo).key # "password"
              /\ expanded' = expanded \cup {Head(todo).value}
              /\ todo' = Log!Entries(Head(todo).value, Head(todo).path) \o Tail(todo)
    PROVE  RedactionInv'
<1> DEFINE entry == Head(todo)
           new == [path |-> entry.path, key |-> entry.key, value |-> entry.value, leaf |-> leaf]
<1>1. /\ todo \in Seq(LogEntries) /\ entry \in LogEntries /\ entry = todo[1] /\ Tail(todo) \in Seq(LogEntries)
      /\ Len(todo) \in Nat \ {0} /\ Len(Tail(todo)) = Len(todo) - 1
      /\ \A i \in 1 .. Len(todo) - 1 : Tail(todo)[i] = todo[i + 1]
  BY DEF RedactionInv
<1>2. /\ entry.path \in Seq(LogKeys) /\ entry.value \in Log!Values /\ entry.key \in LogKeys \cup {Log!None}
      /\ shown' = shown \cup {new} /\ heap' = heap
      /\ new.path = entry.path /\ new.key = entry.key /\ new.value = entry.value /\ new.leaf = leaf
  BY <1>1 DEF LogEntries, Log!Show, Log!Sanitize
<1> HIDE DEF new, entry
<1>0. heap' = heap
  BY DEF Log!Sanitize
<1>3. \A o, where : Log!Entries(o, where)' = Log!Entries(o, where)
  BY <1>0, EntriesStay
<1> DEFINE Was(where) == Due(where)
           Is(where) == (\E s \in shown' : s.path = where) \/ \E i \in DOMAIN todo' : todo'[i].path = where
<1>6. ASSUME \A d \in shown' : d.leaf = "object" =>
               \A j \in DOMAIN Log!Entries(d.value, d.path) : Is(Log!Entries(d.value, d.path)[j].path)
      PROVE  EntriesDue'
  <2>1. \A where : Due(where)' <=> Is(where)
    BY DEF Due
  <2> HIDE DEF Is
  <2> QED
    BY <1>3, <1>6, <2>1 DEF EntriesDue
<1>4. CASE leaf # "object"
  <2>1. todo' = Tail(todo) /\ expanded' = expanded
    BY <1>4
  <2>2. ASSUME NEW where, Was(where) PROVE Is(where)
    <3>1. CASE \E s \in shown : s.path = where
      BY <3>1, <1>2
    <3>2. ASSUME NEW i \in DOMAIN todo, todo[i].path = where PROVE Is(where)
      <4>1. CASE i = 1
        BY <3>2, <4>1, <1>1, <1>2
      <4>2. CASE i # 1
        <5>1. i \in 2 .. Len(todo) /\ i - 1 \in 1 .. Len(todo) - 1
          BY <3>2, <4>2, <1>1
        <5>2. i - 1 \in DOMAIN Tail(todo) /\ Tail(todo)[i - 1] = todo[(i - 1) + 1]
          BY <5>1, <1>1
        <5>3. (i - 1) + 1 = i
          BY <5>1
        <5> QED
          BY <3>2, <5>2, <5>3, <2>1
      <4> QED
        BY <4>1, <4>2
    <3> QED
      BY <2>2, <3>1, <3>2 DEF Due
  <2>3. \A e \in shown' : /\ e.value \in Log!Values /\ e.leaf \in {"plain", "redacted", "circular", "object"}
                          /\ e.key = "password" => e.leaf = "redacted"
                          /\ e.leaf \in {"circular", "object"} => e.value \in expanded
    BY <1>2, <1>4 DEF RedactionInv, entry
  <2>4. \A v \in expanded : \E d \in shown' : d.value = v /\ d.leaf = "object"
    BY <1>2 DEF RedactionInv
  <2>5. \A d \in shown' : d.leaf = "object" => d \in shown
    BY <1>2, <1>4
  <2>6. \A d, e \in shown' : (d.leaf = "object" /\ e.leaf = "object" /\ d.value = e.value) => d = e
    BY <2>5 DEF RedactionInv
  <2>7. \A d \in shown' : d.leaf = "object" =>
          \A j \in DOMAIN Log!Entries(d.value, d.path) : Is(Log!Entries(d.value, d.path)[j].path)
    <3> HIDE DEF Is
    <3> QED
      BY <2>2, <2>5 DEF RedactionInv, EntriesDue
  <2> QED
    BY <1>1, <1>2, <1>6, <2>1, <2>3, <2>4, <2>6, <2>7 DEF RedactionInv
<1>5. CASE leaf = "object"
  <2> DEFINE more == Log!Entries(entry.value, entry.path)
  <2>1. /\ entry.value \in LoggedObjects /\ entry.value \notin expanded /\ entry.key # "password"
        /\ expanded' = expanded \cup {entry.value} /\ todo' = more \o Tail(todo)
    BY <1>5 DEF entry
  <2>2. more \in Seq(LogEntries)
    BY <1>2, <2>1, LogEntriesType
  <2> HIDE DEF more
  <2>3. /\ more \o Tail(todo) \in Seq(LogEntries) /\ Len(more) \in Nat
        /\ DOMAIN more = 1 .. Len(more) /\ DOMAIN (more \o Tail(todo)) = 1 .. (Len(more) + (Len(todo) - 1))
        /\ \A i \in 1 .. Len(more) : (more \o Tail(todo))[i] = more[i]
        /\ \A i \in 1 .. Len(todo) - 1 : (more \o Tail(todo))[Len(more) + i] = Tail(todo)[i]
    BY <1>1, <2>2
  <2>4. ASSUME NEW where, Was(where) PROVE Is(where)
    <3>1. CASE \E s \in shown : s.path = where
      BY <3>1, <1>2
    <3>2. ASSUME NEW i \in DOMAIN todo, todo[i].path = where PROVE Is(where)
      <4>1. CASE i = 1
        BY <3>2, <4>1, <1>1, <1>2
      <4>2. CASE i # 1
        <5>1. i \in 2 .. Len(todo) /\ i - 1 \in 1 .. Len(todo) - 1
          BY <3>2, <4>2, <1>1
        <5>2. Tail(todo)[i - 1] = todo[(i - 1) + 1] /\ (i - 1) + 1 = i
          BY <5>1, <1>1
        <5>3. Len(more) + (i - 1) \in 1 .. (Len(more) + (Len(todo) - 1))
          BY <5>1, <2>3, <1>1
        <5>4. (more \o Tail(todo))[Len(more) + (i - 1)] = Tail(todo)[i - 1]
          BY <5>1, <2>3
        <5> QED
          BY <3>2, <5>2, <5>3, <5>4, <2>1, <2>3
      <4> QED
        BY <4>1, <4>2
    <3> QED
      BY <2>4, <3>1, <3>2 DEF Due
  <2>5. ASSUME NEW j \in DOMAIN more PROVE Is(more[j].path)
    <3>1. j \in DOMAIN (more \o Tail(todo)) /\ (more \o Tail(todo))[j] = more[j]
      BY <2>3, <1>1
    <3> QED
      BY <3>1, <2>1
  <2>6. \A e \in shown' : /\ e.value \in Log!Values /\ e.leaf \in {"plain", "redacted", "circular", "object"}
                          /\ e.key = "password" => e.leaf = "redacted"
                          /\ e.leaf \in {"circular", "object"} => e.value \in expanded'
    BY <1>2, <1>5, <2>1 DEF RedactionInv
  <2>7. \A v \in expanded' : \E d \in shown' : d.value = v /\ d.leaf = "object"
    BY <1>2, <1>5, <2>1 DEF RedactionInv
  <2>8. \A d \in shown : d.leaf = "object" => d.value # entry.value
    BY <2>1 DEF RedactionInv
  <2>9. \A d, e \in shown' : (d.leaf = "object" /\ e.leaf = "object" /\ d.value = e.value) => d = e
    BY <1>2, <2>8 DEF RedactionInv
  <2>10. \A d \in shown' : d.leaf = "object" =>
          \A j \in DOMAIN Log!Entries(d.value, d.path) : Is(Log!Entries(d.value, d.path)[j].path)
    <3> HIDE DEF Is
    <3>1. ASSUME NEW d \in shown, d.leaf = "object", NEW j \in DOMAIN Log!Entries(d.value, d.path)
          PROVE  Is(Log!Entries(d.value, d.path)[j].path)
      BY <2>4, <3>1 DEF RedactionInv, EntriesDue
    <3>2. \A j \in DOMAIN Log!Entries(new.value, new.path) : Is(Log!Entries(new.value, new.path)[j].path)
      BY <1>2, <2>5 DEF more
    <3> QED
      BY <1>2, <3>1, <3>2
  <2>11. todo' \in Seq(LogEntries) /\ expanded' \subseteq LoggedObjects
    BY <2>1, <2>3 DEF RedactionInv
  <2> QED
    BY <1>2, <1>6, <2>11, <2>6, <2>7, <2>9, <2>10 DEF RedactionInv
<1> QED
  BY <1>4, <1>5

LEMMA RedactionStep ==
    ASSUME RedactionInv, [Log!Sanitize]_redaction
    PROVE  RedactionInv'
<1>1. CASE UNCHANGED redaction
  <2>1. heap' = heap /\ todo' = todo /\ expanded' = expanded /\ shown' = shown
    BY <1>1 DEF redaction
  <2>2. \A o, where : Log!Entries(o, where)' = Log!Entries(o, where)
    BY <2>1 DEF Log!Entries
  <2> QED
    BY <2>1, <2>2 DEF RedactionInv, EntriesDue, Due
<1>2. CASE Log!Sanitize
  <2> DEFINE entry == Head(todo)
  <2>1. todo # <<>> /\ entry.value \in Log!Values
    <3>1. todo # <<>> /\ todo \in Seq(LogEntries)
      BY <1>2 DEF Log!Sanitize, RedactionInv
    <3>2. Head(todo) \in LogEntries
      BY <3>1
    <3> QED
      BY <3>1, <3>2 DEF LogEntries
  <2>2. CASE Log!Sensitive(entry.key)
    BY <1>2, <2>1, <2>2, RedactionShows DEF Log!Sanitize
  <2>3. CASE ~Log!Sensitive(entry.key) /\ entry.value \in Log!Texts
    BY <1>2, <2>1, <2>3, RedactionShows DEF Log!Sanitize, Log!Redacted, Log!Texts, Log!Sensitive
  <2>4. CASE ~Log!Sensitive(entry.key) /\ entry.value \notin Log!Texts /\ Log!Repeated(entry.value)
    BY <1>2, <2>1, <2>4, RedactionShows DEF Log!Sanitize, Log!Repeated, Log!Sensitive
  <2>5. CASE ~Log!Sensitive(entry.key) /\ entry.value \notin Log!Texts /\ ~Log!Repeated(entry.value)
    BY <1>2, <2>1, <2>5, RedactionShows DEF Log!Sanitize, Log!Repeated, Log!Sensitive, Log!Values
  <2> QED
    BY <2>2, <2>3, <2>4, <2>5
<1> QED
  BY <1>1, <1>2
-----------------------------------------------------------------------------
(***************************************************************************)
(* Records.  A context's field is the last context's of the chain that names *)
(* it, and a record has it from there or from nobody's context.             *)
(***************************************************************************)
LastNames(f, who) ==
    IF who.who = "context" THEN who.n \in Log!Naming(f) /\ \A k \in Log!Naming(f) : k <= who.n
    ELSE who = Log!Nobody /\ Log!Naming(f) = {}

RecordsInv ==
    /\ contexts \in Seq(SUBSET (Log!Fields \cup {"requestId"})) /\ Log!RecordTypeOK
    /\ \A f \in Log!Fields : LastNames(f, context[f])
    /\ \/ record = Log!Unnamed
       \/ \A f \in Log!Fields : IF context[f] = Log!Nobody THEN record[f].who # "context"
                                ELSE record[f] = context[f]
    /\ event.audit => event.actor # Log!None

LEMMA RecordHolds ==
    ASSUME RecordsInv
    PROVE  Log!RecordTypeOK /\ Log!RecordsBelong
<1>1. ASSUME NEW f \in Log!Fields
      PROVE  /\ record[f].who = "context" => record[f].n \in Log!Naming(f) /\ \A k \in Log!Naming(f) : k <= record[f].n
             /\ record # Log!Unnamed /\ Log!Naming(f) # {} => record[f].who = "context"
  <2>1. LastNames(f, context[f]) /\ Log!Nobody.who # "context"
    BY DEF RecordsInv, Log!Nobody, Log!By
  <2>2. CASE record = Log!Unnamed
    BY <2>1, <2>2 DEF Log!Unnamed
  <2>3. CASE record # Log!Unnamed
    BY <2>1, <2>3 DEF RecordsInv, LastNames
  <2> QED
    BY <2>2, <2>3
<1> QED
  BY <1>1 DEF RecordsInv, Log!RecordsBelong

LEMMA RecordInitially ==
    ASSUME Log!RecordInit
    PROVE  RecordsInv
<1>1. /\ contexts = <<>> /\ context = Log!Unnamed /\ record = Log!Unnamed
      /\ event = [made |-> FALSE, audit |-> FALSE, actor |-> Log!None, details |-> {}]
      /\ MaxContexts \in Nat /\ DOMAIN contexts = {} /\ Len(contexts) = 0
  BY OperationsAssumption DEF Log!RecordInit, Log!NoEvent
<1>2. Log!Nobody = [who |-> "nobody", n |-> 0]
  BY DEF Log!Nobody, Log!By
<1>3. Log!RecordTypeOK
  BY <1>1, <1>2 DEF Log!RecordTypeOK, Log!Unnamed
<1>4. ASSUME NEW f \in Log!Fields PROVE LastNames(f, context[f])
  BY <1>1, <1>2, <1>4 DEF Log!Unnamed, Log!Naming, LastNames
<1> QED
  BY <1>1, <1>3, <1>4 DEF RecordsInv

LEMMA RecordsChild ==
    ASSUME RecordsInv, NEW names \in SUBSET (Log!Fields \cup {"requestId"}), Log!Child(names)
    PROVE  RecordsInv'
<1> DEFINE n == Len(contexts) + 1
           Names(f) == \E k \in names : Log!Alias(k) = f
<1>1. /\ Len(contexts) < MaxContexts /\ contexts' = Append(contexts, names)
      /\ context' = Log!Merged(context, names, Len(contexts')) /\ record' = Log!Unnamed /\ event' = event
  BY DEF Log!Child
<1>2. /\ contexts \in Seq(SUBSET (Log!Fields \cup {"requestId"})) /\ Len(contexts) \in Nat /\ MaxContexts \in Nat
      /\ context \in [Log!Fields -> [who : {"nobody", "context"}, n : 0 .. MaxContexts]]
  BY OperationsAssumption DEF RecordsInv, Log!RecordTypeOK
<1>3. /\ contexts' \in Seq(SUBSET (Log!Fields \cup {"requestId"})) /\ Len(contexts') = n
      /\ contexts'[n] = names /\ \A i \in 1 .. Len(contexts) : contexts'[i] = contexts[i]
      /\ DOMAIN contexts = 1 .. Len(contexts) /\ DOMAIN contexts' = 1 .. n
      /\ n \in 1 .. MaxContexts /\ \A i \in 1 .. n : i = n \/ i \in 1 .. Len(contexts)
  BY <1>1, <1>2
<1>4. context' = [f \in Log!Fields |-> IF Names(f) THEN [who |-> "context", n |-> n] ELSE context[f]]
  BY <1>1, <1>3 DEF Log!Merged, Log!By
<1>5. \A f : Log!Naming(f)' = IF Names(f) THEN Log!Naming(f) \cup {n} ELSE Log!Naming(f)
  <2> SUFFICES ASSUME NEW f PROVE Log!Naming(f)' = IF Names(f) THEN Log!Naming(f) \cup {n} ELSE Log!Naming(f)
    OBVIOUS
  <2>1. Log!Naming(f)' = {i \in 1 .. n : \E k \in contexts'[i] : Log!Alias(k) = f}
    BY <1>3 DEF Log!Naming, Log!Alias
  <2>2. Log!Naming(f) = {i \in 1 .. Len(contexts) : \E k \in contexts[i] : Log!Alias(k) = f}
    BY <1>3 DEF Log!Naming
  <2>3. \A i : i \in Log!Naming(f)' <=> (i \in Log!Naming(f) \/ (i = n /\ Names(f)))
    <3>1. n \notin 1 .. Len(contexts) /\ n \in 1 .. n /\ \A i \in 1 .. Len(contexts) : i \in 1 .. n
      BY <1>2
    <3> HIDE DEF n
    <3> QED
      BY <1>3, <2>1, <2>2, <3>1
  <2> QED
    BY <2>3
<1>6. \A f : \A k \in Log!Naming(f) : k \in 1 .. Len(contexts) /\ k <= n
  BY <1>2, <1>3 DEF Log!Naming
<1>7. Log!Nobody = [who |-> "nobody", n |-> 0]
  BY DEF Log!Nobody, Log!By
<1> HIDE DEF n, Names
<1>8. ASSUME NEW f \in Log!Fields PROVE LastNames(f, context[f])'
  <2>1. LastNames(f, context[f])
    BY DEF RecordsInv
  <2>2. CASE Names(f)
    BY <1>3, <1>4, <1>5, <1>6, <2>2 DEF LastNames
  <2>3. CASE ~Names(f)
    BY <1>4, <1>5, <2>1, <2>3 DEF LastNames, Log!Nobody, Log!By
  <2> QED
    BY <2>2, <2>3
<1>9. Log!RecordTypeOK'
  BY <1>1, <1>2, <1>3, <1>4, <1>7 DEF Log!Unnamed, RecordsInv, Log!RecordTypeOK
<1> QED
  BY <1>1, <1>3, <1>8, <1>9 DEF RecordsInv, Log!Unnamed

LEMMA RecordsLog ==
    ASSUME RecordsInv, NEW details \in SUBSET Log!Fields, Log!Log(details)
    PROVE  RecordsInv'
<1>1. /\ record' = [f \in Log!Fields |-> IF context[f] # Log!Nobody THEN context[f]
                       ELSE IF f \in details \ {"event"} THEN Log!By("details", 0) ELSE Log!Given[f]]
      /\ contexts' = contexts /\ context' = context /\ event' = event
  BY DEF Log!Log
<1>2. MaxContexts \in Nat /\ context \in [Log!Fields -> [who : {"nobody", "context"}, n : 0 .. MaxContexts]]
  BY OperationsAssumption DEF RecordsInv, Log!RecordTypeOK
<1>3. ASSUME NEW f \in Log!Fields
      PROVE  /\ record'[f] \in [who : {"nobody", "context", "call", "details"}, n : 0 .. MaxContexts]
             /\ IF context[f] = Log!Nobody THEN record'[f].who # "context" ELSE record'[f] = context[f]
  <2>1. context[f] \in [who : {"nobody", "context"}, n : 0 .. MaxContexts]
    BY <1>2
  <2>2. Log!By("details", 0) = [who |-> "details", n |-> 0]
    BY DEF Log!By
  <2>3. Log!Given[f] \in {[who |-> "call", n |-> 0], [who |-> "nobody", n |-> 0]}
    BY DEF Log!Given, Log!Unnamed, Log!Nobody, Log!By
  <2>4. CASE context[f] # Log!Nobody
    BY <1>1, <2>1, <2>4
  <2>5. CASE context[f] = Log!Nobody
    BY <1>1, <1>2, <2>2, <2>3, <2>5
  <2> QED
    BY <2>4, <2>5
<1>4. record' \in [Log!Fields -> [who : {"nobody", "context", "call", "details"}, n : 0 .. MaxContexts]]
  BY <1>1, <1>3
<1>5. Log!RecordTypeOK'
  BY <1>1, <1>4 DEF RecordsInv, Log!RecordTypeOK
<1>6. \A f \in Log!Fields : LastNames(f, context[f])'
  BY <1>1 DEF RecordsInv, LastNames, Log!Naming, Log!Nobody, Log!By
<1> QED
  BY <1>1, <1>3, <1>5, <1>6 DEF RecordsInv, Log!Unnamed, Log!Nobody, Log!By

LEMMA RecordsEvent ==
    ASSUME RecordsInv,
           NEW actor \in {"actor", "malformed", Log!None}, NEW audit \in BOOLEAN, NEW fits \in BOOLEAN,
           NEW details \in SUBSET Log!Fields,
           Log!CreateEvent(actor, audit, details, fits)
    PROVE  RecordsInv'
<1>1. contexts' = contexts /\ context' = context /\ record' = record
  BY DEF Log!CreateEvent
<1>2. /\ event' \in [made : BOOLEAN, audit : BOOLEAN, actor : {"actor", Log!None}, details : SUBSET Log!Fields]
      /\ event'.audit => event'.actor # Log!None
  <2>1. CASE Log!IdentifierThrows(actor, audit) \/ ~fits
    BY <2>1 DEF Log!CreateEvent, Log!NoEvent
  <2>2. CASE ~(Log!IdentifierThrows(actor, audit) \/ ~fits)
    BY <2>2 DEF Log!CreateEvent, Log!IdentifierThrows
  <2> QED
    BY <2>1, <2>2
<1>3. Log!RecordTypeOK'
  BY <1>1, <1>2 DEF RecordsInv, Log!RecordTypeOK
<1>4. \A f \in Log!Fields : LastNames(f, context[f])'
  BY <1>1 DEF RecordsInv, LastNames, Log!Naming, Log!Nobody, Log!By
<1> QED
  BY <1>1, <1>2, <1>3, <1>4 DEF RecordsInv, Log!Unnamed, Log!Nobody, Log!By

LEMMA RecordStep ==
    ASSUME RecordsInv, [Log!RecordNext]_records
    PROVE  RecordsInv'
<1>1. CASE UNCHANGED records
  BY <1>1 DEF records, RecordsInv, LastNames, Log!Naming, Log!Nobody, Log!By, Log!RecordTypeOK, Log!Unnamed
<1>2. CASE Log!RecordNext
  BY <1>2, RecordsChild, RecordsLog, RecordsEvent DEF Log!RecordNext
<1> QED
  BY <1>1, <1>2
-----------------------------------------------------------------------------
(***************************************************************************)
(* Projected secrets.  What a linked version holds never changes but by      *)
(* going, and a read knows how far the newest version is ahead of the one    *)
(* that was there when it began.                                            *)
(***************************************************************************)
LEMMA ProjectionRule ==
    MaxProjections \in Nat /\ MaxReads \in Nat /\ 1 \in Projection!Versions
BY OperationsAssumption DEF Projection!Versions

Reads ==
    [step : {"idle", "path", "stat", "file", "audit", "done"}, operation : {"get", "status"},
     from : 0 .. MaxProjections + 1, sound : BOOLEAN, target : Projection!Versions,
     statTime : 0 .. MaxProjections + 1,
     value : [content : Projection!Contents \cup {"gone", "empty"}, time : 0 .. MaxProjections + 1],
     answer : {"none", "lease", "ready", "expiring", "missing", "unsafe", "unavailable", "large", "audit"},
     held : BOOLEAN]

FilesInv ==
    /\ orchestrator \in {"docker", "kubernetes"} /\ linked \in Projection!Versions
    /\ files \in [Projection!Versions ->
                     [content : Projection!Contents \cup {"gone", "empty"}, time : 0 .. MaxProjections + 1]]
    /\ IF orchestrator = "kubernetes"
       THEN \A v \in Projection!Versions :
               IF files[v] = Projection!Gone THEN v # linked
               ELSE files[v].time = v /\ files[v].content \in Projection!Contents /\ v <= linked
       ELSE linked = 1 /\ files[1].content # "gone"

\* What a read on its way (r) has, and on record (rec).
Whole(r) ==
    /\ r.value.content \notin {"gone", "empty", "binary", "large"}
    /\ r.value.time >= r.from /\ r.statTime <= r.value.time
    /\ orchestrator = "kubernetes" => r.value.content = "whole" /\ r.statTime = r.value.time
ReadOk(r, rec) ==
    /\ r.from <= Projection!Newest.time
    /\ r.sound => Projection!Newest.content = "whole"
    /\ r.step \in {"stat", "file"} =>
          IF orchestrator = "kubernetes" THEN r.from <= r.target /\ r.target <= linked ELSE r.target = 1
    /\ r.step = "file" =>
          IF orchestrator = "kubernetes"
          THEN /\ r.statTime = r.target
               /\ files[r.target] = Projection!Gone \/ files[r.target].content \in {"whole", "binary"}
          ELSE r.statTime <= files[1].time
    /\ r.step \in {"path", "stat", "file"} => r.answer = "none" /\ rec = {}
    /\ r.step = "audit" =>
          /\ r.operation = "get" /\ r.answer \notin {"lease", "ready"}
          /\ r.answer = "none" => Whole(r)
          /\ r.answer # "audit" => rec = {}
    /\ r.step = "done" =>
          /\ r.answer # "none"
          /\ r.operation = "get" =>
                /\ r.answer # "ready" /\ (r.answer = "lease" => rec = {"success"})
                /\ r.answer \notin {"lease", "audit"} => rec = {"failed"}
    /\ r.answer \in {"lease", "ready"} => Whole(r)
    /\ r.answer \in {"missing", "unsafe", "unavailable", "large"} /\ r.sound => Projection!Newest.time > r.from

ProjectionInv ==
    /\ FilesInv /\ read \in Reads /\ ReadOk(read, recorded)
    /\ recorded \subseteq {"success", "failed"} /\ reads \in 0 .. MaxReads

LEMMA ProjectionHolds ==
    ASSUME ProjectionInv
    PROVE  Projection!TypeOK /\ Projection!ProjectedHolds
BY DEF ProjectionInv, FilesInv, Reads, Projection!TypeOK, ReadOk, Whole, Projection!GivenIsAVersion,
   Projection!Given, Projection!RecordTellsTheRead, Projection!RefusedForCause, Projection!ProjectedHolds

LEMMA NewestFile ==
    ASSUME FilesInv
    PROVE  /\ Projection!Newest = files[IF orchestrator = "kubernetes" THEN linked ELSE 1]
           /\ Projection!Newest.time \in 0 .. MaxProjections + 1
           /\ orchestrator = "kubernetes" =>
                 Projection!Newest.time = linked /\ Projection!Newest.content \in Projection!Contents
           /\ orchestrator = "docker" => Projection!Newest = files[1]
BY ProjectionRule DEF FilesInv, Projection!Newest

LEMMA ProjectionInitially ==
    ASSUME Projection!Init
    PROVE  ProjectionInv
<1>1. /\ orchestrator \in {"docker", "kubernetes"} /\ linked = 1 /\ recorded = {} /\ reads = 0
      /\ files = [v \in Projection!Versions |-> IF v = 1 THEN [content |-> "whole", time |-> 1]
                                                ELSE [content |-> "gone", time |-> 0]]
      /\ read = [step |-> "idle", operation |-> "get", from |-> 0, sound |-> FALSE, target |-> 1, statTime |-> 0,
                 value |-> [content |-> "gone", time |-> 0], answer |-> "none", held |-> FALSE]
  BY DEF Projection!Init, Projection!Idle, Projection!Gone, Projection!File
<1>2. /\ [content |-> "whole", time |-> 1] \in [content : Projection!Contents \cup {"gone", "empty"}, time : 0 .. MaxProjections + 1]
      /\ [content |-> "gone", time |-> 0] \in [content : Projection!Contents \cup {"gone", "empty"}, time : 0 .. MaxProjections + 1]
  BY ProjectionRule DEF Projection!Contents
<1>3. FilesInv
  BY <1>1, <1>2, ProjectionRule DEF FilesInv, Projection!Gone, Projection!Contents
<1>4. read \in Reads
  BY <1>1, <1>2, ProjectionRule DEF Reads
<1>5. ReadOk(read, recorded)
  BY <1>1, <1>3, NewestFile, ProjectionRule DEF ReadOk
<1> QED
  BY <1>1, <1>3, <1>4, <1>5, ProjectionRule DEF ProjectionInv

\* What the orchestrator does under a read: the newest version only gets newer, and a file that
\* was linked keeps its content or goes.
LEMMA ProjectionTurns ==
    ASSUME ProjectionInv, FilesInv', Projection!Projected, linked' >= linked,
           Projection!Newest.time <= Projection!Newest'.time,
           Projection!Newest'.time = Projection!Newest.time => ~read.sound \/ Projection!Newest'.content = "whole",
           orchestrator = "kubernetes" =>
              \A v \in 1 .. linked : files'[v] = files[v] \/ files'[v] = Projection!Gone,
           orchestrator = "docker" => files[1].time <= files'[1].time
    PROVE  ProjectionInv'
<1> DEFINE r == read'
<1>1. /\ orchestrator' = orchestrator /\ recorded' = recorded /\ reads' = reads
      /\ r = [read EXCEPT !.sound = read.sound /\ Projection!Newest'.content = "whole"]
      /\ read \in Reads
  BY DEF Projection!Projected, ProjectionInv
<1>2. /\ r \in Reads /\ r.step = read.step /\ r.operation = read.operation /\ r.from = read.from
      /\ r.target = read.target /\ r.statTime = read.statTime /\ r.value = read.value /\ r.answer = read.answer
  BY <1>1 DEF Reads
<1>3. r.sound => read.sound /\ Projection!Newest'.content = "whole"
  BY <1>1 DEF Reads
<1>4. /\ read.from \in 0 .. MaxProjections + 1 /\ read.target \in Projection!Versions
      /\ read.statTime \in 0 .. MaxProjections + 1 /\ read.value.time \in 0 .. MaxProjections + 1
      /\ linked \in Projection!Versions /\ linked' \in Projection!Versions
      /\ Projection!Newest.time \in 0 .. MaxProjections + 1 /\ Projection!Newest'.time \in 0 .. MaxProjections + 1
  BY <1>1, NewestFile DEF Reads, ProjectionInv, FilesInv, Projection!Newest
<1>5. ReadOk(read, recorded) /\ FilesInv /\ orchestrator \in {"docker", "kubernetes"}
  BY DEF ProjectionInv, FilesInv
<1> HIDE DEF r
<1>6. /\ r.from <= Projection!Newest'.time /\ (r.sound => Projection!Newest'.content = "whole")
  BY <1>2, <1>3, <1>4, <1>5, ProjectionRule DEF ReadOk
<1>7. r.step \in {"stat", "file"} =>
          IF orchestrator' = "kubernetes" THEN r.from <= r.target /\ r.target <= linked' ELSE r.target = 1
  BY <1>1, <1>2, <1>4, <1>5 DEF ReadOk, Projection!Versions
<1>8. r.step = "file" =>
          IF orchestrator' = "kubernetes"
          THEN /\ r.statTime = r.target
               /\ files'[r.target] = Projection!Gone \/ files'[r.target].content \in {"whole", "binary"}
          ELSE r.statTime <= files'[1].time
  <2>1. CASE orchestrator = "kubernetes" /\ read.step = "file"
    BY <1>1, <1>2, <1>4, <1>5, <2>1 DEF ReadOk, Projection!Versions
  <2>2. CASE orchestrator = "docker" /\ read.step = "file"
    BY <1>1, <1>2, <1>4, <1>5, <2>2, ProjectionRule DEF ProjectionInv, FilesInv, ReadOk
  <2> QED
    BY <1>2, <1>5, <2>1, <2>2
<1>9. r.answer \in {"missing", "unsafe", "unavailable", "large"} /\ r.sound => Projection!Newest'.time > r.from
  BY <1>2, <1>3, <1>4, <1>5, ProjectionRule DEF ReadOk
<1>10. Whole(read) => Whole(read)'
  BY <1>1, <1>2 DEF Whole, r
<1>11. /\ r.step \in {"path", "stat", "file"} => r.answer = "none" /\ recorded' = {}
       /\ r.step = "audit" =>
          /\ r.operation = "get" /\ r.answer \notin {"lease", "ready"}
          /\ r.answer = "none" => Whole(read)
          /\ r.answer # "audit" => recorded' = {}
       /\ r.step = "done" =>
          /\ r.answer # "none"
          /\ r.operation = "get" =>
                /\ r.answer # "ready" /\ (r.answer = "lease" => recorded' = {"success"})
                /\ r.answer \notin {"lease", "audit"} => recorded' = {"failed"}
       /\ r.answer \in {"lease", "ready"} => Whole(read)
  BY <1>1, <1>2, <1>5 DEF ReadOk
<1>12. ReadOk(read, recorded)'
  BY <1>6, <1>7, <1>8, <1>9, <1>10, <1>11 DEF ReadOk, r
<1> QED
  BY <1>1, <1>2, <1>12 DEF ProjectionInv, r

LEMMA ProjectionProject ==
    ASSUME ProjectionInv, Projection!Project
    PROVE  ProjectionInv'
<1>1. PICK content \in Projection!Contents :
          files' = [files EXCEPT ![linked + 1] = [content |-> content, time |-> linked + 1]]
  BY DEF Projection!Project, Projection!File
<1>2. /\ orchestrator = "kubernetes" /\ linked \in 1 .. MaxProjections /\ linked' = linked + 1
      /\ Projection!Projected /\ orchestrator' = orchestrator
      /\ files \in [Projection!Versions ->
                     [content : Projection!Contents \cup {"gone", "empty"}, time : 0 .. MaxProjections + 1]]
      /\ \A v \in Projection!Versions :
             IF files[v] = Projection!Gone THEN v # linked
             ELSE files[v].time = v /\ files[v].content \in Projection!Contents /\ v <= linked
  BY DEF Projection!Project, Projection!Projected, ProjectionInv, FilesInv
<1>3. /\ linked + 1 \in Projection!Versions /\ linked \in Projection!Versions /\ linked \in Nat
      /\ \A v \in 1 .. linked : v \in Projection!Versions /\ v # linked + 1
      /\ \A v \in Projection!Versions : v \in Nat
      /\ linked + 1 \in 0 .. MaxProjections + 1
  BY <1>2, ProjectionRule DEF Projection!Versions
<1> DEFINE new == [content |-> content, time |-> linked + 1]
<1>4. new.content = content /\ new.time = linked + 1 /\ content # "gone" /\ new # Projection!Gone
  BY DEF Projection!Contents, Projection!Gone
<1>5. new \in [content : Projection!Contents \cup {"gone", "empty"}, time : 0 .. MaxProjections + 1]
  BY <1>3
<1> HIDE DEF new
<1>6. /\ files'[linked + 1] = new
      /\ \A v \in Projection!Versions : v # linked + 1 => files'[v] = files[v]
      /\ files' \in [Projection!Versions ->
                     [content : Projection!Contents \cup {"gone", "empty"}, time : 0 .. MaxProjections + 1]]
  BY <1>1, <1>2, <1>3, <1>5 DEF new
<1>7. FilesInv'
  <2>1. ASSUME NEW v \in Projection!Versions
        PROVE  IF files'[v] = Projection!Gone THEN v # linked'
               ELSE files'[v].time = v /\ files'[v].content \in Projection!Contents /\ v <= linked'
    <3>1. CASE v = linked + 1
      BY <1>2, <1>3, <1>4, <1>6, <3>1
    <3>2. CASE v # linked + 1
      BY <1>2, <1>3, <1>6, <3>2
    <3> QED
      BY <3>1, <3>2
  <2> QED
    BY <1>2, <1>3, <1>6, <2>1 DEF FilesInv, Projection!Gone
<1>8. Projection!Newest.time = linked /\ Projection!Newest'.time = linked + 1
  BY <1>2, <1>4, <1>6, NewestFile DEF ProjectionInv, Projection!Newest
<1>9. \A v \in 1 .. linked : files'[v] = files[v]
  BY <1>3, <1>6
<1>10. /\ linked' >= linked /\ Projection!Newest.time <= Projection!Newest'.time
       /\ Projection!Newest'.time # Projection!Newest.time
  BY <1>2, <1>3, <1>8
<1> QED
  BY <1>2, <1>7, <1>9, <1>10, ProjectionTurns

LEMMA ProjectionSweep ==
    ASSUME ProjectionInv, Projection!Sweep
    PROVE  ProjectionInv'
<1>1. PICK u \in Projection!Versions : u < linked /\ files' = [files EXCEPT ![u] = Projection!Gone]
  BY DEF Projection!Sweep
<1>2. /\ orchestrator = "kubernetes" /\ linked' = linked /\ Projection!Projected /\ orchestrator' = orchestrator
      /\ linked \in Projection!Versions
      /\ files \in [Projection!Versions ->
                     [content : Projection!Contents \cup {"gone", "empty"}, time : 0 .. MaxProjections + 1]]
      /\ \A v \in Projection!Versions :
             IF files[v] = Projection!Gone THEN v # linked
             ELSE files[v].time = v /\ files[v].content \in Projection!Contents /\ v <= linked
  BY DEF Projection!Sweep, Projection!Projected, ProjectionInv, FilesInv
<1>3. /\ \A v \in 1 .. linked : v \in Projection!Versions
      /\ \A v \in Projection!Versions : v \in Nat
      /\ Projection!Gone \in [content : Projection!Contents \cup {"gone", "empty"}, time : 0 .. MaxProjections + 1]
  BY <1>2, ProjectionRule DEF Projection!Versions, Projection!Gone
<1>4. /\ files'[u] = Projection!Gone /\ u # linked
      /\ \A v \in Projection!Versions : v # u => files'[v] = files[v]
      /\ files' \in [Projection!Versions ->
                     [content : Projection!Contents \cup {"gone", "empty"}, time : 0 .. MaxProjections + 1]]
  BY <1>1, <1>2, <1>3
<1>5. FilesInv'
  BY <1>2, <1>4 DEF FilesInv
<1>6. Projection!Newest' = Projection!Newest
  BY <1>2, <1>4 DEF Projection!Newest
<1>7. /\ \A v \in 1 .. linked : files'[v] = files[v] \/ files'[v] = Projection!Gone
      /\ linked' >= linked
  BY <1>2, <1>3, <1>4
<1>8. Projection!Newest.time <= Projection!Newest'.time
  BY <1>6, NewestFile, ProjectionRule DEF ProjectionInv
<1>9. Projection!Newest'.time = Projection!Newest.time => ~read.sound \/ Projection!Newest'.content = "whole"
  BY <1>6 DEF ProjectionInv, ReadOk
<1> QED
  BY <1>2, <1>5, <1>7, <1>8, <1>9, ProjectionTurns

LEMMA ProjectionRewrite ==
    ASSUME ProjectionInv, Projection!Rewrite
    PROVE  ProjectionInv'
<1>1. /\ orchestrator = "docker" /\ linked' = linked /\ Projection!Projected /\ orchestrator' = orchestrator
      /\ linked = 1 /\ files[1].content # "gone"
      /\ files \in [Projection!Versions ->
                     [content : Projection!Contents \cup {"gone", "empty"}, time : 0 .. MaxProjections + 1]]
      /\ FilesInv /\ 1 \in Projection!Versions
  BY ProjectionRule DEF Projection!Rewrite, Projection!Projected, ProjectionInv, FilesInv
<1>2. files[1] \in [content : Projection!Contents \cup {"gone", "empty"}, time : 0 .. MaxProjections + 1]
  BY <1>1
<1>3. Projection!Newest = files[1] /\ Projection!Newest' = files'[1]
  BY <1>1 DEF Projection!Newest
<1>4. ASSUME NEW f \in [content : Projection!Contents \cup {"gone", "empty"}, time : 0 .. MaxProjections + 1],
             files' = [files EXCEPT ![1] = f], f.content # "gone", files[1].time <= f.time,
             files[1].time = f.time => ~read.sound \/ f.content = "whole"
      PROVE  ProjectionInv'
  BY <1>1, <1>3, <1>4, ProjectionTurns DEF FilesInv
<1>5. CASE files[1].time <= MaxProjections /\ files[1].content # "empty"
           /\ files' = [files EXCEPT ![1] = Projection!File("empty", @.time + 1)]
  <2> DEFINE t == files[1].time
             f == [content |-> "empty", time |-> t + 1]
  <2>1. t \in 0 .. MaxProjections + 1 /\ t <= MaxProjections
    BY <1>2, <1>5
  <2>2. files' = [files EXCEPT ![1] = f]
    BY <1>5 DEF Projection!File
  <2> HIDE DEF t
  <2>3. t + 1 \in 0 .. MaxProjections + 1 /\ t <= t + 1 /\ t # t + 1
    BY <2>1, ProjectionRule
  <2>4. /\ f \in [content : Projection!Contents \cup {"gone", "empty"}, time : 0 .. MaxProjections + 1]
        /\ f.content # "gone" /\ f.time = t + 1
    BY <2>3
  <2> HIDE DEF f
  <2> QED
    BY <1>4, <2>2, <2>3, <2>4 DEF t
<1>6. ASSUME NEW content \in Projection!Contents,
             files[1].content = "empty", files' = [files EXCEPT ![1].content = content]
      PROVE  ProjectionInv'
  <2> DEFINE f == [files[1] EXCEPT !.content = content]
  <2>1. /\ f \in [content : Projection!Contents \cup {"gone", "empty"}, time : 0 .. MaxProjections + 1]
        /\ f.content = content /\ f.time = files[1].time /\ content # "gone"
    BY <1>2 DEF Projection!Contents
  <2>2. files' = [files EXCEPT ![1] = f]
    BY <1>6
  <2>3. ~read.sound
    BY <1>3, <1>6 DEF ProjectionInv, ReadOk
  <2>4. files[1].time <= files[1].time
    BY <1>2, ProjectionRule
  <2> HIDE DEF f
  <2> QED
    BY <1>4, <2>1, <2>2, <2>3, <2>4
<1> QED
  BY <1>5, <1>6 DEF Projection!Rewrite

\* What a call does leaves the files as they are.
LEMMA ProjectionReads ==
    ASSUME ProjectionInv, read' \in Reads, ReadOk(read', recorded'), recorded' \subseteq {"success", "failed"},
           reads' \in 0 .. MaxReads, orchestrator' = orchestrator, linked' = linked, files' = files
    PROVE  ProjectionInv'
BY DEF ProjectionInv, FilesInv, Projection!Newest, Whole, ReadOk

\* A call that fails before its record has one to make.
LEMMA ProjectionRefuses ==
    ASSUME ProjectionInv, read.step \in {"path", "stat", "file"},
           NEW code \in {"expiring", "missing", "unsafe", "unavailable", "large"},
           code = "expiring" => read.operation = "get",
           code # "expiring" /\ read.sound => Projection!Newest.time > read.from,
           Projection!Fails(code), recorded' = recorded, reads' = reads,
           orchestrator' = orchestrator, linked' = linked, files' = files
    PROVE  ProjectionInv'
<1> DEFINE r == read'
<1>1. /\ read \in Reads /\ ReadOk(read, recorded) /\ reads \in 0 .. MaxReads
      /\ recorded \subseteq {"success", "failed"}
      /\ r = [read EXCEPT !.step = IF read.operation = "get" THEN "audit" ELSE "done", !.answer = code]
  BY DEF ProjectionInv, Projection!Fails
<1>2. /\ r \in Reads /\ r.operation = read.operation /\ r.from = read.from /\ r.sound = read.sound
      /\ r.target = read.target /\ r.answer = code
      /\ r.step = IF read.operation = "get" THEN "audit" ELSE "done"
  BY <1>1 DEF Reads
<1>3. read.operation \in {"get", "status"}
  BY <1>1 DEF Reads
<1> HIDE DEF r
<1>4. ReadOk(r, recorded)
  BY <1>1, <1>2, <1>3 DEF ReadOk
<1> QED
  BY <1>1, <1>2, <1>4, ProjectionReads DEF r

LEMMA ProjectionBegin ==
    ASSUME ProjectionInv, Projection!Begin
    PROVE  ProjectionInv'
<1> DEFINE r == read'
<1>1. PICK operation \in {"get", "status"} :
          r = [Projection!Idle EXCEPT !.step = "path", !.operation = operation, !.from = Projection!Newest.time,
                                      !.sound = Projection!Newest.content = "whole"]
  BY DEF Projection!Begin
<1>2. /\ recorded' = {} /\ reads' = reads + 1 /\ reads < MaxReads /\ reads \in 0 .. MaxReads
      /\ orchestrator' = orchestrator /\ linked' = linked /\ files' = files /\ FilesInv
  BY DEF Projection!Begin, ProjectionInv
<1>3. Projection!Newest.time \in 0 .. MaxProjections + 1
  BY <1>2, NewestFile
<1>4. (Projection!Newest.content = "whole") \in BOOLEAN
  OBVIOUS
<1>5. r = [step |-> "path", operation |-> operation, from |-> Projection!Newest.time,
           sound |-> Projection!Newest.content = "whole", target |-> 1, statTime |-> 0,
           value |-> [content |-> "gone", time |-> 0], answer |-> "none", held |-> FALSE]
  BY <1>1 DEF Projection!Idle, Projection!Gone
<1>6. [content |-> "gone", time |-> 0] \in [content : Projection!Contents \cup {"gone", "empty"}, time : 0 .. MaxProjections + 1]
  BY ProjectionRule
<1>7. /\ r \in Reads /\ r.step = "path" /\ r.from = Projection!Newest.time /\ r.answer = "none"
      /\ r.sound => Projection!Newest.content = "whole"
  BY <1>3, <1>5, <1>6, ProjectionRule DEF Reads
<1> HIDE DEF r
<1>8. ReadOk(r, {})
  BY <1>3, <1>7, ProjectionRule DEF ReadOk
<1>9. reads' \in 0 .. MaxReads
  BY <1>2, ProjectionRule
<1> QED
  BY <1>2, <1>7, <1>8, <1>9, ProjectionReads DEF r

LEMMA ProjectionResolves ==
    ASSUME ProjectionInv, Projection!Expiring \/ Projection!Resolve
    PROVE  ProjectionInv'
<1> DEFINE r == read'
<1>1. /\ read.step = "path" /\ orchestrator' = orchestrator /\ linked' = linked /\ files' = files
      /\ reads' = reads /\ recorded' = recorded
  BY DEF Projection!Expiring, Projection!Resolve, Projection!At
<1>2. CASE Projection!Expiring
  BY <1>1, <1>2, ProjectionRefuses DEF Projection!Expiring
<1>3. CASE Projection!Resolve
  <2> DEFINE target == IF orchestrator = "kubernetes" THEN linked ELSE 1
  <2>1. r = [[read EXCEPT !.target = target] EXCEPT !.step = "stat"]
    BY <1>1, <1>3 DEF Projection!Resolve, Projection!Goes
  <2>2. read \in Reads /\ ReadOk(read, recorded) /\ FilesInv
    BY DEF ProjectionInv
  <2>3. target \in Projection!Versions
    BY <2>2, ProjectionRule DEF FilesInv
  <2> HIDE DEF target
  <2>4. /\ r \in Reads /\ r.step = "stat" /\ r.target = target /\ r.from = read.from /\ r.sound = read.sound
        /\ r.answer = read.answer
    BY <2>1, <2>2, <2>3 DEF Reads
  <2> HIDE DEF r
  <2>5. orchestrator = "kubernetes" => r.from <= r.target /\ r.target <= linked
    BY <2>2, <2>4, NewestFile, ProjectionRule DEF ReadOk, target, FilesInv, Projection!Versions
  <2>6. orchestrator # "kubernetes" => r.target = 1
    BY <2>4 DEF target
  <2>7. ReadOk(r, recorded)
    BY <1>1, <2>2, <2>4, <2>5, <2>6 DEF ReadOk
  <2> QED
    BY <1>1, <2>4, <2>7, ProjectionReads DEF r, ProjectionInv
<1> QED
  BY <1>2, <1>3

\* Whoever looks at the newest version, while it is sound, finds it so.
LEMMA ProjectionTarget ==
    ASSUME ProjectionInv, read.step \in {"stat", "file"}
    PROVE  /\ read.target \in Projection!Versions
           /\ files[read.target] \in [content : Projection!Contents \cup {"gone", "empty"}, time : 0 .. MaxProjections + 1]
           /\ read.sound /\ files[read.target].content # "whole" => Projection!Newest.time > read.from
           /\ orchestrator = "kubernetes" /\ files[read.target] # Projection!Gone =>
                 files[read.target].time = read.target /\ files[read.target].content \in Projection!Contents
           /\ orchestrator = "kubernetes" => read.from <= read.target
           /\ orchestrator = "docker" => read.target = 1 /\ read.from <= files[1].time /\ files[1].content # "gone"
           /\ orchestrator \in {"docker", "kubernetes"}
<1>1. /\ read \in Reads /\ ReadOk(read, recorded) /\ FilesInv /\ orchestrator \in {"docker", "kubernetes"}
      /\ linked \in Projection!Versions
  BY DEF ProjectionInv, FilesInv
<1>2. /\ read.target \in Projection!Versions /\ read.from \in 0 .. MaxProjections + 1
      /\ files[read.target] \in [content : Projection!Contents \cup {"gone", "empty"}, time : 0 .. MaxProjections + 1]
  BY <1>1 DEF Reads, FilesInv
<1>3. CASE orchestrator = "kubernetes"
  <2>1. read.from <= read.target /\ read.target <= linked /\ Projection!Newest.time = linked
        /\ Projection!Newest = files[linked] /\ (read.sound => files[linked].content = "whole")
    BY <1>1, <1>3, NewestFile DEF ReadOk
  <2>2. read.sound /\ files[read.target].content # "whole" => read.target # linked
    BY <2>1
  <2>3. read.target # linked => read.from < linked
    BY <1>1, <1>2, <2>1, ProjectionRule DEF Projection!Versions
  <2>4. files[read.target] # Projection!Gone =>
           files[read.target].time = read.target /\ files[read.target].content \in Projection!Contents
    BY <1>1, <1>2, <1>3 DEF FilesInv
  <2>5. read.from < linked => linked > read.from
    BY <1>1, <1>2 DEF Projection!Versions
  <2> QED
    BY <1>2, <1>3, <2>1, <2>2, <2>3, <2>4, <2>5
<1>4. CASE orchestrator = "docker"
  BY <1>1, <1>2, <1>4, NewestFile DEF ReadOk, FilesInv
<1> QED
  BY <1>1, <1>3, <1>4

LEMMA ProjectionStats ==
    ASSUME ProjectionInv, Projection!Stat
    PROVE  ProjectionInv'
<1> DEFINE r == read'
           f == files[read.target]
<1>1. /\ read.step = "stat" /\ orchestrator' = orchestrator /\ linked' = linked /\ files' = files
      /\ reads' = reads /\ recorded' = recorded
  BY DEF Projection!Stat, Projection!At
<1>2. /\ f \in [content : Projection!Contents \cup {"gone", "empty"}, time : 0 .. MaxProjections + 1]
      /\ f = Projection!Gone => f.content = "gone"
  BY <1>1, ProjectionTarget DEF Projection!Gone
<1>3. CASE f = Projection!Gone \/ f.content \in {"writable", "empty", "large"}
  <2>1. PICK code \in {"missing", "unsafe", "unavailable", "large"} : Projection!Fails(code)
    <3>1. CASE f = Projection!Gone
      BY <1>2, <3>1 DEF Projection!Stat
    <3>2. CASE f.content = "writable"
      BY <1>2, <3>2 DEF Projection!Stat
    <3>3. CASE f.content = "empty"
      BY <1>2, <3>3 DEF Projection!Stat
    <3>4. CASE f.content = "large"
      BY <1>2, <3>4 DEF Projection!Stat
    <3> QED
      BY <1>3, <3>1, <3>2, <3>3, <3>4
  <2>2. read.sound => Projection!Newest.time > read.from
    BY <1>1, <1>2, <1>3, ProjectionTarget
  <2> QED
    BY <1>1, <2>1, <2>2, ProjectionRefuses
<1>4. CASE ~(f = Projection!Gone \/ f.content \in {"writable", "empty", "large"})
  <2>1. Projection!Goes([read EXCEPT !.statTime = f.time])
    BY <1>4 DEF Projection!Stat
  <2>2. r = [[read EXCEPT !.statTime = f.time] EXCEPT !.step = "file"]
    BY <1>1, <2>1 DEF Projection!Goes
  <2>3. read \in Reads /\ ReadOk(read, recorded)
    BY DEF ProjectionInv
  <2>4. /\ r \in Reads /\ r.step = "file" /\ r.target = read.target /\ r.from = read.from /\ r.sound = read.sound
        /\ r.answer = read.answer /\ r.statTime = f.time
    BY <1>2, <2>2, <2>3 DEF Reads
  <2> HIDE DEF r
  <2>5. CASE orchestrator = "kubernetes"
    BY <1>1, <1>4, <2>3, <2>4, <2>5, ProjectionTarget, ProjectionReads DEF Projection!Contents, r, ReadOk,
       ProjectionInv
  <2>6. CASE orchestrator = "docker"
    BY <1>1, <1>2, <2>3, <2>4, <2>6, ProjectionTarget, ProjectionRule, ProjectionReads DEF ReadOk, r,
       ProjectionInv
  <2> QED
    BY <1>1, <2>5, <2>6, ProjectionTarget
<1> QED
  BY <1>3, <1>4

LEMMA ProjectionReadFile ==
    ASSUME ProjectionInv, Projection!ReadFile
    PROVE  ProjectionInv'
<1> DEFINE r == read'
           f == files[read.target]
<1>1. /\ read.step = "file" /\ orchestrator' = orchestrator /\ linked' = linked /\ files' = files
      /\ reads' = reads /\ recorded' = recorded /\ read \in Reads /\ ReadOk(read, recorded)
      /\ orchestrator \in {"docker", "kubernetes"}
  BY DEF Projection!ReadFile, Projection!At, ProjectionInv, FilesInv
<1>2. f \in [content : Projection!Contents \cup {"gone", "empty"}, time : 0 .. MaxProjections + 1]
  BY <1>1, ProjectionTarget
<1>3. CASE f.content \in {"gone", "empty", "binary", "large"}
  <2>1. PICK code \in {"missing", "unsafe", "unavailable", "large"} : Projection!Fails(code)
    <3>1. CASE f.content \in {"gone", "empty", "binary"}
      BY <3>1 DEF Projection!ReadFile
    <3>2. CASE f.content = "large"
      BY <3>2 DEF Projection!ReadFile
    <3> QED
      BY <1>3, <3>1, <3>2
  <2>2. read.sound => Projection!Newest.time > read.from
    BY <1>1, <1>2, <1>3, ProjectionTarget
  <2> QED
    BY <1>1, <2>1, <2>2, ProjectionRefuses
<1>4. CASE f.content \notin {"gone", "empty", "binary", "large"}
  <2>1. IF read.operation = "get" THEN Projection!Goes([read EXCEPT !.value = f])
        ELSE r = [read EXCEPT !.step = "done", !.value = f, !.answer = "ready"]
    BY <1>4 DEF Projection!ReadFile
  <2>2. f # Projection!Gone /\ read.operation \in {"get", "status"}
    BY <1>1, <1>4 DEF Projection!Gone, Reads
  <2>3. /\ f.time >= read.from /\ read.statTime <= f.time
        /\ orchestrator = "kubernetes" => f.content = "whole" /\ read.statTime = f.time
    <3>1. CASE orchestrator = "kubernetes"
      BY <1>1, <1>4, <2>2, <3>1, ProjectionTarget, ProjectionRule DEF ReadOk, Reads, Projection!Versions
    <3>2. CASE orchestrator = "docker"
      BY <1>1, <1>2, <3>2, ProjectionTarget, ProjectionRule DEF ReadOk, Reads
    <3> QED
      BY <1>1, <3>1, <3>2
  <2> HIDE DEF f
  <2>4. CASE read.operation = "get"
    <3>1. r = [[read EXCEPT !.value = f] EXCEPT !.step = "audit"]
      BY <1>1, <2>1, <2>4 DEF Projection!Goes
    <3>2. /\ r \in Reads /\ r.step = "audit" /\ r.from = read.from /\ r.sound = read.sound /\ r.operation = "get"
          /\ r.answer = read.answer /\ r.statTime = read.statTime /\ r.value = f
      BY <1>1, <1>2, <2>4, <3>1 DEF Reads
    <3> HIDE DEF r
    <3>3. Whole(r)
      BY <1>4, <2>3, <3>2 DEF Whole
    <3>4. ReadOk(r, recorded)
      BY <1>1, <3>2, <3>3 DEF ReadOk
    <3> QED
      BY <1>1, <3>2, <3>4, ProjectionReads DEF r, ProjectionInv
  <2>5. CASE read.operation = "status"
    <3>1. r = [read EXCEPT !.step = "done", !.value = f, !.answer = "ready"]
      BY <2>1, <2>5
    <3>2. /\ r \in Reads /\ r.step = "done" /\ r.from = read.from /\ r.sound = read.sound /\ r.operation = "status"
          /\ r.answer = "ready" /\ r.statTime = read.statTime /\ r.value = f
      BY <1>1, <1>2, <2>5, <3>1 DEF Reads
    <3> HIDE DEF r
    <3>3. Whole(r)
      BY <1>4, <2>3, <3>2 DEF Whole
    <3>4. ReadOk(r, recorded)
      BY <1>1, <3>2, <3>3 DEF ReadOk
    <3> QED
      BY <1>1, <3>2, <3>4, ProjectionReads DEF r, ProjectionInv
  <2> QED
    BY <2>2, <2>4, <2>5
<1> QED
  BY <1>3, <1>4

LEMMA ProjectionEmits ==
    ASSUME ProjectionInv, Projection!Emit
    PROVE  ProjectionInv'
<1> DEFINE r == read'
           rec == recorded'
<1>1. /\ read.step = "audit" /\ orchestrator' = orchestrator /\ linked' = linked /\ files' = files
      /\ reads' = reads /\ read \in Reads /\ ReadOk(read, recorded) /\ reads \in 0 .. MaxReads
      /\ recorded \subseteq {"success", "failed"} /\ read.operation = "get"
      /\ read.answer \notin {"lease", "ready"}
  BY DEF Projection!Emit, Projection!At, ProjectionInv, ReadOk
<1>2. CASE read.answer = "none"
  <2>1. Whole(read) /\ recorded = {}
    BY <1>1, <1>2 DEF ReadOk
  <2>2. CASE rec = recorded \cup {"success"}
             /\ r = [read EXCEPT !.step = "done", !.answer = "lease", !.held = TRUE]
    <3>1. /\ r \in Reads /\ r.step = "done" /\ r.from = read.from /\ r.sound = read.sound /\ r.operation = "get"
          /\ r.answer = "lease" /\ r.statTime = read.statTime /\ r.value = read.value
      BY <1>1, <2>2 DEF Reads
    <3>2. rec = {"success"}
      BY <2>1, <2>2
    <3> HIDE DEF r, rec
    <3>3. Whole(r)
      BY <2>1, <3>1 DEF Whole
    <3>4. ReadOk(r, rec)
      BY <1>1, <3>1, <3>2, <3>3 DEF ReadOk
    <3> QED
      BY <1>1, <3>1, <3>2, <3>4, ProjectionReads DEF r, rec
  <2>3. CASE rec \in {recorded, recorded \cup {"success"}}
             /\ r = [read EXCEPT !.answer = "audit", !.value = Projection!Gone]
    <3>1. /\ r \in Reads /\ r.step = "audit" /\ r.from = read.from /\ r.sound = read.sound /\ r.operation = "get"
          /\ r.answer = "audit"
      <4>1. Projection!Gone \in [content : Projection!Contents \cup {"gone", "empty"}, time : 0 .. MaxProjections + 1]
        BY ProjectionRule DEF Projection!Gone
      <4> QED
        BY <1>1, <2>3, <4>1 DEF Reads
    <3>2. rec \subseteq {"success", "failed"}
      BY <1>1, <2>3
    <3> HIDE DEF r, rec
    <3>3. ReadOk(r, rec)
      BY <1>1, <3>1 DEF ReadOk
    <3> QED
      BY <1>1, <3>1, <3>2, <3>3, ProjectionReads DEF r, rec
  <2> QED
    BY <1>2, <2>2, <2>3 DEF Projection!Emit
<1>3. CASE read.answer # "none"
  <2>1. PICK code \in {read.answer, "audit"} :
            /\ Projection!Fails(code)
            /\ code # "audit" => rec = recorded \cup {"failed"}
            /\ rec \in {recorded, recorded \cup {"failed"}}
    BY <1>3 DEF Projection!Emit
  <2>2. r = [read EXCEPT !.step = "done", !.answer = code]
    BY <1>1, <2>1 DEF Projection!Fails
  <2>3. code \in {"expiring", "missing", "unsafe", "unavailable", "large", "audit"}
    BY <1>1, <1>3, <2>1 DEF Reads
  <2>4. /\ r \in Reads /\ r.step = "done" /\ r.from = read.from /\ r.sound = read.sound /\ r.operation = "get"
        /\ r.answer = code
    BY <1>1, <2>2, <2>3 DEF Reads
  <2>5. code # "audit" => code = read.answer /\ rec = {"failed"}
    BY <1>1, <2>1 DEF ReadOk
  <2>6. rec \subseteq {"success", "failed"}
    BY <1>1, <2>1
  <2> HIDE DEF r, rec
  <2>7. ReadOk(r, rec)
    BY <1>1, <2>3, <2>4, <2>5 DEF ReadOk
  <2> QED
    BY <1>1, <2>4, <2>6, <2>7, ProjectionReads DEF r, rec
<1> QED
  BY <1>2, <1>3

LEMMA ProjectionResolver ==
    ASSUME ProjectionInv, Projection!Resolver
    PROVE  ProjectionInv'
<1> DEFINE r == read'
<1>1. /\ read.step = "done" /\ orchestrator' = orchestrator /\ linked' = linked /\ files' = files
      /\ reads' = reads /\ recorded' = recorded /\ read \in Reads /\ ReadOk(read, recorded)
      /\ r = [read EXCEPT !.held = FALSE]
  BY DEF Projection!Resolver, Projection!At, ProjectionInv
<1>2. /\ r \in Reads /\ r.step = "done" /\ r.from = read.from /\ r.sound = read.sound
      /\ r.operation = read.operation /\ r.answer = read.answer /\ r.statTime = read.statTime
      /\ r.value = read.value
  BY <1>1 DEF Reads
<1> HIDE DEF r
<1>3. Whole(read) => Whole(r)
  BY <1>2 DEF Whole
<1>4. ReadOk(r, recorded)
  BY <1>1, <1>2, <1>3 DEF ReadOk
<1> QED
  BY <1>1, <1>2, <1>4, ProjectionReads DEF r, ProjectionInv

LEMMA ProjectionStep ==
    ASSUME ProjectionInv, [Projection!Next]_projection
    PROVE  ProjectionInv'
<1>1. CASE UNCHANGED projection
  BY <1>1, ProjectionReads DEF projection, ProjectionInv
<1>2. CASE Projection!Next
  BY <1>2, ProjectionProject, ProjectionSweep, ProjectionRewrite, ProjectionBegin, ProjectionResolves,
     ProjectionStats, ProjectionReadFile, ProjectionEmits, ProjectionResolver DEF Projection!Next
<1> QED
  BY <1>1, <1>2
-----------------------------------------------------------------------------
(***************************************************************************)
(* Configuration.  A field of a configuration that passes has what was said  *)
(* first of it, and that is a text its reader takes, or nothing where        *)
(* nothing may be said.                                                     *)
(***************************************************************************)
LEMMA FieldsApart ==
    /\ \A f \in Startup!OnFlags : f \notin Startup!OffFlags
    /\ \A f \in Startup!OnFlags \cup Startup!OffFlags :
          f \notin Startup!Numbers \cup Startup!Chosen \cup Startup!Optional \cup Startup!PanelReferences
    /\ \A f \in Startup!Chosen :
          f \notin Startup!Numbers \cup Startup!Optional \cup Startup!PanelReferences
    /\ \A f \in {"schemaVersion", "retention.trashDays"} :
          f \notin Startup!Chosen \cup Startup!OnFlags \cup Startup!OffFlags
BY DEF Startup!OnFlags, Startup!OffFlags, Startup!Numbers, Startup!Chosen, Startup!Optional, Startup!PanelReferences

LEMMA ChoicesGood ==
    ASSUME NEW f \in Startup!Chosen
    PROVE  /\ 1 \in DOMAIN Startup!Choices(f)
           /\ \A i \in DOMAIN Startup!Choices(f) : Startup!Choices(f)[i] \notin {"bad", "beyond", ""}
           /\ f = "ldap.url" => \A i \in DOMAIN Startup!Choices(f) : Startup!Choices(f)[i] \in {"ldaps", "ldap"}
<1>1. CASE f = "identity.source"
  <2>1. Startup!Choices(f) = <<"ldap", "database">>
    BY <1>1 DEF Startup!Choices
  <2>2. /\ 1 \in DOMAIN Startup!Choices(f)
        /\ \A i \in DOMAIN Startup!Choices(f) : Startup!Choices(f)[i] \in {"ldap", "database"}
    BY <2>1
  <2> QED
    BY <1>1, <2>2
<1>2. CASE f = "ldap.url"
  <2>1. Startup!Choices(f) = <<"ldaps", "ldap">>
    BY <1>2 DEF Startup!Choices
  <2>2. /\ 1 \in DOMAIN Startup!Choices(f)
        /\ \A i \in DOMAIN Startup!Choices(f) : Startup!Choices(f)[i] \in {"ldaps", "ldap"}
    BY <2>1
  <2> QED
    BY <1>2, <2>2
<1>3. CASE f = "postgres.sslMode"
  <2>1. Startup!Choices(f) = <<"verify-full", "disable">>
    BY <1>3 DEF Startup!Choices
  <2>2. /\ 1 \in DOMAIN Startup!Choices(f)
        /\ \A i \in DOMAIN Startup!Choices(f) : Startup!Choices(f)[i] \in {"verify-full", "disable"}
    BY <2>1
  <2> QED
    BY <1>3, <2>2
<1>4. CASE f = "controlPanel.provider"
  <2>1. Startup!Choices(f) = <<"none", "plesk", "cpanel">>
    BY <1>4 DEF Startup!Choices
  <2>2. /\ 1 \in DOMAIN Startup!Choices(f)
        /\ \A i \in DOMAIN Startup!Choices(f) : Startup!Choices(f)[i] \in {"none", "plesk", "cpanel"}
    BY <2>1
  <2> QED
    BY <1>4, <2>2
<1>5. CASE f = "controlPanel.syncMode"
  <2>1. Startup!Choices(f) = <<"pull", "webhook", "hybrid">>
    BY <1>5 DEF Startup!Choices
  <2>2. /\ 1 \in DOMAIN Startup!Choices(f)
        /\ \A i \in DOMAIN Startup!Choices(f) : Startup!Choices(f)[i] \in {"pull", "webhook", "hybrid"}
    BY <2>1
  <2> QED
    BY <1>5, <2>2
<1>6. CASE f = "mail.smtpSubmissionTls"
  <2>1. Startup!Choices(f) = <<"starttls", "implicit">>
    BY <1>6 DEF Startup!Choices
  <2>2. /\ 1 \in DOMAIN Startup!Choices(f)
        /\ \A i \in DOMAIN Startup!Choices(f) : Startup!Choices(f)[i] \in {"starttls", "implicit"}
    BY <2>1
  <2> QED
    BY <1>6, <2>2
<1>7. CASE f \in {"webAuth.totp", "webAuth.webauthn"}
  <2>1. Startup!Choices(f) = <<"optional", "disabled", "required">>
    BY <1>7 DEF Startup!Choices
  <2>2. /\ 1 \in DOMAIN Startup!Choices(f)
        /\ \A i \in DOMAIN Startup!Choices(f) : Startup!Choices(f)[i] \in {"optional", "disabled", "required"}
    BY <2>1
  <2> QED
    BY <1>7, <2>2
<1>8. CASE f = "alerting.format"
  <2>1. Startup!Choices(f) = <<"generic", "slack", "discord">>
    BY <1>8 DEF Startup!Choices
  <2>2. /\ 1 \in DOMAIN Startup!Choices(f)
        /\ \A i \in DOMAIN Startup!Choices(f) : Startup!Choices(f)[i] \in {"generic", "slack", "discord"}
    BY <2>1
  <2> QED
    BY <1>8, <2>2
<1>9. CASE f = "alerting.minSeverity"
  <2>1. Startup!Choices(f) = <<"warning", "critical">>
    BY <1>9 DEF Startup!Choices
  <2>2. /\ 1 \in DOMAIN Startup!Choices(f)
        /\ \A i \in DOMAIN Startup!Choices(f) : Startup!Choices(f)[i] \in {"warning", "critical"}
    BY <2>1
  <2> QED
    BY <1>9, <2>2
<1>10. CASE f = "mail.scanFailureMode"
  <2>1. Startup!Choices(f) = <<"fail_closed">>
    BY <1>10 DEF Startup!Choices
  <2>2. /\ 1 \in DOMAIN Startup!Choices(f)
        /\ \A i \in DOMAIN Startup!Choices(f) : Startup!Choices(f)[i] \in {"fail_closed"}
    BY <2>1
  <2> QED
    BY <1>10, <2>2
<1>11. CASE f = "upgrade.strategy"
  <2>1. Startup!Choices(f) = <<"in_place">>
    BY <1>11 DEF Startup!Choices
  <2>2. /\ 1 \in DOMAIN Startup!Choices(f)
        /\ \A i \in DOMAIN Startup!Choices(f) : Startup!Choices(f)[i] \in {"in_place"}
    BY <2>1
  <2> QED
    BY <1>11, <2>2
<1>12. CASE f = "patching.mode"
  <2>1. Startup!Choices(f) = <<"build_and_operator">>
    BY <1>12 DEF Startup!Choices
  <2>2. /\ 1 \in DOMAIN Startup!Choices(f)
        /\ \A i \in DOMAIN Startup!Choices(f) : Startup!Choices(f)[i] \in {"build_and_operator"}
    BY <2>1
  <2> QED
    BY <1>12, <2>2
<1> QED
  BY <1>1, <1>2, <1>3, <1>4, <1>5, <1>6, <1>7, <1>8, <1>9, <1>10, <1>11, <1>12 DEF Startup!Chosen

LEMMA AcceptedText ==
    ASSUME NEW f \in Startup!Fields, NEW raw, Startup!Accepts(f, raw)
    PROVE  /\ raw.text \notin {"bad", "beyond", ""}
           /\ f = "ldap.url" => raw.text \in {"ldaps", "ldap"}
<1>0. "ldap.url" \in Startup!Chosen
  BY DEF Startup!Chosen
<1>1. CASE f \in Startup!OnFlags \cup Startup!OffFlags
  BY <1>0, <1>1, FieldsApart DEF Startup!Accepts
<1>2. CASE f \in Startup!Numbers
  BY <1>0, <1>2, FieldsApart DEF Startup!Accepts
<1>3. CASE f \in Startup!Chosen
  BY <1>3, FieldsApart, ChoicesGood DEF Startup!Accepts
<1>4. CASE /\ f \notin Startup!OnFlags \cup Startup!OffFlags /\ f \notin Startup!Numbers /\ f \notin Startup!Chosen
  BY <1>0, <1>4 DEF Startup!Numbers, Startup!Accepts
<1> QED
  BY <1>1, <1>2, <1>3, <1>4

LEMMA DefaultText ==
    ASSUME NEW f \in Startup!Fields
    PROVE  /\ Startup!DefaultOf(f) \notin {"bad", "beyond"}
           /\ f \notin Startup!Optional \cup Startup!PanelReferences => Startup!DefaultOf(f) # ""
           /\ f = "ldap.url" => Startup!DefaultOf(f) \in {"ldaps", "ldap"}
<1>0. "ldap.url" \in Startup!Chosen
  BY DEF Startup!Chosen
<1>1. CASE f \in Startup!OnFlags \cup Startup!OffFlags
  BY <1>0, <1>1, FieldsApart DEF Startup!DefaultOf
<1>2. CASE f \in Startup!Optional \cup Startup!PanelReferences
  BY <1>0, <1>2, FieldsApart DEF Startup!DefaultOf, Startup!NoText
<1>3. CASE f \in Startup!Chosen
  BY <1>3, FieldsApart, ChoicesGood DEF Startup!DefaultOf
<1>4. CASE f \notin Startup!OnFlags \cup Startup!OffFlags \cup Startup!Optional \cup Startup!PanelReferences \cup Startup!Chosen
  BY <1>0, <1>4 DEF Startup!DefaultOf
<1> QED
  BY <1>1, <1>2, <1>3, <1>4
\* What a field has that a passing configuration says something, or nothing, of.
LEMMA NamesFew ==
    ASSUME NEW f PROVE Startup!NamesOf(f) \subseteq {1, 2}
BY DEF Startup!NamesOf

StartupKeys == \A k \in DOMAIN environment : \E f \in Startup!Fields : \E i \in Startup!NamesOf(f) : k = <<f, i>>
StartupInv ==
    /\ mount \in [requested : BOOLEAN, state : {"there", "missing", "broken"}]
    /\ DOMAIN file \subseteq Startup!Fields \cup Startup!Strange
    /\ StartupKeys
    /\ process.state \in {"stopped", "running", "refused"} /\ DOMAIN process.loaded \subseteq Startup!Fields
    /\ edits \in 0 .. MaxEdits
    /\ Startup!ClientsCanBeMade /\ Startup!FirstSaidRuns

LEMMA StartupHolds ==
    ASSUME StartupInv
    PROVE  Startup!TypeOK /\ Startup!ConfigurationHolds
<1>1. DOMAIN environment \subseteq Startup!Fields \X {1, 2}
  <2>1. ASSUME NEW k \in DOMAIN environment PROVE k \in Startup!Fields \X {1, 2}
    <3>1. PICK f \in Startup!Fields : \E i \in Startup!NamesOf(f) : k = <<f, i>>
      BY <2>1 DEF StartupInv, StartupKeys
    <3>2. PICK i \in Startup!NamesOf(f) : k = <<f, i>>
      BY <3>1
    <3>3. i \in {1, 2}
      BY <3>2, NamesFew
    <3> QED
      BY <3>2, <3>3
  <2> QED
    BY <2>1
<1> QED
  BY <1>1 DEF StartupInv, Startup!TypeOK, Startup!ConfigurationHolds

\* The name that counts is the first that is defined.
LEMMA FirstNameCounts ==
    ASSUME StartupKeys, NEW f \in Startup!Fields
    PROVE  /\ \A i : <<f, i>> \in DOMAIN environment => i \in Startup!NamesOf(f) /\ i \in {1, 2}
           /\ <<f, 1>> \in DOMAIN environment => Startup!NameThatCounts(f) = 1
           /\ <<f, 1>> \notin DOMAIN environment /\ <<f, 2>> \in DOMAIN environment => Startup!NameThatCounts(f) = 2
<1>1. ASSUME NEW i, <<f, i>> \in DOMAIN environment PROVE i \in Startup!NamesOf(f) /\ i \in {1, 2}
  <2>1. PICK g \in Startup!Fields : \E j \in Startup!NamesOf(g) : <<f, i>> = <<g, j>>
    BY <1>1 DEF StartupKeys
  <2>2. PICK j \in Startup!NamesOf(g) : <<f, i>> = <<g, j>>
    BY <2>1
  <2>3. f = g /\ i = j
    BY <2>2
  <2> QED
    BY <2>2, <2>3, NamesFew
<1> DEFINE Counts(i) == /\ <<f, i>> \in DOMAIN environment
                        /\ \A j \in Startup!NamesOf(f) : <<f, j>> \in DOMAIN environment => i <= j
<1>2. Startup!NameThatCounts(f) = CHOOSE i \in Startup!NamesOf(f) : Counts(i)
  BY DEF Startup!NameThatCounts
<1>3. ASSUME <<f, 1>> \in DOMAIN environment PROVE Startup!NameThatCounts(f) = 1
  <2>1. 1 \in Startup!NamesOf(f) /\ Counts(1)
    BY <1>1, <1>3
  <2>2. \A i \in Startup!NamesOf(f) : Counts(i) => i = 1
    BY <1>1, <1>3, <2>1
  <2> HIDE DEF Counts
  <2> QED
    BY <1>2, <2>1, <2>2
<1>4. ASSUME <<f, 1>> \notin DOMAIN environment, <<f, 2>> \in DOMAIN environment
      PROVE  Startup!NameThatCounts(f) = 2
  <2>1. 2 \in Startup!NamesOf(f) /\ Counts(2)
    BY <1>1, <1>4
  <2>2. \A i \in Startup!NamesOf(f) : Counts(i) => i = 2
    BY <1>1, <1>4, <2>1
  <2> HIDE DEF Counts
  <2> QED
    BY <1>2, <2>1, <2>2
<1> QED
  BY <1>1, <1>3, <1>4

LEMMA FiledText ==
    ASSUME Startup!FilePasses, NEW f \in Startup!Fields, f \in DOMAIN Startup!FileNow,
           Startup!FileNow[f] # Startup!Null, ~(f \in Startup!PanelFields /\ Startup!NamedInEnvironment(f))
    PROVE  Startup!Accepts(f, Startup!FileNow[f])
BY DEF Startup!FilePasses, Startup!FileAccepted

LEMMA NamedText ==
    ASSUME Startup!EnvironmentPasses, StartupKeys, NEW f \in Startup!Fields, NEW i, <<f, i>> \in DOMAIN environment
    PROVE  LET text == environment[<<f, Startup!NameThatCounts(f)>>]
           IN  \/ text = "" /\ f \in Startup!Optional \cup Startup!PanelReferences
               \/ Startup!Accepts(f, IF f \in Startup!OnFlags \cup Startup!OffFlags
                                     THEN Startup!Bare(text) ELSE Startup!Quoted(text))
BY FirstNameCounts DEF Startup!EnvironmentPasses, Startup!EnvironmentAccepted, Startup!NamedInEnvironment, Startup!NoText

\* What a passing configuration has at a field.
LEMMA PassingText ==
    ASSUME Startup!Passes, StartupKeys, NEW f \in Startup!Fields
    PROVE  /\ Startup!Overridden(f) \notin {"bad", "beyond"}
           /\ f \notin Startup!Optional \cup Startup!PanelReferences => Startup!Overridden(f) # ""
           /\ f = "ldap.url" => Startup!Overridden(f) \in {"ldaps", "ldap"}
<1>0. Startup!FilePasses /\ Startup!EnvironmentPasses
  BY DEF Startup!Passes
<1>a. f = "ldap.url" => f \notin Startup!Optional \cup Startup!PanelReferences
  BY FieldsApart DEF Startup!Chosen
<1>1. CASE Startup!NamedInEnvironment(f)
  <2> DEFINE text == environment[<<f, Startup!NameThatCounts(f)>>]
             raw == IF f \in Startup!OnFlags \cup Startup!OffFlags THEN Startup!Bare(text) ELSE Startup!Quoted(text)
  <2>1. Startup!Overridden(f) = text
    BY <1>1 DEF Startup!Overridden
  <2>2. \/ text = "" /\ f \in Startup!Optional \cup Startup!PanelReferences
        \/ Startup!Accepts(f, raw)
    BY <1>0, <1>1, NamedText DEF Startup!NamedInEnvironment
  <2>3. raw.text = text
    BY DEF Startup!Bare, Startup!Quoted
  <2> HIDE DEF raw, text
  <2>4. CASE Startup!Accepts(f, raw)
    BY <2>1, <2>3, <2>4, AcceptedText
  <2> QED
    BY <1>a, <2>1, <2>2, <2>4
<1>2. CASE ~Startup!NamedInEnvironment(f)
  <2>1. Startup!Overridden(f) = Startup!FileValue(f)
    BY <1>2 DEF Startup!Overridden
  <2>2. CASE f \in DOMAIN Startup!FileNow /\ Startup!FileNow[f] # Startup!Null
    BY <1>0, <1>2, <2>1, <2>2, FiledText, AcceptedText DEF Startup!FileValue
  <2>3. CASE ~(f \in DOMAIN Startup!FileNow /\ Startup!FileNow[f] # Startup!Null)
    BY <2>1, <2>3, DefaultText DEF Startup!FileValue
  <2> QED
    BY <2>2, <2>3
<1> QED
  BY <1>1, <1>2
\* A process that comes up runs what the configuration says.
LEMMA StartupLoads ==
    ASSUME Startup!Start, Startup!Passes
    PROVE  /\ process'.state = "running"
           /\ process'.from = [file |-> Startup!FileNow, environment |-> environment]
           /\ DOMAIN process'.loaded \subseteq Startup!Fields
           /\ \A f \in Startup!Fields : Startup!Runs(f)' = Startup!Overridden(f)
<1> DEFINE loaded == [f \in {g \in Startup!Fields : Startup!Overridden(g) # Startup!DefaultOf(g)} |-> Startup!Overridden(f)]
<1>1. process' = [state |-> "running", from |-> [file |-> Startup!FileNow, environment |-> environment],
                  loaded |-> loaded]
  BY DEF Startup!Start
<1>2. process'.state = "running" /\ process'.loaded = loaded
      /\ process'.from = [file |-> Startup!FileNow, environment |-> environment]
  BY <1>1
<1>3. DOMAIN loaded \subseteq Startup!Fields
  OBVIOUS
<1>4. ASSUME NEW f \in Startup!Fields PROVE Startup!Runs(f)' = Startup!Overridden(f)
  <2>1. Startup!Runs(f)' = IF f \in DOMAIN process'.loaded THEN process'.loaded[f] ELSE Startup!DefaultOf(f)
    BY DEF Startup!Runs
  <2>2. Startup!Runs(f)' = IF f \in DOMAIN loaded THEN loaded[f] ELSE Startup!DefaultOf(f)
    BY <1>2, <2>1
  <2>3. f \in DOMAIN loaded <=> Startup!Overridden(f) # Startup!DefaultOf(f)
    OBVIOUS
  <2>4. f \in DOMAIN loaded => loaded[f] = Startup!Overridden(f)
    OBVIOUS
  <2> HIDE DEF loaded
  <2> QED
    BY <2>2, <2>3, <2>4
<1> QED
  BY <1>2, <1>3, <1>4

LEMMA FieldsNamed ==
    /\ {"ldap.enabled", "ldap.startTls", "postgres.enabled", "cpanel.enabled", "plesk.enabled", "alerting.enabled"}
          \subseteq Startup!Fields
    /\ {"ldap.bindSecretRef", "ldap.bindDn", "ldap.userBaseDn", "postgres.dsnSecretRef", "cpanel.apiTokenSecretRef",
        "cpanel.username", "plesk.apiKeySecretRef", "alerting.webhookUrlSecretRef"} \subseteq Startup!Fields
    /\ {"ldap.url", "identity.source", "cpanel.baseUrl", "plesk.baseUrl"} \subseteq Startup!Fields
    /\ {"cpanel.baseUrl", "plesk.baseUrl"} \cap (Startup!Optional \cup Startup!PanelReferences) = {}
<1>1. {"ldap.enabled", "ldap.startTls", "postgres.enabled", "cpanel.enabled", "plesk.enabled", "alerting.enabled"}
         \subseteq Startup!OffFlags
  BY DEF Startup!OffFlags
<1>2. {"ldap.bindSecretRef", "ldap.bindDn", "ldap.userBaseDn", "postgres.dsnSecretRef", "cpanel.apiTokenSecretRef",
       "cpanel.username", "plesk.apiKeySecretRef", "alerting.webhookUrlSecretRef"} \subseteq Startup!Optional
  BY DEF Startup!Optional
<1>3. {"ldap.url", "identity.source"} \subseteq Startup!Chosen
  BY DEF Startup!Chosen
<1>4. {"cpanel.baseUrl", "plesk.baseUrl"} \subseteq Startup!Texts
  BY DEF Startup!Texts
<1>5. {"cpanel.baseUrl", "plesk.baseUrl"} \cap (Startup!Optional \cup Startup!PanelReferences) = {}
  BY DEF Startup!Optional, Startup!PanelReferences
<1> QED
  BY <1>1, <1>2, <1>3, <1>4, <1>5 DEF Startup!Fields

LEMMA StartupClients ==
    ASSUME StartupKeys, Startup!Start, Startup!Passes
    PROVE  Startup!ClientsCanBeMade'
<1>1. \A f \in Startup!Fields : Startup!Runs(f)' = Startup!Overridden(f)
  BY StartupLoads
<1>2. Startup!ChecksPass
  BY DEF Startup!Passes
<1>3. /\ Startup!Runs("ldap.enabled")' = Startup!Overridden("ldap.enabled")
      /\ Startup!Runs("ldap.startTls")' = Startup!Overridden("ldap.startTls")
      /\ Startup!Runs("postgres.enabled")' = Startup!Overridden("postgres.enabled")
      /\ Startup!Runs("cpanel.enabled")' = Startup!Overridden("cpanel.enabled")
      /\ Startup!Runs("plesk.enabled")' = Startup!Overridden("plesk.enabled")
      /\ Startup!Runs("alerting.enabled")' = Startup!Overridden("alerting.enabled")
  BY <1>1, FieldsNamed
<1>4. /\ Startup!Runs("ldap.bindSecretRef")' = Startup!Overridden("ldap.bindSecretRef")
      /\ Startup!Runs("ldap.bindDn")' = Startup!Overridden("ldap.bindDn")
      /\ Startup!Runs("ldap.userBaseDn")' = Startup!Overridden("ldap.userBaseDn")
      /\ Startup!Runs("postgres.dsnSecretRef")' = Startup!Overridden("postgres.dsnSecretRef")
      /\ Startup!Runs("cpanel.apiTokenSecretRef")' = Startup!Overridden("cpanel.apiTokenSecretRef")
      /\ Startup!Runs("cpanel.username")' = Startup!Overridden("cpanel.username")
      /\ Startup!Runs("plesk.apiKeySecretRef")' = Startup!Overridden("plesk.apiKeySecretRef")
      /\ Startup!Runs("alerting.webhookUrlSecretRef")' = Startup!Overridden("alerting.webhookUrlSecretRef")
  BY <1>1, FieldsNamed
<1>5. /\ Startup!Runs("ldap.url")' = Startup!Overridden("ldap.url")
      /\ Startup!Runs("identity.source")' = Startup!Overridden("identity.source")
      /\ Startup!Runs("cpanel.baseUrl")' = Startup!Overridden("cpanel.baseUrl")
      /\ Startup!Runs("plesk.baseUrl")' = Startup!Overridden("plesk.baseUrl")
  BY <1>1, FieldsNamed
<1>6. /\ Startup!Overridden("ldap.url") \in {"ldaps", "ldap"}
      /\ Startup!Overridden("cpanel.baseUrl") # "" /\ Startup!Overridden("plesk.baseUrl") # ""
  BY FieldsNamed, PassingText
<1>7. Startup!Overridden("ldap.enabled") = "true" =>
        /\ Startup!Overridden("ldap.bindSecretRef") # "" /\ Startup!Overridden("ldap.bindDn") # ""
        /\ Startup!Overridden("ldap.userBaseDn") # ""
  BY <1>2 DEF Startup!ChecksPass, Startup!On, Startup!Named, Startup!NoText
<1>8. ~(Startup!Overridden("ldap.startTls") = "true" /\ Startup!Overridden("ldap.url") = "ldaps")
  BY <1>2 DEF Startup!ChecksPass, Startup!On, Startup!Named, Startup!NoText
<1>9. /\ Startup!Overridden("postgres.enabled") = "true" => Startup!Overridden("postgres.dsnSecretRef") # ""
      /\ Startup!Overridden("identity.source") = "database" => Startup!Overridden("postgres.enabled") = "true"
      /\ Startup!Overridden("cpanel.enabled") = "true" =>
            Startup!Overridden("cpanel.username") # "" /\ Startup!Overridden("cpanel.apiTokenSecretRef") # ""
      /\ Startup!Overridden("plesk.enabled") = "true" => Startup!Overridden("plesk.apiKeySecretRef") # ""
      /\ Startup!Overridden("alerting.enabled") = "true" => Startup!Overridden("alerting.webhookUrlSecretRef") # ""
  BY <1>2 DEF Startup!ChecksPass, Startup!On, Startup!Named, Startup!NoText
<1>10. Startup!Overridden("ldap.enabled") = "true" =>
         \/ /\ Startup!Overridden("ldap.bindSecretRef") # "" /\ Startup!Overridden("ldap.bindDn") # ""
            /\ Startup!Overridden("ldap.userBaseDn") # ""
            /\ (Startup!Overridden("ldap.url") = "ldap") = (Startup!Overridden("ldap.startTls") = "true")
         \/ Startup!Overridden("ldap.url") = "ldap" /\ ~(Startup!Overridden("ldap.startTls") = "true")
  BY <1>6, <1>7, <1>8
<1>11. (Startup!Enabled("ldap.enabled") =>
          Startup!LdapClientMade \/ (Startup!Runs("ldap.url") = "ldap" /\ ~Startup!Enabled("ldap.startTls")))'
  BY <1>3, <1>4, <1>5, <1>10 DEF Startup!Enabled, Startup!LdapClientMade, Startup!NoText
<1>12. (/\ Startup!Enabled("postgres.enabled") => Startup!PostgresStoreMade
        /\ Startup!Runs("identity.source") = "database" => Startup!Enabled("postgres.enabled"))'
  BY <1>3, <1>4, <1>5, <1>9 DEF Startup!Enabled, Startup!PostgresStoreMade, Startup!NoText
<1>13. (/\ Startup!Enabled("cpanel.enabled") => Startup!CpanelClientMade
        /\ Startup!Enabled("plesk.enabled") => Startup!PleskClientMade
        /\ Startup!Enabled("alerting.enabled") => Startup!AlertDeliveryMade)'
  BY <1>3, <1>4, <1>5, <1>6, <1>9
     DEF Startup!Enabled, Startup!CpanelClientMade, Startup!PleskClientMade, Startup!AlertDeliveryMade, Startup!NoText
<1> QED
  BY <1>11, <1>12, <1>13 DEF Startup!ClientsCanBeMade
LEMMA StartupSaid ==
    ASSUME StartupKeys, Startup!Start, Startup!Passes
    PROVE  Startup!FirstSaidRuns'
<1>1. /\ process'.from.file = Startup!FileNow /\ process'.from.environment = environment
      /\ \A f \in Startup!Fields : Startup!Runs(f)' = Startup!Overridden(f)
  BY StartupLoads
<1> DEFINE Said(f) == {i \in {1, 2} : <<f, i>> \in DOMAIN environment}
           Filed(f) == f \in DOMAIN Startup!FileNow /\ Startup!FileNow[f] # Startup!Null
           Right(f, runs) ==
               /\ 1 \in Said(f) => runs = environment[<<f, 1>>]
               /\ Said(f) = {2} => runs = environment[<<f, 2>>]
               /\ Said(f) = {} /\ Filed(f) => runs = Startup!FileNow[f].text
               /\ Said(f) = {} /\ ~Filed(f) => runs = Startup!DefaultOf(f)
               /\ Filed(f) /\ ~(f \in Startup!PanelFields /\ Said(f) # {}) =>
                      Startup!FileNow[f].text \notin {"bad", "beyond", ""}
               /\ runs \notin {"bad", "beyond"}
<1>2. ASSUME NEW f \in Startup!Fields PROVE Right(f, Startup!Overridden(f))
  <2> DEFINE over == Startup!Overridden(f)
  <2>1. over \notin {"bad", "beyond"}
    BY PassingText
  <2>a. Startup!NamedInEnvironment(f) => Said(f) # {}
    BY NamesFew DEF Startup!NamedInEnvironment
  <2>2. Filed(f) /\ ~(f \in Startup!PanelFields /\ Said(f) # {}) =>
          Startup!FileNow[f].text \notin {"bad", "beyond", ""}
    <3> HIDE DEF Said
    <3> QED
      BY <2>a, FiledText, AcceptedText DEF Startup!Passes
  <2>3. /\ 1 \in Said(f) => 1 \in Startup!NamesOf(f) /\ Startup!NameThatCounts(f) = 1
        /\ Said(f) = {2} => 2 \in Startup!NamesOf(f) /\ Startup!NameThatCounts(f) = 2
        /\ Said(f) = {} => ~Startup!NamedInEnvironment(f)
        /\ (1 \in Said(f) \/ Said(f) = {2}) => Startup!NamedInEnvironment(f)
    BY FirstNameCounts DEF Startup!NamedInEnvironment
  <2>4. 1 \in Said(f) => over = environment[<<f, 1>>]
    BY <2>3 DEF Startup!Overridden
  <2>5. Said(f) = {2} => over = environment[<<f, 2>>]
    BY <2>3 DEF Startup!Overridden
  <2>6. Said(f) = {} => over = Startup!FileValue(f)
    BY <2>3 DEF Startup!Overridden
  <2>7. /\ Filed(f) => Startup!FileValue(f) = Startup!FileNow[f].text
        /\ ~Filed(f) => Startup!FileValue(f) = Startup!DefaultOf(f)
    BY DEF Startup!FileValue
  <2> HIDE DEF over, Said, Filed
  <2> QED
    BY <2>1, <2>2, <2>4, <2>5, <2>6, <2>7 DEF over
<1>3. ASSUME NEW f \in Startup!Fields
      PROVE  Right(f, Startup!Runs(f)')
  <2> HIDE DEF Right
  <2> QED
    BY <1>1, <1>2
<1>4. Startup!FirstSaidRuns' <=>
        (process'.state = "running" =>
          \A f \in Startup!Fields :
            LET said == {i \in {1, 2} : <<f, i>> \in DOMAIN process'.from.environment}
                filed == f \in DOMAIN process'.from.file /\ process'.from.file[f] # Startup!Null
                runs == Startup!Runs(f)'
            IN  /\ 1 \in said => runs = process'.from.environment[<<f, 1>>]
                /\ said = {2} => runs = process'.from.environment[<<f, 2>>]
                /\ said = {} /\ filed => runs = process'.from.file[f].text
                /\ said = {} /\ ~filed => runs = Startup!DefaultOf(f)
                /\ filed /\ ~(f \in Startup!PanelFields /\ said # {}) =>
                       process'.from.file[f].text \notin {"bad", "beyond", ""}
                /\ runs \notin {"bad", "beyond"})
  BY DEF Startup!FirstSaidRuns, Startup!NoText
<1> QED
  BY <1>1, <1>3, <1>4

LEMMA StartupStart ==
    ASSUME StartupInv, Startup!Start
    PROVE  StartupInv'
<1>1. mount' = mount /\ file' = file /\ environment' = environment /\ edits' = edits
  BY DEF Startup!Start
<1>2. StartupKeys'
  BY <1>1 DEF StartupInv, StartupKeys
<1>3. CASE Startup!Passes
  BY <1>1, <1>2, <1>3, StartupLoads, StartupClients, StartupSaid DEF StartupInv
<1>4. CASE ~Startup!Passes
  BY <1>1, <1>2, <1>4 DEF Startup!Start, Startup!Stopped, Startup!ClientsCanBeMade, Startup!FirstSaidRuns,
     StartupInv
<1> QED
  BY <1>3, <1>4

\* While the process stays as it is, what it runs with stays.
LEMMA StartupStays ==
    ASSUME StartupInv, process' = process
    PROVE  /\ process'.state \in {"stopped", "running", "refused"} /\ DOMAIN process'.loaded \subseteq Startup!Fields
           /\ Startup!ClientsCanBeMade' /\ Startup!FirstSaidRuns'
BY DEF StartupInv, Startup!ClientsCanBeMade, Startup!Enabled, Startup!LdapClientMade,
   Startup!PostgresStoreMade, Startup!CpanelClientMade, Startup!PleskClientMade, Startup!AlertDeliveryMade,
   Startup!Runs, Startup!FirstSaidRuns
LEMMA StartupEdits ==
    ASSUME StartupInv, Startup!EditFile \/ Startup!EditEnvironment \/ Startup!Remount \/ UNCHANGED startup
    PROVE  StartupInv'
<1>1. process' = process
  BY DEF Startup!EditFile, Startup!EditEnvironment, Startup!Remount, Startup!Edit, startup
<1>2. edits' \in 0 .. MaxEdits
  BY EditsAssumption DEF Startup!EditFile, Startup!EditEnvironment, Startup!Remount, Startup!Edit, startup, StartupInv
<1>3. DOMAIN file' \subseteq Startup!Fields \cup Startup!Strange
  <2>1. CASE Startup!EditFile
    <3>1. PICK f \in EditedFields \cup Startup!Strange :
             \/ f \in DOMAIN file /\ file' = [k \in (DOMAIN file) \ {f} |-> file[k]]
             \/ f \in Startup!Fields /\ \E raw \in Startup!Raws(f) : file' = Startup!With(file, f, raw)
             \/ f \in Startup!Strange /\ file' = Startup!With(file, f, Startup!Quoted("other"))
      BY <2>1 DEF Startup!EditFile
    <3>2. ASSUME NEW key \in Startup!Fields \cup Startup!Strange, NEW value, file' = Startup!With(file, key, value)
          PROVE  DOMAIN file' \subseteq Startup!Fields \cup Startup!Strange
      BY <3>2 DEF Startup!With, StartupInv
    <3>3. CASE f \in DOMAIN file /\ file' = [k \in (DOMAIN file) \ {f} |-> file[k]]
      BY <3>3 DEF StartupInv
    <3> QED
      BY <3>1, <3>2, <3>3
  <2>2. CASE file' = file
    BY <2>2 DEF StartupInv
  <2> QED
    BY <2>1, <2>2 DEF Startup!EditEnvironment, Startup!Remount, startup
<1>4. StartupKeys'
  <2>1. CASE Startup!EditEnvironment
    <3>1. PICK f \in EditedFields : \E i \in Startup!NamesOf(f), raw \in Startup!Raws(f) \ {Startup!Null} :
             environment' = Startup!With(environment, <<f, i>>, raw.text)
      BY <2>1 DEF Startup!EditEnvironment
    <3>2. PICK i \in Startup!NamesOf(f), raw \in Startup!Raws(f) \ {Startup!Null} :
             environment' = Startup!With(environment, <<f, i>>, raw.text)
      BY <3>1
    <3>3. DOMAIN environment' = DOMAIN environment \cup {<<f, i>>}
      BY <3>2 DEF Startup!With
    <3>4. f \in Startup!Fields
      BY EditsAssumption
    <3> QED
      BY <3>3, <3>4 DEF StartupInv, StartupKeys
  <2>2. CASE environment' = environment
    BY <2>2 DEF StartupInv, StartupKeys
  <2> QED
    BY <2>1, <2>2 DEF Startup!EditFile, Startup!Remount, startup
<1>5. mount' \in [requested : BOOLEAN, state : {"there", "missing", "broken"}]
  BY DEF Startup!EditFile, Startup!EditEnvironment, Startup!Remount, startup, StartupInv
<1>6. /\ process'.state \in {"stopped", "running", "refused"} /\ DOMAIN process'.loaded \subseteq Startup!Fields
      /\ Startup!ClientsCanBeMade' /\ Startup!FirstSaidRuns'
  BY <1>1, StartupStays
<1> QED
  BY <1>2, <1>3, <1>4, <1>5, <1>6 DEF StartupInv

LEMMA StartupStep ==
    ASSUME StartupInv, [Startup!Next]_startup
    PROVE  StartupInv'
<1>1. CASE Startup!Stop
  <2>1. mount' = mount /\ file' = file /\ environment' = environment /\ edits' = edits /\ process' = Startup!Stopped
    BY <1>1 DEF Startup!Stop
  <2>2. process'.state = "stopped" /\ process'.loaded = <<>>
    BY <2>1 DEF Startup!Stopped
  <2>3. DOMAIN process'.loaded = {}
    BY <2>2
  <2>4. Startup!ClientsCanBeMade' /\ Startup!FirstSaidRuns'
    BY <2>2 DEF Startup!ClientsCanBeMade, Startup!FirstSaidRuns
  <2>5. StartupKeys'
    BY <2>1 DEF StartupInv, StartupKeys
  <2> QED
    BY <2>1, <2>2, <2>3, <2>4, <2>5 DEF StartupInv
<1> QED
  BY <1>1, StartupStart, StartupEdits DEF Startup!Next

LEMMA StartupFiles ==
    DOMAIN Startup!Directory \cup DOMAIN Startup!Database \cup DOMAIN Startup!Panels \subseteq Startup!Fields
BY DEF Startup!OffFlags, Startup!Optional, Startup!Chosen, Startup!Directory, Startup!Database, Startup!Panels,
   Startup!Fields

LEMMA StartupInitially ==
    ASSUME Startup!Init
    PROVE  StartupInv
<1>1. /\ file \in {<<>>, Startup!Directory, Startup!Database, Startup!Panels} /\ environment = <<>>
      /\ process = Startup!Stopped /\ edits = 0
      /\ mount = [requested |-> FALSE, state |-> IF file = <<>> THEN "missing" ELSE "there"]
  BY DEF Startup!Init
<1>2. DOMAIN file \subseteq Startup!Fields
  <2>1. CASE file = <<>>
    BY <2>1
  <2> QED
    BY <1>1, <2>1, StartupFiles
<1>3. process.state = "stopped" /\ process.loaded = <<>>
  BY <1>1 DEF Startup!Stopped
<1>4. DOMAIN process.loaded = {} /\ DOMAIN environment = {}
  BY <1>1, <1>3
<1>5. Startup!ClientsCanBeMade /\ Startup!FirstSaidRuns
  BY <1>3 DEF Startup!ClientsCanBeMade, Startup!FirstSaidRuns
<1>6. mount \in [requested : BOOLEAN, state : {"there", "missing", "broken"}]
  BY <1>1
<1>7. edits \in 0 .. MaxEdits
  BY <1>1, EditsAssumption
<1> QED
  BY <1>2, <1>3, <1>4, <1>5, <1>6, <1>7 DEF StartupInv, StartupKeys
-----------------------------------------------------------------------------
(***************************************************************************)
(* The DAV frontend.  While no two passwords of one key are verified at a    *)
(* time, what is verified was let through with the record there is, so that  *)
(* a wrong password adds itself to the count of its window, or begins one    *)
(* that none before it reaches.                                              *)
(***************************************************************************)
Verifying(slot) == slot.stage = "verifying"
Window == failures.startedAt .. failures.startedAt + FailureWindow - 1

FrontendShape ==
    /\ Frontend!TypeOK /\ now \in 0 .. DavTime /\ wrong \in Seq(Nat)

\* What was let through, and what the store answered.
Answered(slot) ==
    LET answered == slot.answer  route == slot.route
    IN  answered # Frontend!NoAnswer =>
            /\ answered.before \in Frontend!Versions /\ route.level = "object" =>
                   ~answered.ifNoneMatch /\ answered.ifMatch \in {answered.before, Frontend!AnyVersion}
            /\ answered.status = 201 <=> answered.before = Frontend!NotThere /\ answered.after \in Frontend!Versions
Routed(slot) ==
    /\ slot.route.target = "own" \/ (slot.route.target = "other's" /\ kind = "caldav")
    /\ slot.stage # "idle" => slot.answer = Frontend!NoAnswer
    /\ slot.stage \in {"body", "calling"} /\ slot.route.method = "PUT" => slot.route.level = "object"
    /\ Answered(slot)
FrontendRoutes == \A c \in Clients : Routed(dav[c])

\* The number of failures is one of requests.
FrontendBounds ==
    /\ failures.count <= handled
    /\ \A c \in Clients : Verifying(dav[c]) => dav[c].read.count < handled /\ dav[c].since <= now

Counted ==
    /\ failures.startedAt <= now /\ \A i \in DOMAIN wrong : wrong[i] <= now
    /\ failures.count = 0 => wrong = <<>>
    /\ failures.count > 0 =>
          /\ failures.count = Frontend!WrongIn(Window) /\ failures.count <= FailureLimit
          /\ \A i \in DOMAIN wrong : wrong[i] < failures.startedAt + FailureWindow
LetThrough(slot) ==
    /\ slot.read = failures /\ failures.startedAt <= slot.since
    /\ ~(Frontend!Running(failures, slot.since) /\ failures.count >= FailureLimit)
    /\ \A i \in DOMAIN wrong : wrong[i] <= slot.since
FrontendCounts ==
    ~verifiedTogether =>
        /\ Counted
        /\ \A c \in Clients : Verifying(dav[c]) => LetThrough(dav[c])
        /\ \A c, d \in Clients : Verifying(dav[c]) /\ Verifying(dav[d]) => c = d

FrontendInv == FrontendShape /\ FrontendRoutes /\ FrontendBounds /\ FrontendCounts

LEMMA FrontendGives ==
    ASSUME FrontendInv
    PROVE  Frontend!TypeOK /\ Frontend!FrontendHolds
BY DEF FrontendInv, FrontendCounts, Counted, FrontendRoutes, FrontendShape, Frontend!FrontendHolds, Window,
   Routed, Answered

\* A slot of one client is written.
LEMMA SlotWritten ==
    ASSUME NEW c \in Clients, NEW slot \in Frontend!Slots, dav \in [Clients -> Frontend!Slots],
           dav' = [dav EXCEPT ![c] = slot]
    PROVE  /\ dav' \in [Clients -> Frontend!Slots] /\ dav'[c] = slot
           /\ \A d \in Clients : d # c => dav'[d] = dav[d]
OBVIOUS

\* One more wrong password.
LEMMA WrongCounted ==
    ASSUME wrong \in Seq(Nat), NEW at \in Nat, wrong' = Append(wrong, at), NEW T
    PROVE  /\ Cardinality({i \in DOMAIN wrong : wrong[i] \in T}) \in Nat
           /\ Cardinality({i \in DOMAIN wrong' : wrong'[i] \in T}) =
                 Cardinality({i \in DOMAIN wrong : wrong[i] \in T}) + (IF at \in T THEN 1 ELSE 0)
<1> DEFINE Before == {i \in DOMAIN wrong : wrong[i] \in T}
           Then == {i \in DOMAIN wrong' : wrong'[i] \in T}
           n == Len(wrong) + 1
<1>1. /\ DOMAIN wrong = 1 .. Len(wrong) /\ Len(wrong) \in Nat
      /\ DOMAIN wrong' = 1 .. n /\ wrong'[n] = at
      /\ \A i \in 1 .. Len(wrong) : wrong'[i] = wrong[i]
  OBVIOUS
<1>2. Then = IF at \in T THEN Before \cup {n} ELSE Before
  BY <1>1
<1>3. IsFiniteSet(Before)
  <2>1. IsFiniteSet(1 .. Len(wrong)) /\ Before \subseteq 1 .. Len(wrong)
    BY <1>1, FS_Interval
  <2> HIDE DEF Before
  <2> QED
    BY <2>1, FS_Subset
<1>4. n \notin Before
  BY <1>1
<1> HIDE DEF Before, Then, n
<1>5. Cardinality(Before) \in Nat
  BY <1>3, FS_CardinalityType
<1>6. Cardinality(Then) = Cardinality(Before) + (IF at \in T THEN 1 ELSE 0)
  <2>1. IsFiniteSet(Before \cup {n}) /\ Cardinality(Before \cup {n}) = Cardinality(Before) + 1
    BY <1>3, <1>4, FS_AddElement
  <2> QED
    BY <1>2, <1>5, <2>1
<1> QED
  BY <1>5, <1>6 DEF Before, Then

\* A step that leaves the throttle alone and begins no verification.
Routes(c) ==
    Frontend!ArriveWithCookie(c) \/ Frontend!RateLimited(c) \/ Frontend!Route(c) \/ Frontend!ReadBody(c)
    \/ Frontend!Write(c) \/ Frontend!End(c)
Untouched ==
    /\ failures' = failures /\ wrong' = wrong /\ verifiedTogether' = verifiedTogether
    /\ now' = now /\ kind' = kind

LEMMA FrontendAside ==
    ASSUME FrontendInv, failures' = failures, wrong' = wrong, verifiedTogether' = verifiedTogether,
           now' \in Nat, now' >= now, handled' \in Nat, handled' >= handled,
           \A c \in Clients : Verifying(dav'[c]) => dav'[c] = dav[c]
    PROVE  FrontendBounds' /\ FrontendCounts'
<1>1. /\ now \in Nat /\ handled \in Nat /\ failures.count \in Nat /\ failures.startedAt \in Nat
      /\ \A c \in Clients : dav[c].read.count \in Nat /\ dav[c].since \in Nat
  BY FrontendAssumption DEF FrontendInv, FrontendShape, Frontend!TypeOK, Frontend!Slots
<1>2. \A i \in DOMAIN wrong : wrong[i] \in Nat
  BY DEF FrontendInv, FrontendShape
<1>3. FrontendBounds'
  BY <1>1 DEF FrontendInv, FrontendBounds
<1>4. ASSUME Counted PROVE Counted'
  BY <1>1, <1>2, <1>4 DEF Counted, Frontend!WrongIn, Window
<1>5. ASSUME NEW c \in Clients, Verifying(dav[c]) => LetThrough(dav[c]), Verifying(dav'[c])
      PROVE  LetThrough(dav[c])'
  BY <1>5 DEF LetThrough, Frontend!Running, Verifying
<1>6. FrontendCounts'
  <2> SUFFICES ASSUME ~verifiedTogether'
               PROVE  /\ Counted' /\ \A c \in Clients : Verifying(dav'[c]) => LetThrough(dav[c])'
                      /\ \A c, d \in Clients : Verifying(dav'[c]) /\ Verifying(dav'[d]) => c = d
    BY DEF FrontendCounts, LetThrough, Verifying
  <2>1. /\ Counted
        /\ \A c \in Clients : Verifying(dav[c]) => LetThrough(dav[c])
        /\ \A c, d \in Clients : Verifying(dav[c]) /\ Verifying(dav[d]) => c = d
    BY DEF FrontendInv, FrontendCounts
  <2> QED
    BY <1>4, <1>5, <2>1
<1> QED
  BY <1>3, <1>6

\* What the statuses of a write say of its headers.
LEMMA StatusSays ==
    ASSUME NEW route, NEW ifMatch \in Frontend!Versions \cup {Frontend!AnyVersion, Frontend!NoHeader},
           NEW ifNoneMatch \in BOOLEAN, stored \in Frontend!Gone .. MaxVersion,
           route.method \in {"PUT", "DELETE"}, ifNoneMatch => route.method = "PUT",
           route.method = "PUT" => route.level = "object",
           Frontend!Status(route, ifMatch, ifNoneMatch, stored) \in {201, 204}
    PROVE  /\ stored \in Frontend!Versions /\ route.level = "object" =>
                  ~ifNoneMatch /\ ifMatch \in {stored, Frontend!AnyVersion}
           /\ Frontend!Status(route, ifMatch, ifNoneMatch, stored) = 201 <=>
                  stored = Frontend!NotThere /\ route.method = "PUT"
<1> USE FrontendAssumption
<1>1. /\ Frontend!Gone = -1 /\ Frontend!NotThere = 0 /\ Frontend!Versions = 1 .. MaxVersion
      /\ Frontend!AnyVersion = MaxVersion + 1 /\ Frontend!NoHeader = MaxVersion + 2
  BY DEF Frontend!Gone, Frontend!NotThere, Frontend!Versions, Frontend!AnyVersion, Frontend!NoHeader
<1>2. stored # Frontend!Gone
  BY DEF Frontend!Status
<1>3. Frontend!IfMatchStatus(ifMatch, stored) # 201
  BY DEF Frontend!IfMatchStatus
<1>4. Frontend!IfMatchStatus(ifMatch, stored) = 204 =>
         stored # Frontend!NotThere /\ ifMatch \in {stored, Frontend!AnyVersion}
  BY <1>1 DEF Frontend!IfMatchStatus
<1>5. CASE route.method = "PUT"
  <2>1. Frontend!Status(route, ifMatch, ifNoneMatch, stored) = Frontend!PutStatus(ifMatch, ifNoneMatch, stored)
    BY <1>2, <1>5 DEF Frontend!Status
  <2>2. CASE ifNoneMatch
    BY <1>1, <1>5, <2>1, <2>2 DEF Frontend!PutStatus
  <2>3. CASE ~ifNoneMatch /\ kind = "caldav" /\ ifMatch = Frontend!NoHeader
    BY <1>1, <1>5, <2>1, <2>3 DEF Frontend!PutStatus
  <2>4. CASE ~ifNoneMatch /\ ~(kind = "caldav" /\ ifMatch = Frontend!NoHeader)
    BY <1>3, <1>4, <1>5, <2>1, <2>4 DEF Frontend!PutStatus
  <2> QED
    BY <2>2, <2>3, <2>4
<1>6. CASE route.method = "DELETE" /\ route.level = "collection"
  BY <1>2, <1>6 DEF Frontend!Status
<1>7. CASE route.method = "DELETE" /\ route.level # "collection"
  BY <1>2, <1>3, <1>4, <1>7 DEF Frontend!Status
<1> QED
  BY <1>5, <1>6, <1>7

LEMMA FrontendWrites ==
    ASSUME FrontendInv, NEW c \in Clients, NEW slot \in Frontend!Slots, dav' = [dav EXCEPT ![c] = slot],
           Routed(slot), kind' = kind
    PROVE  /\ dav' \in [Clients -> Frontend!Slots] /\ FrontendRoutes' /\ dav'[c] = slot
           /\ \A d \in Clients : d # c => dav'[d] = dav[d]
<1>1. dav \in [Clients -> Frontend!Slots]
  BY DEF FrontendInv, FrontendShape, Frontend!TypeOK
<1>2. /\ dav' \in [Clients -> Frontend!Slots] /\ dav'[c] = slot
      /\ \A d \in Clients : d # c => dav'[d] = dav[d]
  BY <1>1, SlotWritten
<1>3. ASSUME NEW d \in Clients PROVE Routed(dav[d])'
  BY <1>2 DEF FrontendInv, FrontendRoutes, Routed, Answered
<1> QED
  BY <1>2, <1>3 DEF FrontendRoutes

\* What a slot is, and what it is once it was released.
LEMMA Slot ==
    ASSUME FrontendInv, NEW c \in Clients
    PROVE  /\ dav \in [Clients -> Frontend!Slots] /\ dav[c] \in Frontend!Slots /\ Routed(dav[c])
           /\ Frontend!NoFailures \in [startedAt : 0 .. DavTime, count : 0 .. MaxDavRequests]
           /\ failures \in [startedAt : 0 .. DavTime, count : 0 .. MaxDavRequests]
           /\ Frontend!NoRoute \in Frontend!Routes /\ Frontend!NoAnswer \in Frontend!Answers
           /\ Frontend!NoRoute.target = "own" /\ 0 \in 0 .. DavTime /\ now \in 0 .. DavTime
           /\ handled \in 0 .. MaxDavRequests
BY FrontendAssumption DEF Frontend!NoRoute, Frontend!Routes, Frontend!Levels, Frontend!Methods,
   Frontend!Targets, Frontend!NoAnswer, Frontend!Answers, Frontend!NotThere, Frontend!Gone, Frontend!NoHeader,
   Frontend!NoFailures, FrontendInv, FrontendShape, FrontendRoutes, Frontend!TypeOK

Freed(slot) == [slot EXCEPT !.stage = "idle", !.via = "cookie", !.read = Frontend!NoFailures, !.since = 0,
                            !.route = Frontend!NoRoute]
Passed(slot, stage) == [slot EXCEPT !.stage = stage, !.read = Frontend!NoFailures, !.since = 0]

LEMMA SlotFreed ==
    ASSUME FrontendInv, NEW c \in Clients, ~Frontend!At(c, "idle")
    PROVE  /\ Freed(dav[c]) \in Frontend!Slots /\ Routed(Freed(dav[c])) /\ ~Verifying(Freed(dav[c]))
           /\ Frontend!Release(c) => dav' = [dav EXCEPT ![c] = Freed(dav[c])]
<1>1. Freed(dav[c]) \in Frontend!Slots
  BY Slot DEF Freed, Frontend!Slots
<1>2. /\ Freed(dav[c]).stage = "idle" /\ Freed(dav[c]).route = Frontend!NoRoute
      /\ Freed(dav[c]).answer = dav[c].answer
  BY Slot DEF Freed, Frontend!Slots
<1>3. dav[c].answer = Frontend!NoAnswer
  BY Slot DEF Routed, Frontend!At
<1>4. Routed(Freed(dav[c])) /\ ~Verifying(Freed(dav[c]))
  BY <1>2, <1>3, Slot DEF Routed, Answered, Verifying
<1>5. Frontend!Release(c) => dav' = [dav EXCEPT ![c] = Freed(dav[c])]
  BY Slot DEF Frontend!Release, Freed
<1> QED
  BY <1>1, <1>4, <1>5

LEMMA SlotPassed ==
    ASSUME FrontendInv, NEW c \in Clients, ~Frontend!At(c, "idle"), NEW stage \in {"routing", "calling"},
           stage = "calling" => Frontend!At(c, "body")
    PROVE  /\ Passed(dav[c], stage) \in Frontend!Slots /\ Routed(Passed(dav[c], stage))
           /\ ~Verifying(Passed(dav[c], stage))
           /\ Frontend!To(c, stage) => dav' = [dav EXCEPT ![c] = Passed(dav[c], stage)]
<1>1. Passed(dav[c], stage) \in Frontend!Slots
  BY Slot DEF Passed, Frontend!Slots
<1>2. /\ Passed(dav[c], stage).stage = stage /\ Passed(dav[c], stage).route = dav[c].route
      /\ Passed(dav[c], stage).answer = dav[c].answer
  BY Slot DEF Passed, Frontend!Slots
<1>3. dav[c].answer = Frontend!NoAnswer
  BY Slot DEF Routed, Frontend!At
<1>4. Routed(Passed(dav[c], stage)) /\ ~Verifying(Passed(dav[c], stage))
  BY <1>2, <1>3, Slot DEF Routed, Answered, Verifying, Frontend!At
<1>5. Frontend!To(c, stage) => dav' = [dav EXCEPT ![c] = Passed(dav[c], stage)]
  BY Slot DEF Frontend!To, Passed
<1> QED
  BY <1>1, <1>4, <1>5

Aside(c) == \E slot \in Frontend!Slots : dav' = [dav EXCEPT ![c] = slot] /\ Routed(slot) /\ ~Verifying(slot)

LEMMA ReleasesAside ==
    ASSUME FrontendInv, NEW c \in Clients, ~Frontend!At(c, "idle"), Frontend!Release(c)
    PROVE  Aside(c)
BY SlotFreed DEF Aside

LEMMA ArrivesAside ==
    ASSUME FrontendInv, NEW c \in Clients, Frontend!ArriveWithCookie(c)
    PROVE  Aside(c)
<1> DEFINE slot == [dav[c] EXCEPT !.stage = "routing", !.via = "cookie", !.answer = Frontend!NoAnswer]
<1>1. dav' = [dav EXCEPT ![c] = slot]
  BY Slot DEF Frontend!ArriveWithCookie
<1>2. slot \in Frontend!Slots
  BY Slot DEF Frontend!Slots
<1>3. slot.stage = "routing" /\ slot.answer = Frontend!NoAnswer /\ slot.route = dav[c].route
  BY Slot DEF Frontend!Slots
<1> HIDE DEF slot
<1>4. Routed(slot) /\ ~Verifying(slot)
  BY <1>3, Slot DEF Routed, Answered, Verifying
<1> QED
  BY <1>1, <1>2, <1>4 DEF Aside

LEMMA RouteAside ==
    ASSUME FrontendInv, NEW c \in Clients, Frontend!Route(c)
    PROVE  Aside(c)
<1>1. Frontend!At(c, "routing") /\ ~Frontend!At(c, "idle")
  BY DEF Frontend!Route, Frontend!At
<1>2. ASSUME NEW route \in Frontend!Routes, NEW token \in BOOLEAN, ~Frontend!Refused(dav[c].via, token, route),
             dav' = [dav EXCEPT ![c].route = route, ![c].via = "cookie",
                         ![c].stage = IF route.method \in {"PUT", "REPORT"} THEN "body" ELSE "calling"]
      PROVE  Aside(c)
  <2> DEFINE then == IF route.method \in {"PUT", "REPORT"} THEN "body" ELSE "calling"
             slot == [dav[c] EXCEPT !.route = route, !.via = "cookie", !.stage = then]
  <2>1. dav' = [dav EXCEPT ![c] = slot]
    BY <1>2, Slot
  <2>2. then \in {"body", "calling"}
    OBVIOUS
  <2> HIDE DEF then
  <2>3. slot \in Frontend!Slots
    BY <2>2, Slot DEF Frontend!Slots
  <2>4. slot.stage = then /\ slot.answer = dav[c].answer /\ slot.route = route
    BY Slot DEF Frontend!Slots
  <2> HIDE DEF slot
  <2>5. slot.answer = Frontend!NoAnswer
    BY <1>1, <2>4, Slot DEF Routed, Frontend!At
  <2>6. route.target = "own" \/ (route.target = "other's" /\ kind = "caldav")
    BY <1>2 DEF FrontendInv, FrontendShape, Frontend!TypeOK, Frontend!Kinds, Frontend!Routes, Frontend!Targets,
       Frontend!Refused, Frontend!Denied
  <2>7. route.method = "PUT" => route.level = "object"
    BY <1>2 DEF Frontend!Routes, Frontend!Levels, Frontend!Refused
  <2>8. Routed(slot) /\ ~Verifying(slot)
    BY <2>2, <2>4, <2>5, <2>6, <2>7 DEF Routed, Answered, Verifying
  <2> QED
    BY <2>1, <2>3, <2>8 DEF Aside
<1>3. CASE Frontend!Release(c)
  BY <1>1, <1>3, ReleasesAside
<1> QED
  BY <1>2, <1>3 DEF Frontend!Route

\* A write that the store takes.
LEMMA WriteAside ==
    ASSUME FrontendInv, NEW c \in Clients, Frontend!Write(c)
    PROVE  Aside(c) /\ stored' \in Frontend!Gone .. MaxVersion /\ versions' \in 0 .. MaxVersion
<1> DEFINE route == dav[c].route
<1>1. Frontend!At(c, "calling") /\ route.method \in {"PUT", "DELETE"}
  BY DEF Frontend!Write
<1>2. PICK ifMatch \in Frontend!Versions \cup {Frontend!AnyVersion, Frontend!NoHeader}, ifNoneMatch \in BOOLEAN :
         LET status == Frontend!Status(route, ifMatch, ifNoneMatch, stored)
             after == Frontend!After(route, stored)
         IN  /\ ifNoneMatch => route.method = "PUT"
             /\ status \in {201, 204} /\ after <= MaxVersion /\ stored' = after
             /\ versions' = IF after > versions THEN after ELSE versions
             /\ dav' = [dav EXCEPT ![c].stage = "idle", ![c].via = "cookie",
                            ![c].answer = [status |-> status, before |-> stored, after |-> after,
                                           ifMatch |-> ifMatch, ifNoneMatch |-> ifNoneMatch]]
  BY DEF Frontend!Write
<1> DEFINE status == Frontend!Status(route, ifMatch, ifNoneMatch, stored)
           after == Frontend!After(route, stored)
           answered == [status |-> status, before |-> stored, after |-> after,
                        ifMatch |-> ifMatch, ifNoneMatch |-> ifNoneMatch]
           slot == [dav[c] EXCEPT !.stage = "idle", !.via = "cookie", !.answer = answered]
<1>3. dav' = [dav EXCEPT ![c] = slot]
  <2>1. dav' = [dav EXCEPT ![c].stage = "idle", ![c].via = "cookie", ![c].answer = answered]
    BY <1>2
  <2> HIDE DEF answered
  <2> QED
    BY <2>1, Slot
<1>4. stored \in Frontend!Gone .. MaxVersion /\ versions \in 0 .. MaxVersion /\ MaxVersion \in Nat /\ Frontend!Gone = -1
  BY FrontendAssumption DEF FrontendInv, FrontendShape, Frontend!TypeOK, Frontend!Gone
<1>5. /\ route.method = "PUT" => after = versions + 1
      /\ route.method = "DELETE" => after \in {-1, 0}
  BY DEF Frontend!After, Frontend!Gone, Frontend!NotThere
<1>6. route.method = "PUT" => route.level = "object"
  BY <1>1, Slot DEF Routed, Frontend!At
<1>7. /\ stored \in Frontend!Versions /\ route.level = "object" =>
            ~ifNoneMatch /\ ifMatch \in {stored, Frontend!AnyVersion}
      /\ status = 201 <=> stored = Frontend!NotThere /\ route.method = "PUT"
  BY <1>1, <1>2, <1>4, <1>6, StatusSays
<1>8. /\ status \in {201, 204} /\ after <= MaxVersion /\ stored' = after
      /\ versions' = IF after > versions THEN after ELSE versions
  BY <1>2
<1>9. slot.stage = "idle" /\ slot.answer = answered /\ slot.route = route
  BY Slot DEF Frontend!Slots
<1> HIDE DEF status, after, slot, route
<1>10. /\ after \in Frontend!Gone .. MaxVersion /\ stored' \in Frontend!Gone .. MaxVersion
       /\ versions' \in 0 .. MaxVersion
       /\ after \in Frontend!Versions <=> route.method = "PUT"
  BY <1>1, <1>4, <1>5, <1>8 DEF Frontend!Versions
<1>11. answered \in Frontend!Answers
  BY <1>4, <1>8, <1>10 DEF Frontend!Answers
<1>12. slot \in Frontend!Slots
  <2> HIDE DEF answered
  <2> QED
    BY <1>11, Slot DEF Frontend!Slots, slot
<1>13. /\ answered.before = stored /\ answered.after = after /\ answered.status = status
       /\ answered.ifMatch = ifMatch /\ answered.ifNoneMatch = ifNoneMatch
  OBVIOUS
<1>14. Routed(slot) /\ ~Verifying(slot)
  <2> HIDE DEF answered
  <2>1. route.target = "own" \/ (route.target = "other's" /\ kind = "caldav")
    BY Slot DEF Routed, route
  <2> QED
    BY <1>7, <1>9, <1>10, <1>13, <2>1 DEF Routed, Answered, Verifying
<1> QED
  BY <1>3, <1>10, <1>12, <1>14 DEF Aside

\* The steps of a client that leave the throttle alone.
LEMMA FrontendAsides ==
    ASSUME FrontendInv, NEW c \in Clients,
           Aside(c), failures' = failures, wrong' = wrong, verifiedTogether' = verifiedTogether, now' = now,
           kind' = kind, handled' \in 0 .. MaxDavRequests, handled' >= handled,
           stored' \in Frontend!Gone .. MaxVersion, versions' \in 0 .. MaxVersion
    PROVE  FrontendInv'
<1>1. PICK slot \in Frontend!Slots : dav' = [dav EXCEPT ![c] = slot] /\ Routed(slot) /\ ~Verifying(slot)
  BY DEF Aside
<1>2. /\ dav' \in [Clients -> Frontend!Slots] /\ FrontendRoutes' /\ dav'[c] = slot
      /\ \A d \in Clients : d # c => dav'[d] = dav[d]
  BY <1>1, FrontendWrites
<1>3. now' \in Nat /\ now' >= now /\ handled' \in Nat
  BY FrontendAssumption DEF FrontendInv, FrontendShape
<1>4. FrontendBounds' /\ FrontendCounts'
  BY <1>1, <1>2, <1>3, FrontendAside
<1>5. FrontendShape'
  BY <1>2 DEF FrontendInv, FrontendShape, Frontend!TypeOK
<1> QED
  BY <1>2, <1>4, <1>5 DEF FrontendInv

LEMMA FrontendRouting ==
    ASSUME FrontendInv, NEW c \in Clients, Routes(c)
    PROVE  FrontendInv'
<1>1. /\ stored \in Frontend!Gone .. MaxVersion /\ versions \in 0 .. MaxVersion /\ handled \in 0 .. MaxDavRequests
      /\ MaxDavRequests \in Nat
  BY FrontendAssumption DEF FrontendInv, FrontendShape, Frontend!TypeOK
<1>2. CASE Frontend!ArriveWithCookie(c)
  <2>1. /\ handled < MaxDavRequests /\ handled' = handled + 1 /\ failures' = failures /\ wrong' = wrong
        /\ verifiedTogether' = verifiedTogether /\ now' = now /\ kind' = kind /\ stored' = stored /\ versions' = versions
    BY <1>2 DEF Frontend!ArriveWithCookie, Frontend!throttle, Frontend!store
  <2>2. handled' \in 0 .. MaxDavRequests /\ handled' >= handled
    BY <1>1, <2>1
  <2> QED
    BY <1>1, <1>2, <2>1, <2>2, ArrivesAside, FrontendAsides
<1>3. CASE Frontend!Write(c)
  <2>1. /\ handled' = handled /\ failures' = failures /\ wrong' = wrong
        /\ verifiedTogether' = verifiedTogether /\ now' = now /\ kind' = kind
    BY <1>3 DEF Frontend!Write, Frontend!throttle
  <2>2. handled' \in 0 .. MaxDavRequests /\ handled' >= handled
    BY <1>1, <2>1
  <2> QED
    BY <1>3, <2>1, <2>2, WriteAside, FrontendAsides
<1>4. CASE Frontend!RateLimited(c) \/ Frontend!Route(c) \/ Frontend!ReadBody(c) \/ Frontend!End(c)
  <2>1. /\ handled' = handled /\ failures' = failures /\ wrong' = wrong /\ stored' = stored /\ versions' = versions
        /\ verifiedTogether' = verifiedTogether /\ now' = now /\ kind' = kind
    BY <1>4 DEF Frontend!RateLimited, Frontend!Route, Frontend!ReadBody, Frontend!End, Frontend!throttle, Frontend!store
  <2>2. handled' \in 0 .. MaxDavRequests /\ handled' >= handled
    BY <1>1, <2>1
  <2>3. Aside(c)
    <3>1. CASE Frontend!Route(c)
      BY <3>1, RouteAside
    <3>2. CASE ~Frontend!At(c, "idle") /\ Frontend!Release(c)
      BY <3>2, ReleasesAside
    <3>3. CASE Frontend!At(c, "body") /\ Frontend!To(c, "calling")
      BY <3>3, SlotPassed DEF Frontend!At, Aside
    <3> QED
      BY <1>4, <3>1, <3>2, <3>3 DEF Frontend!RateLimited, Frontend!ReadBody, Frontend!End, Frontend!At
  <2> QED
    BY <1>1, <2>1, <2>2, <2>3, FrontendAsides
<1> QED
  BY <1>2, <1>3, <1>4 DEF Routes

LEMMA FrontendTick ==
    ASSUME FrontendInv, Frontend!Tick \/ UNCHANGED frontend
    PROVE  FrontendInv'
<1>1. /\ failures' = failures /\ wrong' = wrong /\ verifiedTogether' = verifiedTogether /\ dav' = dav
      /\ kind' = kind /\ stored' = stored /\ versions' = versions /\ handled' = handled
      /\ now' = now \/ (now < DavTime /\ now' = now + 1)
  BY DEF Frontend!Tick, Frontend!throttle, Frontend!store, frontend
<1>2. now' \in 0 .. DavTime /\ now' >= now
  BY <1>1, FrontendAssumption DEF FrontendInv, FrontendShape
<1>3. now' \in Nat /\ handled' \in Nat /\ handled' >= handled
  BY <1>1, <1>2, FrontendAssumption DEF FrontendInv, FrontendShape, Frontend!TypeOK
<1>4. FrontendBounds' /\ FrontendCounts'
  BY <1>1, <1>2, <1>3, FrontendAside
<1>5. FrontendShape'
  BY <1>1, <1>2 DEF FrontendInv, FrontendShape, Frontend!TypeOK
<1>6. FrontendRoutes'
  <2>1. ASSUME NEW d \in Clients PROVE Routed(dav[d])'
    BY <1>1 DEF FrontendInv, FrontendRoutes, Routed, Answered
  <2> QED
    BY <2>1 DEF FrontendRoutes
<1> QED
  BY <1>4, <1>5, <1>6 DEF FrontendInv

\* A password is verified while none other is, or the two overlap for good.
LEMMA FrontendArrives ==
    ASSUME FrontendInv, NEW c \in Clients, Frontend!ArriveWithPassword(c)
    PROVE  FrontendInv'
<1> DEFINE slot == [dav[c] EXCEPT !.stage = "verifying", !.via = "basic", !.read = failures, !.since = now,
                                  !.answer = Frontend!NoAnswer]
<1>1. /\ Frontend!At(c, "idle") /\ handled < MaxDavRequests /\ handled' = handled + 1 /\ ~Frontend!Throttled
      /\ failures' = failures /\ wrong' = wrong /\ now' = now /\ kind' = kind /\ stored' = stored /\ versions' = versions
      /\ verifiedTogether' = (verifiedTogether \/ \E d \in Clients : Verifying(dav[d]))
  BY DEF Frontend!ArriveWithPassword, Frontend!store, Frontend!At, Verifying
<1>2. dav' = [dav EXCEPT ![c] = slot]
  BY Slot DEF Frontend!ArriveWithPassword
<1>3. slot \in Frontend!Slots
  BY Slot DEF Frontend!Slots
<1>4. /\ slot.stage = "verifying" /\ slot.answer = Frontend!NoAnswer /\ slot.route = dav[c].route
      /\ slot.read = failures /\ slot.since = now
  BY Slot DEF Frontend!Slots
<1> HIDE DEF slot
<1>5. Routed(slot)
  BY <1>4, Slot DEF Routed, Answered
<1>6. /\ dav' \in [Clients -> Frontend!Slots] /\ FrontendRoutes' /\ dav'[c] = slot
      /\ \A d \in Clients : d # c => dav'[d] = dav[d]
  BY <1>1, <1>2, <1>3, <1>5, FrontendWrites
<1>7. handled \in Nat /\ handled' \in 0 .. MaxDavRequests /\ failures.count \in Nat /\ now \in Nat
      /\ \A d \in Clients : dav[d].read.count \in Nat
  BY <1>1, FrontendAssumption DEF FrontendInv, FrontendShape, Frontend!TypeOK, Frontend!Slots
<1>8. FrontendShape'
  BY <1>1, <1>6, <1>7 DEF FrontendInv, FrontendShape, Frontend!TypeOK
<1>9. FrontendBounds'
  <2>1. failures.count <= handled
        /\ \A d \in Clients : Verifying(dav[d]) => dav[d].read.count < handled /\ dav[d].since <= now
    BY DEF FrontendInv, FrontendBounds
  <2>2. slot.read.count < handled' /\ slot.since <= now
    BY <1>1, <1>4, <1>7, <2>1
  <2>3. ASSUME NEW d \in Clients, d # c, Verifying(dav[d]) PROVE dav[d].read.count < handled' /\ dav[d].since <= now
    BY <1>1, <1>7, <2>1, <2>3
  <2> QED
    BY <1>1, <1>6, <1>7, <2>1, <2>2, <2>3 DEF FrontendBounds, Verifying
<1>10. FrontendCounts'
  <2> SUFFICES ASSUME ~verifiedTogether'
               PROVE  /\ Counted' /\ \A d \in Clients : Verifying(dav'[d]) => LetThrough(dav[d])'
                      /\ \A d, e \in Clients : Verifying(dav'[d]) /\ Verifying(dav'[e]) => d = e
    BY DEF FrontendCounts, Verifying, LetThrough
  <2>1. Counted /\ \A d \in Clients : ~Verifying(dav[d])
    BY <1>1 DEF FrontendInv, FrontendCounts
  <2>2. Counted'
    BY <1>1, <2>1 DEF Frontend!WrongIn, Window, Counted
  <2>3. LetThrough(dav[c])'
    BY <1>1, <1>4, <1>6, <2>1 DEF Frontend!Throttled, LetThrough, Counted, Frontend!Running
  <2> QED
    BY <1>6, <2>1, <2>2, <2>3
<1> QED
  BY <1>6, <1>8, <1>9, <1>10 DEF FrontendInv

LEMMA FrontendRight ==
    ASSUME FrontendInv, NEW c \in Clients, Frontend!PasswordRight(c)
    PROVE  FrontendInv'
<1> DEFINE slot == Passed(dav[c], "routing")
<1>1. /\ Verifying(dav[c]) /\ ~Frontend!At(c, "idle") /\ Frontend!To(c, "routing")
      /\ failures' = Frontend!NoFailures /\ wrong' = <<>>
      /\ handled' = handled /\ now' = now /\ kind' = kind /\ stored' = stored /\ versions' = versions
      /\ verifiedTogether' = verifiedTogether
  BY DEF Frontend!PasswordRight, Frontend!store, Frontend!At, Verifying
<1>2. slot \in Frontend!Slots /\ Routed(slot) /\ ~Verifying(slot) /\ dav' = [dav EXCEPT ![c] = slot]
  BY <1>1, SlotPassed
<1> HIDE DEF slot
<1>3. /\ dav' \in [Clients -> Frontend!Slots] /\ FrontendRoutes' /\ dav'[c] = slot
      /\ \A d \in Clients : d # c => dav'[d] = dav[d]
  BY <1>1, <1>2, FrontendWrites
<1>4. failures'.startedAt = 0 /\ failures'.count = 0
  BY <1>1 DEF Frontend!NoFailures
<1>5. handled \in Nat /\ now \in Nat
  BY FrontendAssumption DEF FrontendInv, FrontendShape, Frontend!TypeOK
<1>6. FrontendShape'
  BY <1>1, <1>3, Slot DEF FrontendInv, FrontendShape, Frontend!TypeOK
<1>7. FrontendBounds'
  BY <1>1, <1>2, <1>3, <1>4, <1>5 DEF FrontendInv, FrontendBounds
<1>8. Counted'
  BY <1>1, <1>4, <1>5 DEF Counted
<1>9. ~verifiedTogether' => \A d \in Clients : ~Verifying(dav'[d])
  BY <1>1, <1>2, <1>3 DEF FrontendInv, FrontendCounts
<1>10. FrontendCounts'
  BY <1>8, <1>9 DEF FrontendCounts, Verifying
<1> QED
  BY <1>3, <1>6, <1>7, <1>10 DEF FrontendInv

\* The copy of the record that is written back, with one failure more.
LEMMA FailureWritten ==
    ASSUME FrontendInv, NEW c \in Clients, Verifying(dav[c])
    PROVE  LET then == Frontend!Failed(dav[c].read, dav[c].since)
           IN  /\ then \in [startedAt : 0 .. DavTime, count : 0 .. MaxDavRequests]
               /\ then.count <= handled /\ then.count > 0
               /\ Frontend!Running(dav[c].read, dav[c].since) =>
                     then.startedAt = dav[c].read.startedAt /\ then.count = dav[c].read.count + 1
               /\ ~Frontend!Running(dav[c].read, dav[c].since) => then.startedAt = dav[c].since /\ then.count = 1
<1> DEFINE copy == dav[c].read
           at == dav[c].since
           then == Frontend!Failed(copy, at)
<1>1. copy \in [startedAt : 0 .. DavTime, count : 0 .. MaxDavRequests] /\ at \in 0 .. DavTime
      /\ handled \in 0 .. MaxDavRequests /\ MaxDavRequests \in Nat
  BY FrontendAssumption, Slot DEF Frontend!Slots
<1>2. copy.count < handled
  BY DEF FrontendInv, FrontendBounds
<1> HIDE DEF copy, at
<1>3. CASE Frontend!Running(copy, at)
  BY <1>1, <1>2, <1>3 DEF Frontend!Failed, copy, at
<1>4. CASE ~Frontend!Running(copy, at)
  BY <1>1, <1>2, <1>4 DEF Frontend!Failed, copy, at
<1> QED
  BY <1>3, <1>4

\* A wrong password was tried no more often than the limit in the window it falls in.
LEMMA WrongKept ==
    ASSUME FrontendInv, NEW c \in Clients, Verifying(dav[c]), ~verifiedTogether, now' = now,
           failures' = Frontend!Failed(dav[c].read, dav[c].since), wrong' = Append(wrong, dav[c].since)
    PROVE  Counted'
<1> DEFINE at == dav[c].since
           from == failures.startedAt
<1>1. Counted /\ LetThrough(dav[c]) /\ dav[c].read = failures
  BY DEF FrontendInv, FrontendCounts, LetThrough
<1>2. /\ wrong \in Seq(Nat) /\ at \in Nat /\ now \in Nat /\ from \in Nat /\ failures.count \in Nat
      /\ FailureLimit \in Nat \ {0} /\ FailureWindow \in Nat \ {0}
  BY FrontendAssumption, Slot DEF FrontendInv, FrontendShape, Frontend!Slots
<1>3. at <= now
  BY DEF FrontendInv, FrontendBounds
<1>4. /\ failures'.count > 0
      /\ Frontend!Running(failures, at) => failures'.startedAt = from /\ failures'.count = failures.count + 1
      /\ ~Frontend!Running(failures, at) => failures'.startedAt = at /\ failures'.count = 1
  BY <1>1, FailureWritten
<1>5. /\ from <= at /\ \A i \in DOMAIN wrong : wrong[i] <= at
      /\ ~(Frontend!Running(failures, at) /\ failures.count >= FailureLimit)
  BY <1>1 DEF LetThrough
<1> HIDE DEF at, from
<1>6. /\ DOMAIN wrong = 1 .. Len(wrong) /\ Len(wrong) \in Nat /\ DOMAIN wrong' = 1 .. (Len(wrong) + 1)
      /\ wrong'[Len(wrong) + 1] = at /\ \A i \in 1 .. Len(wrong) : wrong'[i] = wrong[i]
      /\ \A i \in DOMAIN wrong : wrong[i] \in Nat
  BY <1>2 DEF at
<1>7. \A i \in DOMAIN wrong' : wrong'[i] <= at
  BY <1>2, <1>5, <1>6
<1>8. \A i \in DOMAIN wrong' : wrong'[i] <= now'
  BY <1>2, <1>3, <1>6, <1>7
<1>9. ASSUME NEW T
      PROVE  /\ Cardinality({i \in DOMAIN wrong : wrong[i] \in T}) \in Nat
             /\ Cardinality({i \in DOMAIN wrong' : wrong'[i] \in T}) =
                   Cardinality({i \in DOMAIN wrong : wrong[i] \in T}) + (IF at \in T THEN 1 ELSE 0)
  BY <1>2, WrongCounted DEF at
<1> DEFINE Spans(t) == t .. t + FailureWindow - 1
<1>10. CASE Frontend!Running(failures, at)
  <2>1. failures.count > 0 /\ at - from < FailureWindow
    BY <1>10 DEF Frontend!Running, from
  <2>2. failures.count = Cardinality({i \in DOMAIN wrong : wrong[i] \in Spans(from)})
    BY <1>1, <2>1 DEF Counted, Frontend!WrongIn, Window, Frontend!Cardinality, Cardinality, from
  <2>3. at \in Spans(from)
    BY <1>2, <1>5, <2>1
  <2> HIDE DEF Spans
  <2>4. Cardinality({i \in DOMAIN wrong' : wrong'[i] \in Spans(from)}) = failures'.count
    BY <1>4, <1>9, <1>10, <2>2, <2>3
  <2>5. failures'.count = Frontend!WrongIn(Window)'
    BY <1>4, <1>10, <2>4 DEF Frontend!WrongIn, Window, Frontend!Cardinality, Cardinality, Spans
  <2>6. failures'.count <= FailureLimit
    BY <1>2, <1>4, <1>5, <1>10
  <2>7. \A i \in DOMAIN wrong' : wrong'[i] < from + FailureWindow
    BY <1>2, <1>6, <1>7, <2>1
  <2>8. failures'.startedAt <= now'
    BY <1>2, <1>3, <1>4, <1>5, <1>10
  <2> QED
    BY <1>4, <1>8, <1>10, <2>5, <2>6, <2>7, <2>8 DEF Counted
<1>11. CASE ~Frontend!Running(failures, at)
  <2>1. \A i \in DOMAIN wrong : wrong[i] < at
    <3>1. CASE failures.count = 0
      BY <1>1, <3>1 DEF Counted
    <3>2. CASE failures.count > 0
      BY <1>1, <1>11, <1>2, <1>6, <3>2 DEF Frontend!Running, from, Counted
    <3> QED
      BY <1>2, <3>1, <3>2
  <2>2. {i \in DOMAIN wrong : wrong[i] \in Spans(at)} = {}
    BY <1>2, <1>6, <2>1
  <2>3. at \in Spans(at)
    BY <1>2
  <2> HIDE DEF Spans
  <2>4. Cardinality({i \in DOMAIN wrong' : wrong'[i] \in Spans(at)}) = 1
    BY <1>9, <2>2, <2>3, FS_EmptySet
  <2>5. failures'.count = Frontend!WrongIn(Window)'
    BY <1>4, <1>11, <2>4 DEF Frontend!WrongIn, Window, Frontend!Cardinality, Cardinality, Spans
  <2>6. failures'.count <= FailureLimit
    BY <1>2, <1>4, <1>11
  <2>7. \A i \in DOMAIN wrong' : wrong'[i] < at + FailureWindow
    BY <1>2, <1>6, <1>7
  <2> QED
    BY <1>2, <1>3, <1>4, <1>8, <1>11, <2>5, <2>6, <2>7 DEF Counted
<1> QED
  BY <1>10, <1>11

LEMMA FrontendWrong ==
    ASSUME FrontendInv, NEW c \in Clients, Frontend!PasswordWrong(c)
    PROVE  FrontendInv'
<1> DEFINE slot == Freed(dav[c])
<1>1. /\ Verifying(dav[c]) /\ ~Frontend!At(c, "idle") /\ Frontend!Release(c)
      /\ failures' = Frontend!Failed(dav[c].read, dav[c].since) /\ wrong' = Append(wrong, dav[c].since)
      /\ handled' = handled /\ now' = now /\ kind' = kind /\ stored' = stored /\ versions' = versions
      /\ verifiedTogether' = verifiedTogether
  BY DEF Frontend!PasswordWrong, Frontend!store, Frontend!At, Verifying
<1>2. slot \in Frontend!Slots /\ Routed(slot) /\ ~Verifying(slot) /\ dav' = [dav EXCEPT ![c] = slot]
  BY <1>1, SlotFreed
<1> HIDE DEF slot
<1>3. /\ dav' \in [Clients -> Frontend!Slots] /\ FrontendRoutes' /\ dav'[c] = slot
      /\ \A d \in Clients : d # c => dav'[d] = dav[d]
  BY <1>1, <1>2, FrontendWrites
<1>4. /\ failures' \in [startedAt : 0 .. DavTime, count : 0 .. MaxDavRequests]
      /\ failures'.count <= handled
  BY <1>1, FailureWritten
<1>5. wrong' \in Seq(Nat)
  BY <1>1, FrontendAssumption, Slot DEF FrontendInv, FrontendShape, Frontend!Slots
<1>6. FrontendShape'
  BY <1>1, <1>3, <1>4, <1>5 DEF FrontendInv, FrontendShape, Frontend!TypeOK
<1>7. FrontendBounds'
  BY <1>1, <1>2, <1>3, <1>4 DEF FrontendInv, FrontendBounds
<1>8. ~verifiedTogether => Counted'
  BY <1>1, WrongKept
<1>9. ~verifiedTogether => \A d \in Clients : ~Verifying(dav'[d])
  BY <1>1, <1>2, <1>3 DEF FrontendInv, FrontendCounts
<1>10. FrontendCounts'
  BY <1>1, <1>8, <1>9 DEF FrontendCounts, Verifying
<1> QED
  BY <1>3, <1>6, <1>7, <1>10 DEF FrontendInv

LEMMA FrontendStep ==
    ASSUME FrontendInv, [Frontend!Next]_frontend
    PROVE  FrontendInv'
<1>1. CASE Frontend!Tick \/ UNCHANGED frontend
  BY <1>1, FrontendTick
<1>2. ASSUME NEW c \in Clients,
             \/ Frontend!ArriveWithCookie(c) \/ Frontend!ArriveWithPassword(c)
             \/ Frontend!PasswordWrong(c) \/ Frontend!PasswordRight(c) \/ Frontend!RateLimited(c)
             \/ Frontend!Route(c) \/ Frontend!ReadBody(c) \/ Frontend!Write(c) \/ Frontend!End(c)
      PROVE  FrontendInv'
  BY <1>2, FrontendArrives, FrontendWrong, FrontendRight, FrontendRouting DEF Routes
<1> QED
  BY <1>1, <1>2 DEF Frontend!Next

LEMMA FrontendInitially ==
    ASSUME Frontend!Init
    PROVE  FrontendInv
<1> DEFINE slot == [stage |-> "idle", via |-> "cookie", read |-> Frontend!NoFailures, since |-> 0,
                    route |-> Frontend!NoRoute, answer |-> Frontend!NoAnswer]
<1>1. /\ now = 0 /\ failures = Frontend!NoFailures /\ wrong = <<>> /\ verifiedTogether = FALSE
      /\ dav = [c \in Clients |-> slot]
      /\ kind \in Frontend!Kinds /\ stored = 0 /\ versions = 0 /\ handled = 0
  BY DEF Frontend!Init, Frontend!NotThere
<1>2. Frontend!NoRoute \in Frontend!Routes
  BY DEF Frontend!NoRoute, Frontend!Routes, Frontend!Levels, Frontend!Methods, Frontend!Targets
<1>3. Frontend!NoAnswer \in Frontend!Answers
  BY FrontendAssumption
     DEF Frontend!NoAnswer, Frontend!Answers, Frontend!NotThere, Frontend!Gone, Frontend!NoHeader
<1>4. /\ Frontend!NoFailures \in [startedAt : 0 .. DavTime, count : 0 .. MaxDavRequests]
      /\ failures.count = 0 /\ failures.startedAt = 0
  BY <1>1, FrontendAssumption DEF Frontend!NoFailures
<1>5. slot \in Frontend!Slots
  BY <1>2, <1>3, <1>4, FrontendAssumption DEF Frontend!Slots
<1>6. Routed(slot) /\ ~Verifying(slot)
  BY DEF Routed, Answered, Verifying, Frontend!NoRoute
<1> HIDE DEF slot
<1>7. /\ dav \in [Clients -> Frontend!Slots] /\ \A c \in Clients : dav[c] = slot
  BY <1>1, <1>5
<1>8. FrontendShape
  <2>1. stored \in Frontend!Gone .. MaxVersion /\ versions \in 0 .. MaxVersion
        /\ handled \in 0 .. MaxDavRequests /\ now \in 0 .. DavTime
    BY <1>1, FrontendAssumption DEF Frontend!Gone
  <2>2. wrong \in Seq(Nat)
    BY <1>1
  <2>3. failures \in [startedAt : 0 .. DavTime, count : 0 .. MaxDavRequests]
    BY <1>1, <1>4
  <2>4. kind \in Frontend!Kinds
    BY <1>1
  <2>5. verifiedTogether \in BOOLEAN
    BY <1>1
  <2> QED
    BY <1>7, <2>1, <2>2, <2>3, <2>4, <2>5 DEF FrontendShape, Frontend!TypeOK
<1>9. FrontendRoutes /\ FrontendBounds
  BY <1>1, <1>4, <1>6, <1>7 DEF FrontendRoutes, FrontendBounds
<1>10. FrontendCounts
  BY <1>1, <1>4, <1>6, <1>7 DEF FrontendCounts, Counted
<1> QED
  BY <1>8, <1>9, <1>10 DEF FrontendInv
-----------------------------------------------------------------------------
(***************************************************************************)
(* One watched mailbox.  What is on the way to the client is counted by what *)
(* it is: a reader that was given its own line found the only one of its     *)
(* kind, so that the next one cannot be given a line of before.              *)
(***************************************************************************)
Count(lines, k) == Cardinality({i \in DOMAIN lines : lines[i].kind = k})
Coming(k) == Count(idleLines, k) + Count(toClient, k)
Ours(line, k) == IF line.kind = k THEN 1 ELSE 0

LEMMA CountType ==
    ASSUME NEW lines \in Seq(Watch!Lines), NEW k
    PROVE  Count(lines, k) \in Nat /\ Count(<<>>, k) = 0
<1>1. DOMAIN lines = 1 .. Len(lines) /\ Len(lines) \in Nat
  OBVIOUS
<1>2. IsFiniteSet({i \in DOMAIN lines : lines[i].kind = k})
  <2>1. IsFiniteSet(1 .. Len(lines)) /\ {i \in DOMAIN lines : lines[i].kind = k} \in SUBSET (1 .. Len(lines))
    BY <1>1, FS_Interval
  <2> QED
    BY <2>1, FS_Subset
<1>3. {i \in DOMAIN <<>> : <<>>[i].kind = k} = {}
  OBVIOUS
<1> QED
  BY <1>2, <1>3, FS_CardinalityType, FS_EmptySet DEF Count

LEMMA CountAppended ==
    ASSUME NEW lines \in Seq(Watch!Lines), NEW line \in Watch!Lines, NEW k
    PROVE  Count(Append(lines, line), k) = Count(lines, k) + Ours(line, k)
<1> DEFINE all == Append(lines, line)
           Before == {i \in DOMAIN lines : lines[i].kind = k}
           Then == {i \in DOMAIN all : all[i].kind = k}
           n == Len(lines) + 1
<1>1. /\ DOMAIN lines = 1 .. Len(lines) /\ Len(lines) \in Nat
      /\ DOMAIN all = 1 .. n /\ all[n] = line /\ \A i \in 1 .. Len(lines) : all[i] = lines[i]
  OBVIOUS
<1>2. Then = IF line.kind = k THEN Before \cup {n} ELSE Before
  BY <1>1
<1>3. IsFiniteSet(Before) /\ n \notin Before
  <2>1. IsFiniteSet(1 .. Len(lines)) /\ Before \in SUBSET (1 .. Len(lines)) /\ n \notin Before
    BY <1>1, FS_Interval
  <2> HIDE DEF Before
  <2> QED
    BY <2>1, FS_Subset
<1> HIDE DEF Before, Then, n
<1>4. Cardinality(Before) \in Nat /\ Cardinality(Before \cup {n}) = Cardinality(Before) + 1
  BY <1>3, FS_CardinalityType, FS_AddElement
<1>5. Cardinality(Then) = Cardinality(Before) + Ours(line, k)
  BY <1>2, <1>4 DEF Ours
<1> QED
  BY <1>5 DEF Before, Then, Count

LEMMA CountTaken ==
    ASSUME NEW lines \in Seq(Watch!Lines), lines # <<>>, NEW k
    PROVE  Count(lines, k) = Count(Tail(lines), k) + Ours(Head(lines), k)
<1> DEFINE n == Len(lines)
           rest == Tail(lines)
           Before == {i \in DOMAIN lines : lines[i].kind = k}
           Then == {i \in DOMAIN rest : rest[i].kind = k}
           Later == {i \in 2 .. n : lines[i].kind = k}
           f == [i \in Then |-> i + 1]
<1>1. /\ DOMAIN lines = 1 .. n /\ n \in Nat \ {0} /\ Head(lines) = lines[1]
      /\ rest \in Seq(Watch!Lines) /\ Len(rest) = n - 1 /\ DOMAIN rest = 1 .. n - 1
      /\ \A i \in 1 .. n - 1 : rest[i] = lines[i + 1]
  OBVIOUS
<1>2. Before = IF Head(lines).kind = k THEN Later \cup {1} ELSE Later
  BY <1>1
<1> HIDE DEF n, rest
<1>3. f \in Surjection(Then, Later) /\ f \in Injection(Then, Later)
  <2>1. \A i \in Then : f[i] = i + 1 /\ i + 1 \in Later
    BY <1>1
  <2>2. f \in [Then -> Later]
    BY <2>1
  <2>3. \A j \in Later : j - 1 \in Then /\ f[j - 1] = j
    BY <1>1
  <2>4. \A i, j \in Then : f[i] = f[j] => i = j
    BY <1>1, <2>1
  <2>5. DOMAIN f = Then
    OBVIOUS
  <2> HIDE DEF f, Then, Later
  <2> QED
    BY <2>2, <2>3, <2>4, <2>5 DEF Surjection, Injection, IsInjective
<1>4. IsFiniteSet(Then)
  <2>1. IsFiniteSet(1 .. n - 1) /\ Then \in SUBSET (1 .. n - 1)
    BY <1>1, FS_Interval
  <2> HIDE DEF Then
  <2> QED
    BY <2>1, FS_Subset
<1>5. 1 \notin Later
  BY <1>1
<1> HIDE DEF f, Then, Later, Before
<1>6. IsFiniteSet(Later) /\ Cardinality(Then) = Cardinality(Later)
  BY <1>3, <1>4, FS_Surjection
<1>7. Cardinality(Later) \in Nat /\ Cardinality(Later \cup {1}) = Cardinality(Later) + 1
  BY <1>5, <1>6, FS_CardinalityType, FS_AddElement
<1>8. Cardinality(Before) = Cardinality(Then) + Ours(Head(lines), k)
  BY <1>2, <1>6, <1>7 DEF Ours
<1> QED
  BY <1>8 DEF Before, Then, Count, rest

\* Who waits, and for how long yet.
ReadersWait ==
    \/ /\ readers = <<>> /\ client.watch = "opening" /\ client.phase = "none" /\ client.tag = 0
       /\ ~client.stopped /\ ~client.refreshing
    \/ /\ readers = <<"start">> /\ client.watch = "opening" /\ client.phase # "none"
       /\ ~client.stopped /\ ~client.refreshing
    \/ readers = <<>> /\ client.watch = "open" /\ (client.refreshing => client.stopped)
    \/ readers \in {<<"ended">>, <<"renewed">>} /\ client.watch = "open" /\ ~client.stopped /\ client.refreshing
    \/ /\ readers \in {<<"stopped">>, <<"ended", "stopped">>, <<"renewed", "stopped">>, <<"stopped", "renewed">>}
       /\ client.watch = "open" /\ client.stopped
    \/ readers = <<>> /\ client.watch = "closed"
WatchShape ==
    /\ Watch!TypeOK /\ ReadersWait
    /\ heard + Coming("update") <= updates
    /\ client.handler = (client.phase # "none" /\ client.watch # "closed")
    /\ client.watch = "open" => client.phase # "none"
    /\ client.tag <= client.renewals + 1
    /\ readers \in {<<"ended">>, <<"ended", "stopped">>} => client.tag <= client.renewals

Ask(tag) == [kind |-> "IDLE", tag |-> tag]
Over == [kind |-> "DONE", tag |-> 0]
Bye == [kind |-> "LOGOUT", tag |-> 0]
Idling == imapServer.idling /\ imapServer.tag = client.tag

Unopened ==
    /\ client.watch = "opening" /\ readers = <<>> /\ toServer = <<>> /\ ~imapServer.idling
    /\ Coming("+") = 0 /\ Coming("done") = 0
Asking ==
    /\ client.phase = "starting" /\ readers \in {<<"start">>, <<"renewed">>}
    /\ \/ toServer = <<Ask(client.tag)>> /\ ~imapServer.idling /\ Coming("+") = 0 /\ Coming("done") = 0
       \/ toServer = <<>> /\ Idling /\ Coming("+") <= 1 /\ Coming("done") = 0
Active ==
    /\ client.phase = "active" /\ client.watch = "open" /\ readers = <<>> /\ ~client.stopped
    /\ toServer = <<>> /\ Idling /\ Coming("+") = 0 /\ Coming("done") = 0
Ending ==
    /\ client.phase = "ending" /\ readers = <<"ended">> /\ Coming("+") = 0
    /\ \/ toServer = <<Over>> /\ Idling /\ Coming("done") = 0
       \/ toServer = <<>> /\ ~imapServer.idling /\ Coming("done") <= 1
Stopping ==
    /\ readers = <<"stopped">> /\ ~client.refreshing
    /\ \/ toServer = <<Over>> /\ Idling /\ Coming("done") = 0
       \/ toServer = <<>> /\ ~imapServer.idling
\* A stop found a renewal whose line was there, or else has been passed over by then.
StoppedRenewed ==
    /\ client.phase = "ending" /\ readers = <<"renewed", "stopped">>
    /\ \/ Count(idleLines, "+") = 0
       \/ toServer = <<Over>> /\ Idling /\ Coming("done") = 0
       \/ toServer = <<>> /\ ~imapServer.idling
StoppedEnding ==
    /\ readers = <<"ended", "stopped">>
    /\ \/ toServer = <<Over, Over>> /\ Idling /\ Coming("done") = 0
       \/ toServer \in {<<Over>>, <<>>} /\ ~imapServer.idling /\ Coming("done") <= 1
\* The stop waits for the end of an IDLE that begins after it.
Crossed ==
    /\ readers = <<"stopped", "renewed">> /\ Coming("done") = 0
    /\ \/ toServer \in {<<Over, Ask(client.tag)>>, <<Ask(client.tag)>>} /\ ~imapServer.idling
       \/ toServer = <<>>
Closing ==
    /\ client.watch = "closed" /\ ~client.socket /\ ~client.refreshing /\ client.stopped
    /\ toServer \in {<<Bye>>, <<>>} /\ ~imapServer.idling

WatchStates ==
    Unopened \/ Asking \/ Active \/ Ending \/ Stopping \/ StoppedRenewed \/ StoppedEnding \/ Crossed \/ Closing
WatchOrder ==
    ~strayed =>
        /\ heard + Coming("update") = updates
        /\ client.watch # "closed" => client.socket
        /\ WatchStates
WatchInv == WatchShape /\ WatchOrder

LEMMA WatchTypes ==
    ASSUME Watch!TypeOK
    PROVE  /\ client.phase \in {"none", "starting", "active", "ending"} /\ client.tag \in Nat
           /\ client.socket \in BOOLEAN /\ client.handler \in BOOLEAN /\ client.refreshing \in BOOLEAN
           /\ client.stopped \in BOOLEAN /\ client.renewals \in 0 .. MaxRenewals
           /\ client.watch \in {"opening", "open", "closed"}
           /\ idleLines \in Seq(Watch!Lines) /\ toClient \in Seq(Watch!Lines)
           /\ imapServer.idling \in BOOLEAN /\ imapServer.tag \in Watch!Tags /\ client.tag \in Watch!Tags
           /\ heard \in Nat /\ updates \in Nat /\ 0 \in Watch!Tags
BY WatchAssumption DEF Watch!TypeOK, Watch!Tags

LEMMA ComingType ==
    ASSUME Watch!TypeOK, NEW k
    PROVE  Coming(k) \in Nat /\ Count(idleLines, k) \in Nat /\ Count(toClient, k) \in Nat
BY WatchTypes, CountType DEF Coming

\* What happens to the lines on the way.
LEMMA LineSent ==
    ASSUME Watch!TypeOK, NEW line \in Watch!Lines, toClient' = Append(toClient, line), idleLines' = idleLines, NEW k
    PROVE  Coming(k)' = Coming(k) + Ours(line, k) /\ toClient' \in Seq(Watch!Lines)
<1>1. Count(toClient', k) = Count(toClient, k) + Ours(line, k)
  BY WatchTypes, CountAppended
<1>2. Coming(k)' = Count(idleLines, k) + Count(toClient', k)
  BY DEF Coming, Count
<1>3. Ours(line, k) \in Nat
  BY DEF Ours
<1> QED
  BY <1>1, <1>2, <1>3, ComingType, WatchTypes DEF Coming

LEMMA LineMoved ==
    ASSUME Watch!TypeOK, toClient # <<>>, toClient' = Tail(toClient), idleLines' = Append(idleLines, Head(toClient)),
           NEW k
    PROVE  /\ Coming(k)' = Coming(k) /\ Count(idleLines, k)' = Count(idleLines, k) + Ours(Head(toClient), k)
           /\ toClient' \in Seq(Watch!Lines) /\ idleLines' \in Seq(Watch!Lines)
<1>1. Head(toClient) \in Watch!Lines /\ Tail(toClient) \in Seq(Watch!Lines)
  BY WatchTypes
<1>2. /\ Count(idleLines', k) = Count(idleLines, k) + Ours(Head(toClient), k)
      /\ Count(toClient, k) = Count(toClient', k) + Ours(Head(toClient), k)
  BY <1>1, WatchTypes, CountAppended, CountTaken
<1>3. Coming(k)' = Count(idleLines', k) + Count(toClient', k) /\ Count(idleLines, k)' = Count(idleLines', k)
  BY DEF Coming, Count
<1>4. Ours(Head(toClient), k) \in Nat /\ Count(toClient', k) \in Nat
  BY <1>1, CountType DEF Ours
<1> QED
  BY <1>1, <1>2, <1>3, <1>4, ComingType, WatchTypes DEF Coming

LEMMA LineHeard ==
    ASSUME Watch!TypeOK, toClient # <<>>, toClient' = Tail(toClient), idleLines' = idleLines, NEW k
    PROVE  Coming(k) = Coming(k)' + Ours(Head(toClient), k) /\ Coming(k)' \in Nat /\ toClient' \in Seq(Watch!Lines)
<1>1. Head(toClient) \in Watch!Lines /\ Tail(toClient) \in Seq(Watch!Lines)
  BY WatchTypes
<1>2. Count(toClient, k) = Count(toClient', k) + Ours(Head(toClient), k)
  BY WatchTypes, CountTaken
<1>3. Coming(k)' = Count(idleLines, k) + Count(toClient', k)
  BY DEF Coming, Count
<1>4. Ours(Head(toClient), k) \in Nat /\ Count(toClient', k) \in Nat
  BY <1>1, CountType DEF Ours
<1> QED
  BY <1>1, <1>2, <1>3, <1>4, ComingType DEF Coming

LEMMA LineRead ==
    ASSUME Watch!TypeOK, idleLines # <<>>, idleLines' = Tail(idleLines), toClient' = toClient, NEW k
    PROVE  /\ Coming(k) = Coming(k)' + Ours(Head(idleLines), k) /\ Coming(k)' \in Nat
           /\ idleLines' \in Seq(Watch!Lines) /\ (Head(idleLines).kind = k => Count(idleLines, k) # 0)
<1>1. Head(idleLines) \in Watch!Lines /\ Tail(idleLines) \in Seq(Watch!Lines)
  BY WatchTypes
<1>2. Count(idleLines, k) = Count(idleLines', k) + Ours(Head(idleLines), k)
  BY WatchTypes, CountTaken
<1>3. Coming(k)' = Count(idleLines', k) + Count(toClient, k)
  BY DEF Coming, Count
<1>4. /\ Ours(Head(idleLines), k) \in Nat /\ Count(idleLines', k) \in Nat
      /\ Head(idleLines).kind = k => Ours(Head(idleLines), k) = 1
  BY <1>1, CountType DEF Ours
<1> QED
  BY <1>1, <1>2, <1>3, <1>4, ComingType DEF Coming

LEMMA LinesStay ==
    ASSUME Watch!TypeOK, idleLines' = idleLines, toClient' = toClient, NEW k
    PROVE  Coming(k)' = Coming(k) /\ Count(idleLines, k)' = Count(idleLines, k)
BY DEF Coming, Count

LEMMA LinesNamed ==
    /\ \A tag \in Watch!Tags : /\ Watch!Line("+", tag) \in Watch!Lines /\ Watch!Line("update", tag) \in Watch!Lines
                               /\ Watch!Line("done", tag) \in Watch!Lines /\ Watch!Line("bad", tag) \in Watch!Lines
    /\ \A tag : /\ Ours(Watch!Line("+", tag), "+") = 1 /\ Ours(Watch!Line("+", tag), "update") = 0
                /\ Ours(Watch!Line("+", tag), "done") = 0
                /\ Ours(Watch!Line("update", tag), "+") = 0 /\ Ours(Watch!Line("update", tag), "update") = 1
                /\ Ours(Watch!Line("update", tag), "done") = 0
    /\ \A tag : /\ Ours(Watch!Line("done", tag), "+") = 0 /\ Ours(Watch!Line("done", tag), "update") = 0
                /\ Ours(Watch!Line("done", tag), "done") = 1
                /\ Ours(Watch!Line("bad", tag), "+") = 0 /\ Ours(Watch!Line("bad", tag), "update") = 0
                /\ Ours(Watch!Line("bad", tag), "done") = 0
BY DEF Watch!Line, Watch!Lines, Ours

\* What the server says to IDLE, while it does not idle, and to all else.
LEMMA ServerStarts ==
    ASSUME Watch!TypeOK, NEW tag \in Watch!Tags, NEW update \in BOOLEAN, Watch!ServerStartsIdling(tag, update),
           idleLines' = idleLines
    PROVE  /\ imapServer' = [idling |-> TRUE, tag |-> tag] /\ toClient' \in Seq(Watch!Lines)
           /\ Coming("+")' = Coming("+") + 1 /\ Coming("done")' = Coming("done")
           /\ updates' \in 0 .. MaxUpdates /\ updates' >= updates
           /\ Coming("update")' = Coming("update") + (updates' - updates)
<1> DEFINE plus == Watch!Line("+", 0)
           news == Watch!Line("update", 0)
<1>1. /\ imapServer' = [idling |-> TRUE, tag |-> tag]
      /\ update => updates < MaxUpdates
      /\ updates' = IF update THEN updates + 1 ELSE updates
      /\ toClient' = toClient \o (IF update THEN <<news>> ELSE <<>>) \o <<plus>>
  BY DEF Watch!ServerStartsIdling
<1>2. plus \in Watch!Lines /\ news \in Watch!Lines
  BY WatchTypes, LinesNamed
<1>3. updates \in 0 .. MaxUpdates /\ MaxUpdates \in Nat /\ toClient \in Seq(Watch!Lines) /\ idleLines \in Seq(Watch!Lines)
  BY WatchAssumption DEF Watch!TypeOK
<1>4. updates' \in 0 .. MaxUpdates /\ updates' = updates + (IF update THEN 1 ELSE 0)
  BY <1>1, <1>3
<1> HIDE DEF plus, news
<1>5. CASE update
  <2> DEFINE first == Append(toClient, news)
  <2>1. toClient' = Append(first, plus) /\ first \in Seq(Watch!Lines)
    <3>1. toClient' = (toClient \o <<news>>) \o <<plus>>
      BY <1>1, <1>5
    <3>2. toClient \o <<news>> = first /\ first \in Seq(Watch!Lines)
      BY <1>2, <1>3
    <3>3. first \o <<plus>> = Append(first, plus)
      BY <1>2, <3>2
    <3> QED
      BY <3>1, <3>2, <3>3
  <2> HIDE DEF first
  <2>2. ASSUME NEW k PROVE Count(toClient', k) = Count(toClient, k) + Ours(news, k) + Ours(plus, k)
    BY <1>2, <1>3, <2>1, CountAppended DEF first
  <2>3. ASSUME NEW k PROVE Coming(k)' = Count(idleLines, k) + Count(toClient', k)
    BY DEF Coming, Count
  <2>4. \A k \in {"+", "done", "update"} : Coming(k)' = Coming(k) + Ours(news, k) + Ours(plus, k)
    <3>1. ASSUME NEW k PROVE Coming(k)' = Coming(k) + Ours(news, k) + Ours(plus, k)
      BY <2>2, <2>3, ComingType DEF Ours, Coming
    <3> QED
      BY <3>1
  <2>5. /\ Coming("+") \in Nat /\ Coming("done") \in Nat /\ Coming("update") \in Nat
    BY ComingType
  <2>6. toClient' \in Seq(Watch!Lines)
    BY <1>2, <2>1
  <2> QED
    BY <1>1, <1>3, <1>4, <1>5, <2>4, <2>5, <2>6, LinesNamed DEF plus, news
<1>6. CASE ~update
  BY <1>1, <1>2, <1>3, <1>4, <1>6, LineSent, ComingType, LinesNamed DEF plus
<1> QED
  BY <1>5, <1>6

LEMMA ServerStops ==
    ASSUME Watch!TypeOK, Watch!ServerStopsIdling, idleLines' = idleLines
    PROVE  /\ ~imapServer'.idling /\ imapServer' \in [idling : BOOLEAN, tag : Watch!Tags] /\ updates' = updates
           /\ toClient' \in Seq(Watch!Lines)
           /\ Coming("+")' = Coming("+") /\ Coming("update")' = Coming("update")
           /\ Coming("done")' = Coming("done") + (IF imapServer.idling THEN 1 ELSE 0)
<1> DEFINE line == IF imapServer.idling THEN Watch!Line("done", imapServer.tag) ELSE Watch!Line("bad", 0)
<1>1. imapServer' = [imapServer EXCEPT !.idling = FALSE] /\ updates' = updates /\ toClient' = Append(toClient, line)
  BY DEF Watch!ServerStopsIdling
<1>2. imapServer \in [idling : BOOLEAN, tag : Watch!Tags]
  BY DEF Watch!TypeOK
<1>3. line \in Watch!Lines
  BY WatchTypes, LinesNamed
<1>4. /\ Ours(line, "+") = 0 /\ Ours(line, "update") = 0
      /\ Ours(line, "done") = IF imapServer.idling THEN 1 ELSE 0
  BY LinesNamed
<1> HIDE DEF line
<1>5. /\ Coming("+")' = Coming("+") + Ours(line, "+") /\ Coming("done")' = Coming("done") + Ours(line, "done")
      /\ Coming("update")' = Coming("update") + Ours(line, "update") /\ toClient' \in Seq(Watch!Lines)
  BY <1>1, <1>3, LineSent
<1>6. /\ Coming("+") \in Nat /\ Coming("done") \in Nat /\ Coming("update") \in Nat
  BY ComingType
<1>7. ~imapServer'.idling /\ imapServer' \in [idling : BOOLEAN, tag : Watch!Tags]
  BY <1>1, <1>2
<1> QED
  BY <1>1, <1>4, <1>5, <1>6, <1>7

LEMMA RowsOfTwo ==
    /\ \A x : <<x>> # <<>> /\ Head(<<x>>) = x /\ Tail(<<x>>) = <<>>
    /\ \A x, y : <<x, y>> # <<>> /\ Head(<<x, y>>) = x /\ Tail(<<x, y>>) = <<y>>
OBVIOUS

\* What the server reads, by what it does to the count of the lines.
LEMMA WatchServed ==
    ASSUME WatchInv, Watch!ServerReads
    PROVE  WatchInv'
<1>1. /\ toServer # <<>> /\ toServer' = Tail(toServer) /\ toServer \in Seq(Watch!Commands)
      /\ client' = client /\ readers' = readers /\ idleLines' = idleLines /\ heard' = heard /\ strayed' = strayed
      /\ Watch!TypeOK
  BY DEF Watch!ServerReads, WatchInv, WatchShape, Watch!TypeOK
<1>2. /\ Head(toServer) \in Watch!Commands /\ Head(toServer).tag \in Watch!Tags
      /\ toServer' \in Seq(Watch!Commands)
  <2>1. Head(toServer) \in Watch!Commands /\ Tail(toServer) \in Seq(Watch!Commands)
    BY <1>1
  <2> QED
    BY <1>1, <2>1 DEF Watch!Commands
<1> DEFINE starts == Head(toServer).kind = "IDLE" /\ ~imapServer.idling
<1>3. CASE starts
  <2>1. PICK update \in BOOLEAN : Watch!ServerStartsIdling(Head(toServer).tag, update)
    BY <1>3 DEF Watch!ServerReads
  <2>2. /\ imapServer' = [idling |-> TRUE, tag |-> Head(toServer).tag] /\ toClient' \in Seq(Watch!Lines)
        /\ Coming("+")' = Coming("+") + 1 /\ Coming("done")' = Coming("done")
        /\ updates' \in 0 .. MaxUpdates /\ updates' >= updates
        /\ Coming("update")' = Coming("update") + (updates' - updates)
    BY <1>1, <1>2, <2>1, ServerStarts
  <2>3. imapServer'.idling /\ imapServer'.tag = Head(toServer).tag
    BY <2>2
  <2>4. /\ Coming("+") \in Nat /\ Coming("done") \in Nat /\ Coming("update") \in Nat /\ updates' \in Nat
        /\ heard \in Nat /\ updates \in Nat
    BY <1>1, <2>2, ComingType, WatchTypes
  <2>5. Watch!TypeOK'
    BY <1>1, <1>2, <2>2 DEF Watch!TypeOK
  <2>6. WatchShape'
    BY <1>1, <2>2, <2>4, <2>5 DEF WatchInv, WatchShape, ReadersWait
  <2>7. WatchOrder'
    <3> SUFFICES ASSUME ~strayed
                 PROVE  (heard + Coming("update") = updates)' /\ (client.watch # "closed" => client.socket)' /\ WatchStates'
      BY <1>1 DEF WatchOrder
    <3>1. heard + Coming("update") = updates /\ (client.watch # "closed" => client.socket) /\ WatchStates
      BY DEF WatchInv, WatchOrder
    <3>2. heard' + Coming("update")' = updates'
      <4>1. heard' = heard /\ Coming("update")' = Coming("update") + (updates' - updates)
        BY <1>1, <2>2
      <4> QED
        BY <2>4, <3>1, <4>1
    <3>3. Asking => Asking'
      BY <1>1, <1>3, <2>2, <2>3, <2>4 DEF Asking, Ask, Idling
    <3>4. StoppedRenewed => StoppedRenewed'
      BY <1>1, <1>3 DEF Count, StoppedRenewed, Idling, Over
    <3>5. Crossed => Crossed'
      BY <1>1, <1>3, <2>2, <2>3 DEF Crossed, Ask, Over
    <3>6. ~Unopened /\ ~Active /\ ~Ending /\ ~Stopping /\ ~StoppedEnding /\ ~Closing
      BY <1>1, <1>3 DEF Unopened, Active, Ending, Stopping, StoppedEnding, Closing, Over, Bye, Idling
    <3> QED
      BY <1>1, <3>1, <3>2, <3>3, <3>4, <3>5, <3>6 DEF WatchStates
  <2> QED
    BY <2>6, <2>7 DEF WatchInv
<1>4. CASE ~starts
  <2>1. Watch!ServerStopsIdling
    BY <1>4 DEF Watch!ServerReads
  <2>2. /\ ~imapServer'.idling /\ imapServer' \in [idling : BOOLEAN, tag : Watch!Tags] /\ updates' = updates
        /\ toClient' \in Seq(Watch!Lines)
        /\ Coming("+")' = Coming("+") /\ Coming("update")' = Coming("update")
        /\ Coming("done")' = Coming("done") + (IF imapServer.idling THEN 1 ELSE 0)
    BY <1>1, <2>1, ServerStops
  <2>3. Coming("done") \in Nat
    BY <1>1, ComingType
  <2>4. Watch!TypeOK'
    BY <1>1, <1>2, <2>2 DEF Watch!TypeOK
  <2>5. WatchShape'
    BY <1>1, <2>2, <2>4 DEF WatchInv, WatchShape, ReadersWait
  <2>6. WatchOrder'
    <3> SUFFICES ASSUME ~strayed PROVE WatchStates'
      BY <1>1, <2>2 DEF WatchInv, WatchOrder
    <3>1. WatchStates
      BY DEF WatchInv, WatchOrder
    <3>2. Ending => Ending'
      BY <1>1, <1>4, <2>2, <2>3 DEF Ending, Over, Idling
    <3>3. Stopping => Stopping'
      BY <1>1, <1>4, <2>2, <2>3 DEF Stopping, Over, Idling
    <3>4. StoppedRenewed => StoppedRenewed'
      BY <1>1, <1>4, <2>2, <2>3 DEF Count, StoppedRenewed, Idling, Over
    <3>5. StoppedEnding => StoppedEnding'
      <4>1. CASE toServer = <<Over, Over>>
        BY <1>1, <2>2, <2>3, <4>1, RowsOfTwo DEF StoppedEnding, Idling
      <4>2. CASE toServer = <<Over>>
        BY <1>1, <2>2, <2>3, <4>2, RowsOfTwo DEF StoppedEnding, Idling
      <4> QED
        BY <1>1, <4>1, <4>2 DEF StoppedEnding
    <3>6. Crossed => Crossed'
      <4>1. CASE toServer = <<Over, Ask(client.tag)>>
        BY <1>1, <2>2, <4>1, RowsOfTwo DEF Ask, Crossed
      <4>2. CASE toServer = <<Ask(client.tag)>>
        BY <1>4, <4>2, RowsOfTwo DEF Ask, Crossed
      <4> QED
        BY <1>1, <4>1, <4>2 DEF Crossed
    <3>7. Closing => Closing'
      BY <1>1, <1>4, <2>2, <2>3 DEF Closing, Bye
    <3>8. ~Unopened /\ ~Asking /\ ~Active
      BY <1>1, <1>4 DEF Unopened, Asking, Active, Ask
    <3> QED
      BY <1>1, <3>1, <3>2, <3>3, <3>4, <3>5, <3>6, <3>7, <3>8 DEF WatchStates
  <2> QED
    BY <2>5, <2>6 DEF WatchInv
<1> QED
  BY <1>3, <1>4

LEMMA WatchUpdated ==
    ASSUME WatchInv, Watch!Update
    PROVE  WatchInv'
<1> DEFINE news == Watch!Line("update", 0)
<1>1. /\ imapServer.idling /\ updates < MaxUpdates /\ updates' = updates + 1 /\ toClient' = Append(toClient, news)
      /\ client' = client /\ readers' = readers /\ idleLines' = idleLines /\ toServer' = toServer
      /\ imapServer' = imapServer /\ heard' = heard /\ strayed' = strayed /\ Watch!TypeOK
  BY DEF Watch!Update, WatchInv, WatchShape
<1>2. news \in Watch!Lines
  BY <1>1, WatchTypes, LinesNamed
<1> HIDE DEF news
<1>3. /\ Coming("+")' = Coming("+") + Ours(news, "+") /\ Coming("done")' = Coming("done") + Ours(news, "done")
      /\ Coming("update")' = Coming("update") + Ours(news, "update") /\ toClient' \in Seq(Watch!Lines)
  BY <1>1, <1>2, LineSent
<1>4. /\ Coming("+") \in Nat /\ Coming("done") \in Nat /\ Coming("update") \in Nat /\ heard \in Nat
      /\ updates \in 0 .. MaxUpdates /\ MaxUpdates \in Nat
  BY <1>1, ComingType, WatchTypes, WatchAssumption DEF Watch!TypeOK
<1>5. /\ Coming("+")' = Coming("+") /\ Coming("done")' = Coming("done") /\ Coming("update")' = Coming("update") + 1
      /\ Count(idleLines, "+")' = Count(idleLines, "+")
  BY <1>1, <1>3, <1>4, LinesNamed DEF news, Count
<1>6. updates' \in 0 .. MaxUpdates
  BY <1>1, <1>4
<1>7. WatchShape'
  <2>1. Watch!TypeOK'
    BY <1>1, <1>3, <1>6 DEF Watch!TypeOK
  <2>2. (heard + Coming("update") <= updates)'
    BY <1>1, <1>4, <1>5 DEF WatchInv, WatchShape
  <2> QED
    BY <1>1, <2>1, <2>2 DEF WatchInv, WatchShape, ReadersWait
<1>8. WatchOrder'
  <2> SUFFICES ASSUME ~strayed
               PROVE  (heard + Coming("update") = updates)' /\ (client.watch # "closed" => client.socket)' /\ WatchStates'
    BY <1>1 DEF WatchOrder
  <2>1. heard + Coming("update") = updates /\ (client.watch # "closed" => client.socket) /\ WatchStates
    BY DEF WatchInv, WatchOrder
  <2>2. (heard + Coming("update") = updates)'
    BY <1>1, <1>4, <1>5, <2>1
  <2>3. WatchStates'
    BY <1>1, <1>5, <2>1 DEF WatchStates, Unopened, Asking, Active, Ending, Stopping, StoppedRenewed, StoppedEnding,
       Crossed, Closing, Idling, Ask, Over, Bye
  <2> QED
    BY <1>1, <2>1, <2>2, <2>3
<1> QED
  BY <1>7, <1>8 DEF WatchInv

\* A line is heard of, or waits for a reader; where a stop found a renewal its line is passed over.
LEMMA WatchDispatched ==
    ASSUME WatchInv, Watch!Dispatch
    PROVE  WatchInv'
<1> DEFINE line == Head(toClient)
<1>1. /\ client.socket /\ toClient # <<>> /\ toClient' = Tail(toClient)
      /\ client' = client /\ readers' = readers /\ toServer' = toServer /\ imapServer' = imapServer
      /\ updates' = updates /\ strayed' = strayed /\ Watch!TypeOK
      /\ ReadersWait /\ client.handler = (client.phase # "none" /\ client.watch # "closed")
  BY DEF Watch!Dispatch, WatchInv, WatchShape
<1>2. /\ Coming("+") \in Nat /\ Coming("done") \in Nat /\ Coming("update") \in Nat /\ heard \in Nat /\ updates \in Nat
      /\ Count(idleLines, "+") \in Nat /\ Count(idleLines, "+")' \in Nat /\ MaxUpdates \in Nat
      /\ updates \in 0 .. MaxUpdates /\ client.handler \in BOOLEAN
  <2>1. idleLines' \in Seq(Watch!Lines)
    <3>1. idleLines' = idleLines \/ idleLines' = Append(idleLines, line)
      BY DEF Watch!Dispatch
    <3>2. idleLines \in Seq(Watch!Lines) /\ line \in Watch!Lines
      BY <1>1, WatchTypes
    <3> QED
      BY <3>1, <3>2
  <2>2. Count(idleLines', "+") \in Nat
    BY <2>1, CountType
  <2> QED
    BY <1>1, <2>2, ComingType, WatchTypes, WatchAssumption DEF Watch!TypeOK, Count
<1>3. /\ Coming("+")' <= Coming("+") /\ Coming("done")' <= Coming("done") /\ Coming("+")' \in Nat /\ Coming("done")' \in Nat
      /\ heard' + Coming("update")' = heard + Coming("update") /\ heard' \in Nat /\ Coming("update")' \in Nat
      /\ toClient' \in Seq(Watch!Lines) /\ idleLines' \in Seq(Watch!Lines)
      /\ client.phase = "ending" /\ client.handler => Count(idleLines, "+")' = Count(idleLines, "+")
  <2>1. CASE Watch!Handled(line)
    <3>1. idleLines' = idleLines /\ heard' = IF line.kind = "update" THEN heard + 1 ELSE heard
      BY <2>1 DEF Watch!Dispatch
    <3>2. /\ Coming("+") = Coming("+")' + Ours(line, "+") /\ Coming("done") = Coming("done")' + Ours(line, "done")
          /\ Coming("update") = Coming("update")' + Ours(line, "update") /\ toClient' \in Seq(Watch!Lines)
          /\ Coming("+")' \in Nat /\ Coming("done")' \in Nat /\ Coming("update")' \in Nat
      BY <1>1, <3>1, LineHeard
    <3>3. /\ Ours(line, "+") \in Nat /\ Ours(line, "done") \in Nat
          /\ Ours(line, "update") = IF line.kind = "update" THEN 1 ELSE 0
      BY DEF Ours
    <3>4. idleLines' \in Seq(Watch!Lines)
      BY <1>1, <3>1, WatchTypes
    <3>5. Count(idleLines, "+")' = Count(idleLines, "+")
      BY <3>1 DEF Count
    <3> HIDE DEF line
    <3>6. heard' = heard + Ours(line, "update")
      BY <1>2, <3>1, <3>3
    <3>7. /\ Coming("+")' <= Coming("+") /\ Coming("done")' <= Coming("done")
          /\ heard' + Coming("update")' = heard + Coming("update") /\ heard' \in Nat
      <4>1. Ours(line, "update") \in Nat /\ Ours(line, "+") \in Nat /\ Ours(line, "done") \in Nat
        BY <3>3
      <4>2. Coming("+")' <= Coming("+")
        BY <3>2, <4>1
      <4>3. Coming("done")' <= Coming("done")
        BY <3>2, <4>1
      <4>4. heard' \in Nat
        BY <1>2, <3>6, <4>1
      <4>5. heard' + Coming("update")' = heard + Coming("update")
        BY <1>2, <3>2, <3>6, <4>1
      <4> QED
        BY <4>2, <4>3, <4>4, <4>5
    <3> QED
      BY <3>2, <3>4, <3>5, <3>7
  <2>2. CASE ~Watch!Handled(line)
    <3>1. idleLines' = Append(idleLines, line) /\ heard' = heard
      BY <2>2 DEF Watch!Dispatch
    <3>2. /\ Coming("+")' = Coming("+") /\ Coming("done")' = Coming("done") /\ Coming("update")' = Coming("update")
          /\ Count(idleLines, "+")' = Count(idleLines, "+") + Ours(line, "+")
          /\ toClient' \in Seq(Watch!Lines) /\ idleLines' \in Seq(Watch!Lines)
      BY <1>1, <3>1, LineMoved
    <3>3. client.phase = "ending" /\ client.handler => line.kind = "done"
      BY <2>2 DEF Watch!Handled
    <3>4. line.kind = "done" => Ours(line, "+") = 0
      BY DEF Ours
    <3> HIDE DEF line
    <3> QED
      BY <1>2, <3>1, <3>2, <3>3, <3>4
  <2> QED
    BY <2>1, <2>2
<1>4. WatchShape'
  <2>1. heard' + Coming("update")' <= updates
    BY <1>2, <1>3 DEF WatchInv, WatchShape
  <2>2. heard' \in 0 .. MaxUpdates
    BY <1>2, <1>3, <2>1
  <2>3. Watch!TypeOK'
    BY <1>1, <1>3, <2>2 DEF Watch!TypeOK
  <2> QED
    BY <1>1, <2>1, <2>3 DEF WatchInv, WatchShape, ReadersWait
<1>5. WatchOrder'
  <2> SUFFICES ASSUME ~strayed PROVE WatchStates'
    BY <1>1, <1>3 DEF WatchInv, WatchOrder
  <2>1. WatchStates
    BY DEF WatchInv, WatchOrder
  <2>2. StoppedRenewed => StoppedRenewed'
    <3>1. readers = <<"renewed", "stopped">> => client.watch = "open"
      BY <1>1 DEF ReadersWait
    <3>2. StoppedRenewed => Count(idleLines, "+")' = Count(idleLines, "+")
      BY <1>1, <1>3, <3>1 DEF StoppedRenewed
    <3>3. Coming("done") = 0 => Coming("done")' = 0
      BY <1>2, <1>3
    <3> QED
      BY <1>1, <3>2, <3>3 DEF StoppedRenewed, Idling, Over
  <2>3. /\ Coming("done") = 0 => Coming("done")' = 0
        /\ Coming("done") <= 1 => Coming("done")' <= 1
        /\ Coming("+") = 0 => Coming("+")' = 0
        /\ Coming("+") <= 1 => Coming("+")' <= 1
    BY <1>2, <1>3
  <2> QED
    BY <1>1, <2>1, <2>2, <2>3 DEF WatchStates, Unopened, Asking, Active, Ending, Stopping, StoppedEnding,
       Crossed, Closing, Idling, Ask, Over, Bye
<1> QED
  BY <1>4, <1>5 DEF WatchInv

\* What a line written to the server is, and the rows of readers there can be.
LEMMA CommandsNamed ==
    /\ \A tag \in Watch!Tags : Ask(tag) \in Watch!Commands
    /\ Watch!TypeOK => Over \in Watch!Commands /\ Bye \in Watch!Commands
BY WatchTypes DEF Watch!Commands, Ask, Over, Bye

LEMMA Written ==
    ASSUME Watch!TypeOK, NEW command \in Watch!Commands, toServer' = Append(toServer, command)
    PROVE  toServer' \in Seq(Watch!Commands)
BY DEF Watch!TypeOK

LEMMA RowsGrow ==
    /\ \A x : Append(<<>>, x) = <<x>>
    /\ \A x, y : Append(<<x>>, y) = <<x, y>>
<1>1. \A x : Append(<<>>, x) = <<x>>
  OBVIOUS
<1>2. ASSUME NEW x, NEW y
      PROVE  Append(<<x>>, y) = <<x, y>>
  <2> DEFINE S == {x, y}
             one == <<x>>
             two == <<x, y>>
             made == Append(one, y)
  <2>1. one \in Seq(S) /\ Len(one) = 1 /\ one[1] = x /\ y \in S
    OBVIOUS
  <2>2. two \in Seq(S) /\ Len(two) = 2 /\ two[1] = x /\ two[2] = y
    OBVIOUS
  <2> HIDE DEF S, one, two
  <2>3. made \in Seq(S) /\ Len(made) = 2 /\ made[1] = x /\ made[2] = y
    <3>1. /\ made \in Seq(S) /\ Len(made) = Len(one) + 1
          /\ \A i \in 1 .. Len(one) : made[i] = one[i]
          /\ made[Len(one) + 1] = y
      BY <2>1, Appended
    <3> HIDE DEF made
    <3> QED
      BY <2>1, <3>1
  <2> HIDE DEF made
  <2>4. \A i \in 1 .. 2 : made[i] = two[i]
    BY <2>2, <2>3
  <2>5. made = two
    BY <2>2, <2>3, <2>4
  <2> QED
    BY <2>5 DEF made, one, two
<1> QED
  BY <1>1, <1>2

LEMMA RowsOfReaders ==
    /\ <<>> \in Seq(Watch!Readers) /\ <<"stopped">> \in Seq(Watch!Readers) /\ <<"renewed">> \in Seq(Watch!Readers)
    /\ <<"stopped", "renewed">> \in Seq(Watch!Readers)
BY DEF Watch!Readers

\* The rows of readers differ.
LEMMA RowsDiffer ==
    /\ <<"ended">> # <<"start">> /\ <<"ended">> # <<"renewed">> /\ <<"ended">> # <<>> /\ <<"ended">> # <<"stopped">>
    /\ <<"ended">> # <<"renewed", "stopped">> /\ <<"ended">> # <<"ended", "stopped">>
    /\ <<"ended">> # <<"stopped", "renewed">>
    /\ <<"renewed">> # <<>> /\ <<"renewed">> # <<"stopped">> /\ <<"renewed">> # <<"renewed", "stopped">>
    /\ <<"renewed">> # <<"ended", "stopped">> /\ <<"renewed">> # <<"stopped", "renewed">> /\ <<"renewed">> # <<"start">>
    /\ <<"stopped">> # <<>> /\ <<"stopped">> # <<"start">> /\ <<"stopped">> # <<"ended">> /\ <<"stopped">> # <<"renewed">>
BY RowsOfTwo

LEMMA WatchOpened ==
    ASSUME WatchInv, Watch!Idle
    PROVE  WatchInv'
<1>1. /\ client.watch = "opening" /\ client.phase = "none"
      /\ client' = [client EXCEPT !.phase = "starting", !.tag = 1, !.handler = TRUE]
      /\ toServer' = Append(toServer, Ask(1)) /\ readers' = <<"start">>
      /\ idleLines' = idleLines /\ toClient' = toClient /\ imapServer' = imapServer /\ updates' = updates
      /\ heard' = heard /\ strayed' = strayed /\ Watch!TypeOK /\ ReadersWait
  BY DEF Watch!Idle, Watch!Write, Ask, WatchInv, WatchShape
<1>2. 1 \in Watch!Tags /\ client.renewals \in Nat
  BY <1>1, WatchAssumption, WatchTypes DEF Watch!Tags
<1>3. /\ client'.phase = "starting" /\ client'.tag = 1 /\ client'.handler = TRUE /\ client'.socket = client.socket
      /\ client'.refreshing = client.refreshing /\ client'.stopped = client.stopped
      /\ client'.renewals = client.renewals /\ client'.watch = "opening"
  BY <1>1 DEF Watch!TypeOK
<1>4. Watch!TypeOK'
  <2>1. toServer' \in Seq(Watch!Commands)
    BY <1>1, <1>2, CommandsNamed, Written
  <2>2. readers' \in Seq(Watch!Readers)
    BY <1>1 DEF Watch!Readers
  <2>3. /\ client' \in [phase : {"none", "starting", "active", "ending"}, tag : Watch!Tags, socket : BOOLEAN,
                        handler : BOOLEAN, refreshing : BOOLEAN, stopped : BOOLEAN, renewals : 0 .. MaxRenewals,
                        watch : {"opening", "open", "closed"}]
    BY <1>1, <1>2 DEF Watch!TypeOK
  <2> QED
    BY <1>1, <2>1, <2>2, <2>3 DEF Watch!TypeOK
<1>5. readers = <<>> /\ ~client.stopped /\ ~client.refreshing
  BY <1>1, RowsOfTwo DEF ReadersWait
<1>6. /\ Coming("update")' = Coming("update") /\ Coming("+")' = Coming("+") /\ Coming("done")' = Coming("done")
  BY <1>1, LinesStay
<1>7. readers' # <<"ended">> /\ readers' # <<"ended", "stopped">>
  BY <1>1, RowsOfTwo
<1>8. WatchShape'
  <2>1. ReadersWait'
    BY <1>1, <1>3, <1>5 DEF ReadersWait
  <2>2. (client.tag <= client.renewals + 1)'
    BY <1>2, <1>3
  <2> QED
    BY <1>1, <1>3, <1>4, <1>6, <1>7, <2>1, <2>2 DEF WatchInv, WatchShape
<1>9. WatchOrder'
  <2> SUFFICES ASSUME ~strayed PROVE Asking'
    BY <1>1, <1>3, <1>6 DEF WatchInv, WatchOrder, WatchStates
  <2>1. WatchStates
    BY DEF WatchInv, WatchOrder
  <2>2. Unopened
    BY <1>1, <1>5, <2>1, RowsOfTwo DEF WatchStates, Unopened, Asking, Active, Ending, Stopping, StoppedRenewed,
       StoppedEnding, Crossed, Closing
  <2>3. toServer' = <<Ask(1)>> /\ Ask(client.tag)' = Ask(1)
    BY <1>1, <1>3, <2>2, RowsGrow DEF Unopened, Ask
  <2> QED
    BY <1>1, <1>3, <1>6, <2>2, <2>3 DEF Unopened, Asking
<1> QED
  BY <1>8, <1>9 DEF WatchInv

LEMMA WatchRefreshed ==
    ASSUME WatchInv, Watch!Refresh
    PROVE  WatchInv'
<1>1. /\ client.watch = "open" /\ client.socket /\ client.renewals < MaxRenewals /\ ~client.stopped /\ ~client.refreshing
      /\ client' = [client EXCEPT !.refreshing = TRUE, !.phase = "ending", !.renewals = client.renewals + 1]
      /\ toServer' = Append(toServer, Over) /\ readers' = Append(readers, "ended")
      /\ idleLines' = idleLines /\ toClient' = toClient /\ imapServer' = imapServer /\ updates' = updates
      /\ heard' = heard /\ strayed' = strayed /\ Watch!TypeOK /\ ReadersWait
  BY DEF Watch!Refresh, Watch!MayRefresh, Watch!Write, Over, WatchInv, WatchShape
<1>2. client.renewals + 1 \in 0 .. MaxRenewals /\ client.renewals \in Nat /\ client.tag \in Nat
  BY <1>1, WatchAssumption, WatchTypes
<1>3. /\ client'.phase = "ending" /\ client'.tag = client.tag /\ client'.handler = client.handler
      /\ client'.socket = client.socket /\ client'.refreshing = TRUE /\ client'.stopped = client.stopped
      /\ client'.renewals = client.renewals + 1 /\ client'.watch = "open"
  BY <1>1 DEF Watch!TypeOK
<1>4. readers = <<>>
  BY <1>1 DEF ReadersWait
<1>5. readers' = <<"ended">>
  BY <1>1, <1>4, RowsGrow
<1>6. Watch!TypeOK'
  <2>1. toServer' \in Seq(Watch!Commands)
    BY <1>1, CommandsNamed, Written
  <2>2. readers' \in Seq(Watch!Readers)
    BY <1>5 DEF Watch!Readers
  <2>3. /\ client' \in [phase : {"none", "starting", "active", "ending"}, tag : Watch!Tags, socket : BOOLEAN,
                        handler : BOOLEAN, refreshing : BOOLEAN, stopped : BOOLEAN, renewals : 0 .. MaxRenewals,
                        watch : {"opening", "open", "closed"}]
    BY <1>1, <1>2 DEF Watch!TypeOK
  <2> QED
    BY <1>1, <2>1, <2>2, <2>3 DEF Watch!TypeOK
<1>7. /\ Coming("update")' = Coming("update") /\ Coming("+")' = Coming("+") /\ Coming("done")' = Coming("done")
  BY <1>1, LinesStay
<1>8. WatchShape'
  <2>1. ReadersWait'
    BY <1>1, <1>3, <1>5 DEF ReadersWait
  <2>2. (client.tag <= client.renewals + 1)' /\ (client.tag <= client.renewals)'
    BY <1>2, <1>3 DEF WatchInv, WatchShape
  <2>3. client.handler = (client.phase # "none" /\ client.watch # "closed") /\ client.phase # "none"
    BY <1>1 DEF WatchInv, WatchShape
  <2> QED
    BY <1>1, <1>3, <1>6, <1>7, <2>1, <2>2, <2>3 DEF WatchInv, WatchShape
<1>9. WatchOrder'
  <2> SUFFICES ASSUME ~strayed PROVE Ending'
    BY <1>1, <1>3, <1>7 DEF WatchInv, WatchOrder, WatchStates
  <2>1. WatchStates
    BY DEF WatchInv, WatchOrder
  <2>2. Active
    BY <1>1, <1>4, <2>1, RowsOfTwo DEF WatchStates, Unopened, Asking, Active, Ending, Stopping, StoppedRenewed,
       StoppedEnding, Crossed, Closing
  <2>3. toServer' = <<Over>>
    BY <1>1, <2>2, RowsGrow DEF Active
  <2> QED
    BY <1>1, <1>3, <1>5, <1>7, <2>2, <2>3 DEF Active, Ending, Idling, Over
<1> QED
  BY <1>8, <1>9 DEF WatchInv

LEMMA WatchStopped ==
    ASSUME WatchInv, Watch!Stop
    PROVE  WatchInv'
<1>1. /\ client.watch = "open" /\ client.socket /\ ~client.stopped
      /\ client' = [client EXCEPT !.stopped = TRUE, !.phase = "ending"]
      /\ toServer' = Append(toServer, Over) /\ readers' = Append(readers, "stopped")
      /\ idleLines' = idleLines /\ toClient' = toClient /\ imapServer' = imapServer /\ updates' = updates
      /\ heard' = heard /\ strayed' = strayed /\ Watch!TypeOK /\ ReadersWait
  BY DEF Watch!Stop, Watch!Write, Over, WatchInv, WatchShape
<1>2. /\ client'.phase = "ending" /\ client'.tag = client.tag /\ client'.handler = client.handler
      /\ client'.socket = client.socket /\ client'.refreshing = client.refreshing /\ client'.stopped = TRUE
      /\ client'.renewals = client.renewals /\ client'.watch = "open"
  BY <1>1 DEF Watch!TypeOK
<1>3. \/ readers = <<>> /\ readers' = <<"stopped">> /\ ~client.refreshing
      \/ readers = <<"ended">> /\ readers' = <<"ended", "stopped">>
      \/ readers = <<"renewed">> /\ readers' = <<"renewed", "stopped">>
  BY <1>1, RowsGrow DEF ReadersWait
<1>4. Watch!TypeOK'
  <2>1. toServer' \in Seq(Watch!Commands)
    BY <1>1, CommandsNamed, Written
  <2>2. readers' \in Seq(Watch!Readers)
    BY <1>1 DEF Watch!TypeOK, Watch!Readers
  <2>3. /\ client' \in [phase : {"none", "starting", "active", "ending"}, tag : Watch!Tags, socket : BOOLEAN,
                        handler : BOOLEAN, refreshing : BOOLEAN, stopped : BOOLEAN, renewals : 0 .. MaxRenewals,
                        watch : {"opening", "open", "closed"}]
    BY <1>1 DEF Watch!TypeOK
  <2> QED
    BY <1>1, <2>1, <2>2, <2>3 DEF Watch!TypeOK
<1>5. /\ Coming("update")' = Coming("update") /\ Coming("+")' = Coming("+") /\ Coming("done")' = Coming("done")
      /\ Count(idleLines, "+")' = Count(idleLines, "+")
  BY <1>1, LinesStay
<1>6. WatchShape'
  <2>1. ReadersWait'
    BY <1>1, <1>2, <1>3 DEF ReadersWait
  <2>2. (readers \in {<<"ended">>, <<"ended", "stopped">>} => client.tag <= client.renewals)'
    BY <1>2, <1>3, RowsOfTwo DEF WatchInv, WatchShape
  <2>3. client.handler = (client.phase # "none" /\ client.watch # "closed") /\ client.phase # "none"
    BY <1>1 DEF WatchInv, WatchShape
  <2> QED
    BY <1>1, <1>2, <1>4, <1>5, <2>1, <2>2, <2>3 DEF WatchInv, WatchShape
<1>7. WatchOrder'
  <2> SUFFICES ASSUME ~strayed PROVE WatchStates'
    BY <1>1, <1>2, <1>5 DEF WatchInv, WatchOrder
  <2>1. WatchStates
    BY DEF WatchInv, WatchOrder
  <2>2. CASE readers = <<>> /\ readers' = <<"stopped">> /\ ~client.refreshing
    BY <1>1, <1>2, <1>5, <2>1, <2>2, RowsOfTwo, RowsGrow DEF WatchStates, Unopened, Asking, Active, Ending,
       Stopping, StoppedRenewed, StoppedEnding, Crossed, Closing, Idling, Over
  <2>3. CASE readers = <<"ended">> /\ readers' = <<"ended", "stopped">>
    <3>1. Ending
      BY <1>1, <2>1, <2>3, RowsDiffer DEF WatchStates, Unopened, Asking, Active, Stopping, StoppedRenewed,
         StoppedEnding, Crossed, Closing
    <3>3. CASE toServer = <<Over>> /\ Idling /\ Coming("done") = 0
      BY <1>1, <1>2, <1>5, <2>3, <3>3, RowsGrow DEF StoppedEnding, Idling, Over, WatchStates
    <3>4. CASE toServer = <<>> /\ ~imapServer.idling /\ Coming("done") <= 1
      BY <1>1, <1>2, <1>5, <2>3, <3>4, RowsGrow DEF StoppedEnding, Idling, Over, WatchStates
    <3> QED
      BY <3>1, <3>3, <3>4 DEF Ending
  <2>4. CASE readers = <<"renewed">> /\ readers' = <<"renewed", "stopped">>
    <3>1. Asking
      BY <1>1, <2>1, <2>4, RowsDiffer DEF WatchStates, Unopened, Ending, Active, Stopping, StoppedRenewed,
         StoppedEnding, Crossed, Closing
    <3>2. CASE Coming("+") = 0
      <4>1. Count(idleLines, "+") = 0
        BY <1>1, <3>2, ComingType DEF Coming
      <4>2. StoppedRenewed'
        BY <1>2, <1>5, <2>4, <4>1 DEF StoppedRenewed
      <4> QED
        BY <4>2 DEF WatchStates
    <3>3. CASE toServer = <<>> /\ Idling /\ Coming("done") = 0
      BY <1>1, <1>2, <1>5, <2>4, <3>3, RowsGrow DEF StoppedRenewed, Idling, Over, WatchStates
    <3> QED
      BY <3>1, <3>2, <3>3 DEF Asking
  <2> QED
    BY <1>3, <2>2, <2>3, <2>4
<1> QED
  BY <1>6, <1>7 DEF WatchInv

\* A reader that goes on: the start, the renewal's two reads, and the stop.
GivenOne ==
    /\ readers # <<>> /\ idleLines # <<>> /\ idleLines' = Tail(idleLines)
    /\ strayed' = (strayed \/ ~Watch!Awaited(Head(readers), Head(idleLines)))
    /\ toClient' = toClient /\ imapServer' = imapServer /\ updates' = updates /\ heard' = heard

LEMMA OneGiven ==
    ASSUME WatchInv, GivenOne
    PROVE  /\ Coming("+")' \in Nat /\ Coming("done")' \in Nat /\ Coming("update")' \in Nat
           /\ Coming("+")' <= Coming("+") /\ Coming("done")' <= Coming("done") /\ Coming("update")' <= Coming("update")
           /\ heard' + Coming("update")' <= updates'
           /\ idleLines' \in Seq(Watch!Lines)
           /\ ~strayed' => /\ ~strayed /\ heard' + Coming("update")' = updates'
                           /\ Watch!Awaited(Head(readers), Head(idleLines))
           /\ Head(idleLines).kind = "+" => Coming("+") = Coming("+")' + 1 /\ Count(idleLines, "+") # 0
           /\ Head(idleLines).kind = "done" => Coming("done") = Coming("done")' + 1
<1> DEFINE line == Head(idleLines)
<1>1. /\ idleLines # <<>> /\ idleLines' = Tail(idleLines) /\ toClient' = toClient /\ updates' = updates /\ heard' = heard
      /\ strayed' = (strayed \/ ~Watch!Awaited(Head(readers), line))
      /\ Watch!TypeOK /\ heard + Coming("update") <= updates
      /\ ~strayed => heard + Coming("update") = updates
  BY DEF GivenOne, WatchInv, WatchShape, WatchOrder
<1>2. /\ Coming("+") = Coming("+")' + Ours(line, "+") /\ Coming("+")' \in Nat
      /\ Coming("done") = Coming("done")' + Ours(line, "done") /\ Coming("done")' \in Nat
      /\ Coming("update") = Coming("update")' + Ours(line, "update") /\ Coming("update")' \in Nat
      /\ idleLines' \in Seq(Watch!Lines) /\ (line.kind = "+" => Count(idleLines, "+") # 0)
  BY <1>1, LineRead
<1>3. /\ Ours(line, "+") \in Nat /\ Ours(line, "done") \in Nat /\ Ours(line, "update") \in Nat
      /\ line.kind = "+" => Ours(line, "+") = 1
      /\ line.kind = "done" => Ours(line, "done") = 1
  BY DEF Ours
<1>4. heard \in Nat /\ updates \in Nat
  BY <1>1, WatchTypes
<1>5. ~strayed' => ~strayed /\ Ours(line, "update") = 0 /\ Watch!Awaited(Head(readers), line)
  <2>1. ~strayed' => ~strayed /\ Watch!Awaited(Head(readers), line)
    BY <1>1
  <2>2. Watch!Awaited(Head(readers), line) => line.kind = "+" \/ line.kind = "done"
    <3>1. Watch!Line("done", client.tag).kind = "done"
      BY DEF Watch!Line
    <3> HIDE DEF line
    <3> QED
      BY <3>1 DEF Watch!Awaited
  <2>3. line.kind = "+" \/ line.kind = "done" => Ours(line, "update") = 0
    BY DEF Ours
  <2> QED
    BY <2>1, <2>2, <2>3
<1> HIDE DEF line
<1>6. /\ Coming("+")' <= Coming("+") /\ Coming("done")' <= Coming("done") /\ Coming("update")' <= Coming("update")
  BY <1>2, <1>3
<1>7. heard' + Coming("update")' <= updates'
  BY <1>1, <1>2, <1>3, <1>4
<1>8. ~strayed' => heard' + Coming("update")' = updates'
  <2> SUFFICES ASSUME ~strayed' PROVE heard' + Coming("update")' = updates'
    OBVIOUS
  <2>1. heard + Coming("update") = updates /\ Ours(line, "update") = 0 /\ updates' = updates /\ heard' = heard
    BY <1>1, <1>5
  <2> QED
    BY <1>2, <1>4, <2>1
<1>9. /\ line.kind = "+" => Coming("+") = Coming("+")' + 1
      /\ line.kind = "done" => Coming("done") = Coming("done")' + 1
  BY <1>2, <1>3
<1> QED
  BY <1>1, <1>2, <1>5, <1>6, <1>7, <1>8, <1>9 DEF line

\* A step in which a reader goes on keeps the invariant if it keeps the type, the row and the order.
LEMMA RowGoesOn ==
    ASSUME WatchInv, GivenOne, ReadersWait',
           toServer' \in Seq(Watch!Commands), readers' \in Seq(Watch!Readers),
           client' \in [phase : {"none", "starting", "active", "ending"}, tag : Watch!Tags, socket : BOOLEAN,
                        handler : BOOLEAN, refreshing : BOOLEAN, stopped : BOOLEAN, renewals : 0 .. MaxRenewals,
                        watch : {"opening", "open", "closed"}],
           client'.handler = (client'.phase # "none" /\ client'.watch # "closed"),
           client'.watch = "open" => client'.phase # "none",
           client'.tag <= client'.renewals + 1,
           readers' \notin {<<"ended">>, <<"ended", "stopped">>},
           client'.watch # "closed" => client'.socket = client.socket /\ client.watch # "closed",
           ~strayed' => WatchStates'
    PROVE  WatchInv'
<1>1. /\ heard' + Coming("update")' <= updates' /\ idleLines' \in Seq(Watch!Lines)
      /\ ~strayed' => ~strayed /\ heard' + Coming("update")' = updates'
  BY OneGiven
<1>2. toClient' = toClient /\ imapServer' = imapServer /\ updates' = updates /\ heard' = heard /\ strayed' \in BOOLEAN
  BY DEF GivenOne
<1>3. Watch!TypeOK'
  BY <1>1, <1>2 DEF Watch!TypeOK, WatchInv, WatchShape
<1>4. WatchShape'
  BY <1>1, <1>3 DEF WatchShape
<1>5. WatchOrder'
  BY <1>1 DEF WatchOrder, WatchInv
<1> QED
  BY <1>4, <1>5 DEF WatchInv

LEMMA RowsHeld ==
    ASSUME WatchInv, readers # <<>>
    PROVE  \/ Head(readers) = "start" /\ readers = <<"start">>
           \/ Head(readers) = "ended" /\ readers \in {<<"ended">>, <<"ended", "stopped">>}
           \/ Head(readers) = "renewed" /\ readers \in {<<"renewed">>, <<"renewed", "stopped">>}
           \/ Head(readers) = "stopped" /\ readers \in {<<"stopped">>, <<"stopped", "renewed">>}
BY RowsOfTwo DEF WatchInv, WatchShape, ReadersWait

LEMMA StartGoesOn ==
    ASSUME WatchInv, GivenOne, readers = <<"start">>, Watch!GoOn("start", Head(idleLines))
    PROVE  WatchInv'
<1> DEFINE line == Head(idleLines)
<1>1. /\ toServer' = toServer /\ readers' = <<>> /\ Watch!TypeOK /\ ReadersWait
      /\ client' = IF line.kind = "+" THEN [client EXCEPT !.phase = "active", !.watch = "open"] ELSE Watch!Closed(client)
  BY RowsOfTwo DEF Watch!GoOn, WatchInv, WatchShape
<1>2. client.watch = "opening" /\ client.phase # "none" /\ ~client.stopped /\ ~client.refreshing
  BY RowsOfTwo DEF ReadersWait, WatchInv, WatchShape
<1>3. client.handler = TRUE /\ client.tag <= client.renewals + 1
  BY <1>2 DEF WatchInv, WatchShape
<1>4. /\ client' \in [phase : {"none", "starting", "active", "ending"}, tag : Watch!Tags, socket : BOOLEAN,
                      handler : BOOLEAN, refreshing : BOOLEAN, stopped : BOOLEAN, renewals : 0 .. MaxRenewals,
                      watch : {"opening", "open", "closed"}]
      /\ client'.tag = client.tag /\ client'.renewals = client.renewals /\ client'.stopped = client.stopped
      /\ client'.refreshing = client.refreshing
  BY <1>1 DEF Watch!TypeOK, Watch!Closed
<1>5. CASE line.kind = "+"
  <2>1. /\ client'.phase = "active" /\ client'.watch = "open" /\ client'.socket = client.socket
        /\ client'.handler = client.handler
    BY <1>1, <1>5 DEF Watch!TypeOK
  <2>2. ~strayed' => Active'
    <3>1. SUFFICES ASSUME ~strayed' PROVE Active'
      OBVIOUS
    <3>2. WatchStates /\ Coming("+") = Coming("+")' + 1
      BY <1>5, <3>1, OneGiven DEF WatchInv, WatchOrder
    <3>3. Asking
      BY <1>2, <3>2, RowsDiffer, RowsOfTwo DEF WatchStates, Unopened, Active, Ending, Stopping, StoppedRenewed,
         StoppedEnding, Crossed, Closing
    <3>4. Coming("+")' \in Nat /\ Coming("done")' \in Nat /\ Coming("done")' <= Coming("done") /\ Coming("+") \in Nat /\ Coming("done") \in Nat
      BY <1>1, OneGiven, ComingType
    <3>5. toServer = <<>> /\ Idling /\ Coming("+")' = 0 /\ Coming("done")' = 0
      BY <3>2, <3>3, <3>4 DEF Asking
    <3> QED
      BY <1>1, <1>2, <1>4, <2>1, <3>5 DEF Active, Idling, GivenOne
  <2> QED
    BY <1>1, <1>2, <1>3, <1>4, <2>1, <2>2, RowsOfTwo, RowGoesOn DEF ReadersWait, WatchStates, Watch!TypeOK
<1>6. CASE line.kind # "+"
  <2>1. client'.phase = client.phase /\ client'.watch = "closed" /\ client'.handler = FALSE
    BY <1>1, <1>6 DEF Watch!TypeOK, Watch!Closed
  <2>2. ~strayed' => FALSE
    BY <1>6, OneGiven, RowsOfTwo DEF Watch!Awaited
  <2> QED
    BY <1>1, <1>2, <1>3, <1>4, <2>1, <2>2, RowsOfTwo, RowGoesOn DEF ReadersWait, Watch!TypeOK
<1> QED
  BY <1>5, <1>6

LEMMA EndedGoesOn ==
    ASSUME WatchInv, GivenOne, readers \in {<<"ended">>, <<"ended", "stopped">>}, Watch!GoOn("ended", Head(idleLines))
    PROVE  WatchInv'
<1> DEFINE line == Head(idleLines)
<1>1. /\ toServer' = Append(toServer, Ask(client.tag + 1)) /\ readers' = Append(Tail(readers), "renewed")
      /\ client' = [client EXCEPT !.phase = "starting", !.tag = client.tag + 1]
      /\ Watch!TypeOK /\ ReadersWait
  BY DEF Watch!GoOn, Watch!Write, Ask, WatchInv, WatchShape
<1>2. /\ client.tag <= client.renewals /\ client.tag \in Nat /\ client.renewals \in 0 .. MaxRenewals
      /\ client.watch = "open" /\ client.handler = TRUE
  BY <1>1, RowsDiffer, RowsOfTwo, WatchTypes DEF ReadersWait, WatchInv, WatchShape
<1>3. client.tag + 1 \in Watch!Tags /\ client.tag + 1 <= client.renewals + 1
  BY <1>2, WatchAssumption DEF Watch!Tags
<1>4. /\ client' \in [phase : {"none", "starting", "active", "ending"}, tag : Watch!Tags, socket : BOOLEAN,
                      handler : BOOLEAN, refreshing : BOOLEAN, stopped : BOOLEAN, renewals : 0 .. MaxRenewals,
                      watch : {"opening", "open", "closed"}]
      /\ client'.phase = "starting" /\ client'.tag = client.tag + 1 /\ client'.renewals = client.renewals
      /\ client'.stopped = client.stopped /\ client'.refreshing = client.refreshing /\ client'.watch = client.watch
      /\ client'.socket = client.socket /\ client'.handler = client.handler
  BY <1>1, <1>3 DEF Watch!TypeOK
<1>5. toServer' \in Seq(Watch!Commands)
  BY <1>1, <1>3, CommandsNamed, Written
<1>6. \/ readers = <<"ended">> /\ readers' = <<"renewed">> /\ ~client.stopped /\ client.refreshing
      \/ readers = <<"ended", "stopped">> /\ readers' = <<"stopped", "renewed">> /\ client.stopped
  <2>1. CASE readers = <<"ended">>
    BY <1>1, <2>1, RowsDiffer, RowsOfTwo, RowsGrow DEF ReadersWait
  <2>2. CASE readers = <<"ended", "stopped">>
    BY <1>1, <2>2, RowsDiffer, RowsOfTwo, RowsGrow DEF ReadersWait
  <2> QED
    BY <2>1, <2>2
<1>7. readers' \in Seq(Watch!Readers) /\ ReadersWait' /\ readers' \notin {<<"ended">>, <<"ended", "stopped">>}
  <2>1. readers' \in Seq(Watch!Readers)
    BY <1>6, RowsOfReaders
  <2>2. ReadersWait'
    BY <1>2, <1>4, <1>6 DEF ReadersWait
  <2>3. readers' # <<"ended">> /\ readers' # <<"ended", "stopped">>
    BY <1>6, RowsOfTwo, RowsDiffer
  <2> QED
    BY <2>1, <2>2, <2>3
<1>8. ~strayed' => WatchStates'
  <2> SUFFICES ASSUME ~strayed' PROVE WatchStates'
    OBVIOUS
  <2>1. WatchStates /\ Coming("done") = Coming("done")' + 1 /\ Coming("done")' \in Nat /\ Coming("+")' \in Nat
        /\ Coming("+")' <= Coming("+") /\ Coming("+") \in Nat
    <3>1. Watch!Line("done", client.tag).kind = "done"
      BY DEF Watch!Line
    <3>2. Head(readers) = "ended"
      BY <1>6, RowsOfTwo
    <3>3. line.kind = "done"
      BY <3>1, <3>2, OneGiven DEF Watch!Awaited
    <3> QED
      BY <1>1, <3>3, OneGiven, ComingType DEF WatchInv, WatchOrder
  <2>2. CASE readers = <<"ended">> /\ readers' = <<"renewed">>
    <3>1. Ending
      BY <1>2, <2>1, <2>2, RowsDiffer DEF WatchStates, Unopened, Asking, Active, Stopping, StoppedRenewed,
         StoppedEnding, Crossed, Closing
    <3>2. toServer = <<>> /\ ~imapServer.idling /\ Coming("+")' = 0 /\ Coming("done")' = 0
      BY <2>1, <3>1 DEF Ending
    <3>3. toServer' = <<Ask(client.tag)>>'
      BY <1>1, <1>4, <3>2, RowsGrow DEF Ask
    <3>4. Asking'
      BY <1>4, <2>2, <3>2, <3>3 DEF Asking, GivenOne
    <3> QED
      BY <3>4 DEF WatchStates
  <2>3. CASE readers = <<"ended", "stopped">> /\ readers' = <<"stopped", "renewed">>
    <3>1. StoppedEnding
      BY <1>2, <2>1, <2>3, RowsDiffer, RowsOfTwo DEF WatchStates, Unopened, Asking, Active, Ending, Stopping,
         StoppedRenewed, Crossed, Closing
    <3>2. toServer \in {<<Over>>, <<>>} /\ ~imapServer.idling /\ Coming("done")' = 0
      BY <2>1, <3>1 DEF StoppedEnding
    <3>3. toServer' = <<Over, Ask(client.tag + 1)>> \/ toServer' = <<Ask(client.tag + 1)>>
      BY <1>1, <3>2, RowsGrow
    <3>4. Ask(client.tag)' = Ask(client.tag + 1)
      BY <1>4 DEF Ask
    <3>5. Crossed'
      BY <2>3, <3>2, <3>3, <3>4 DEF Crossed, GivenOne, Over
    <3> QED
      BY <3>5 DEF WatchStates
  <2> QED
    BY <1>6, <2>2, <2>3
<1> QED
  BY <1>2, <1>3, <1>4, <1>5, <1>7, <1>8, RowGoesOn

LEMMA RenewedGoesOn ==
    ASSUME WatchInv, GivenOne, readers \in {<<"renewed">>, <<"renewed", "stopped">>},
           Watch!GoOn("renewed", Head(idleLines))
    PROVE  WatchInv'
<1> DEFINE line == Head(idleLines)
<1>1. /\ toServer' = toServer /\ readers' = Tail(readers)
      /\ client' = [client EXCEPT !.refreshing = FALSE, !.phase = IF line.kind = "+" THEN "active" ELSE client.phase]
      /\ Watch!TypeOK /\ ReadersWait
  BY DEF Watch!GoOn, WatchInv, WatchShape
<1>2. client.watch = "open" /\ client.handler = TRUE /\ client.phase # "none" /\ client.tag <= client.renewals + 1
  BY <1>1, RowsDiffer, RowsOfTwo DEF ReadersWait, WatchInv, WatchShape
<1> HIDE DEF line
<1>3. /\ client' \in [phase : {"none", "starting", "active", "ending"}, tag : Watch!Tags, socket : BOOLEAN,
                      handler : BOOLEAN, refreshing : BOOLEAN, stopped : BOOLEAN, renewals : 0 .. MaxRenewals,
                      watch : {"opening", "open", "closed"}]
      /\ client'.phase = (IF line.kind = "+" THEN "active" ELSE client.phase) /\ client'.tag = client.tag
      /\ client'.renewals = client.renewals
      /\ client'.stopped = client.stopped /\ client'.refreshing = FALSE /\ client'.watch = client.watch
      /\ client'.socket = client.socket /\ client'.handler = client.handler
  BY <1>1 DEF Watch!TypeOK
<1>4. \/ readers = <<"renewed">> /\ readers' = <<>> /\ ~client.stopped
      \/ readers = <<"renewed", "stopped">> /\ readers' = <<"stopped">> /\ client.stopped
  BY <1>1, RowsOfTwo, RowsDiffer DEF ReadersWait
<1>5. readers' \in Seq(Watch!Readers) /\ ReadersWait' /\ readers' \notin {<<"ended">>, <<"ended", "stopped">>}
  <2>1. readers' \in Seq(Watch!Readers)
    BY <1>4, RowsOfReaders
  <2>2. ReadersWait'
    BY <1>2, <1>3, <1>4 DEF ReadersWait
  <2>3. readers' # <<"ended">> /\ readers' # <<"ended", "stopped">>
    BY <1>4, RowsOfTwo
  <2> QED
    BY <2>1, <2>2, <2>3
<1>6. ~strayed' => WatchStates'
  <2> SUFFICES ASSUME ~strayed' PROVE WatchStates'
    OBVIOUS
  <2>1. /\ WatchStates /\ line.kind = "+" /\ Coming("+") = Coming("+")' + 1 /\ Coming("+")' \in Nat
        /\ Coming("done")' \in Nat /\ Coming("done") \in Nat /\ Coming("done")' <= Coming("done")
        /\ Count(idleLines, "+") # 0
    BY <1>1, <1>4, RowsOfTwo, OneGiven, ComingType DEF Watch!Awaited, line, WatchInv, WatchOrder
  <2>2. CASE readers = <<"renewed">> /\ readers' = <<>> /\ ~client.stopped
    BY <1>1, <1>2, <1>3, <2>1, <2>2, RowsDiffer DEF WatchStates, Unopened, Active, Ending, Stopping,
       StoppedRenewed, StoppedEnding, Crossed, Closing, Asking, Idling, GivenOne
  <2>3. CASE readers = <<"renewed", "stopped">> /\ readers' = <<"stopped">>
    BY <1>1, <1>2, <1>3, <2>1, <2>3, RowsDiffer, RowsOfTwo DEF WatchStates, Unopened, Asking, Active, Ending,
       Stopping, StoppedEnding, Crossed, Closing, StoppedRenewed, Idling, Over, GivenOne
  <2> QED
    BY <1>4, <2>2, <2>3
<1> QED
  BY <1>1, <1>2, <1>3, <1>5, <1>6, RowGoesOn DEF Watch!TypeOK

LEMMA StopGoesOn ==
    ASSUME WatchInv, GivenOne, readers \in {<<"stopped">>, <<"stopped", "renewed">>},
           Watch!GoOn("stopped", Head(idleLines))
    PROVE  WatchInv'
<1> DEFINE line == Head(idleLines)
<1>1. /\ toServer' = Append(toServer, Bye) /\ readers' = <<>> /\ client' = Watch!Closed(client)
      /\ Watch!TypeOK /\ ReadersWait
  BY DEF Watch!GoOn, Watch!Write, Bye, WatchInv, WatchShape
<1>2. client.tag <= client.renewals + 1
  BY DEF WatchInv, WatchShape
<1>3. /\ client' \in [phase : {"none", "starting", "active", "ending"}, tag : Watch!Tags, socket : BOOLEAN,
                      handler : BOOLEAN, refreshing : BOOLEAN, stopped : BOOLEAN, renewals : 0 .. MaxRenewals,
                      watch : {"opening", "open", "closed"}]
      /\ client'.tag = client.tag /\ client'.renewals = client.renewals /\ client'.handler = FALSE
      /\ client'.stopped = client.stopped /\ client'.refreshing = client.refreshing /\ client'.watch = "closed"
      /\ client'.socket = FALSE
  BY <1>1 DEF Watch!TypeOK, Watch!Closed
<1>4. toServer' \in Seq(Watch!Commands)
  BY <1>1, CommandsNamed, Written
<1>5. readers' \in Seq(Watch!Readers) /\ ReadersWait' /\ readers' \notin {<<"ended">>, <<"ended", "stopped">>}
  BY <1>1, <1>3, RowsDiffer, RowsOfTwo DEF ReadersWait
<1>6. ~strayed' => Closing'
  <2> SUFFICES ASSUME ~strayed' PROVE Closing'
    OBVIOUS
  <2>1. WatchStates /\ Coming("done") = Coming("done")' + 1 /\ Coming("done")' \in Nat
    BY RowsOfTwo, OneGiven DEF Watch!Line, Watch!Awaited, WatchInv, WatchOrder
  <2>2. client.stopped /\ client.watch = "open"
    BY <1>1, RowsDiffer, RowsOfTwo DEF ReadersWait
  <2>3. readers # <<>> /\ Head(readers) = "stopped"
    BY RowsOfTwo
  <2>4. Stopping
    BY <2>1, <2>2, <2>3, RowsOfTwo DEF WatchStates, Unopened, Asking, Active, Ending, StoppedRenewed,
       StoppedEnding, Crossed, Closing
  <2>5. toServer = <<>> /\ ~imapServer.idling /\ ~client.refreshing
    BY <2>1, <2>4 DEF Stopping
  <2>6. toServer' = <<Bye>>
    BY <1>1, <2>5, RowsGrow
  <2> QED
    BY <1>3, <2>2, <2>5, <2>6 DEF Closing, GivenOne, Bye
<1> QED
  BY <1>2, <1>3, <1>4, <1>5, <1>6, RowGoesOn DEF WatchStates

LEMMA WatchContinued ==
    ASSUME WatchInv, Watch!Continue
    PROVE  WatchInv'
BY RowsHeld, StartGoesOn, EndedGoesOn, RenewedGoesOn, StopGoesOn DEF Watch!Continue, GivenOne

\* Nobody answers in time, or the server hangs up: the watch has strayed, but its shape holds.
LEMMA WatchGivesUp ==
    ASSUME WatchInv, Watch!TimesOut
    PROVE  WatchInv'
<1>1. /\ readers # <<>> /\ strayed' = TRUE /\ idleLines' = idleLines /\ toClient' = toClient /\ toServer' = toServer
      /\ imapServer' = imapServer /\ updates' = updates /\ heard' = heard /\ Watch!TypeOK /\ ReadersWait
      /\ client.tag <= client.renewals + 1 /\ heard + Coming("update") <= updates
      /\ client.handler = (client.phase # "none" /\ client.watch # "closed")
      /\ client.watch = "open" => client.phase # "none"
  BY DEF Watch!TimesOut, WatchInv, WatchShape
<1>2. Coming("update")' = Coming("update")
  BY <1>1, LinesStay
<1>3. CASE Head(readers) \in {"start", "stopped"}
  <2>1. client' = Watch!Closed(client) /\ readers' = <<>>
    BY <1>3 DEF Watch!TimesOut
  <2>2. /\ client' \in [phase : {"none", "starting", "active", "ending"}, tag : Watch!Tags, socket : BOOLEAN,
                        handler : BOOLEAN, refreshing : BOOLEAN, stopped : BOOLEAN, renewals : 0 .. MaxRenewals,
                        watch : {"opening", "open", "closed"}]
        /\ client'.tag = client.tag /\ client'.renewals = client.renewals /\ client'.handler = FALSE
        /\ client'.watch = "closed"
    BY <1>1, <2>1 DEF Watch!TypeOK, Watch!Closed
  <2>3. Watch!TypeOK'
    BY <1>1, <2>1, <2>2 DEF Watch!TypeOK
  <2>4. WatchShape'
    BY <1>1, <1>2, <2>1, <2>2, <2>3, RowsDiffer, RowsOfTwo DEF WatchShape, ReadersWait
  <2> QED
    BY <1>1, <2>4 DEF WatchInv, WatchOrder
<1>4. CASE Head(readers) \notin {"start", "stopped"}
  <2>1. client' = [client EXCEPT !.refreshing = FALSE] /\ readers' = Tail(readers)
    BY <1>4 DEF Watch!TimesOut
  <2>2. /\ client' \in [phase : {"none", "starting", "active", "ending"}, tag : Watch!Tags, socket : BOOLEAN,
                        handler : BOOLEAN, refreshing : BOOLEAN, stopped : BOOLEAN, renewals : 0 .. MaxRenewals,
                        watch : {"opening", "open", "closed"}]
        /\ client'.tag = client.tag /\ client'.renewals = client.renewals /\ client'.handler = client.handler
        /\ client'.watch = client.watch /\ client'.phase = client.phase /\ client'.refreshing = FALSE
        /\ client'.stopped = client.stopped
    BY <1>1, <2>1 DEF Watch!TypeOK
  <2>3. client.watch = "open" /\ (readers' = <<>> \/ (readers' = <<"stopped">> /\ client.stopped))
    <3>1. \/ readers \in {<<"ended">>, <<"renewed">>}
          \/ readers \in {<<"ended", "stopped">>, <<"renewed", "stopped">>}
      BY <1>1, <1>4, RowsHeld
    <3>2. CASE readers \in {<<"ended">>, <<"renewed">>}
      BY <1>1, <2>1, <3>2, RowsOfTwo, RowsDiffer DEF ReadersWait
    <3>3. CASE readers \in {<<"ended", "stopped">>, <<"renewed", "stopped">>}
      BY <1>1, <2>1, <3>3, RowsOfTwo, RowsDiffer DEF ReadersWait
    <3> QED
      BY <3>1, <3>2, <3>3
  <2>4. readers' \in Seq(Watch!Readers) /\ readers' # <<"ended">> /\ readers' # <<"ended", "stopped">>
    <3>1. Head(<<"stopped">>) = "stopped" /\ Head(<<"ended">>) = "ended" /\ Head(<<"ended", "stopped">>) = "ended"
      BY RowsOfTwo
    <3>2. readers' \in Seq(Watch!Readers)
      BY <2>3, RowsOfReaders
    <3>3. readers' # <<"ended">> /\ readers' # <<"ended", "stopped">>
      BY <2>3, <3>1, RowsOfTwo
    <3> QED
      BY <3>2, <3>3
  <2>5. Watch!TypeOK'
    BY <1>1, <2>2, <2>4 DEF Watch!TypeOK
  <2>6. ReadersWait'
    BY <2>2, <2>3 DEF ReadersWait
  <2>7. WatchShape'
    BY <1>1, <1>2, <2>2, <2>4, <2>5, <2>6 DEF WatchShape
  <2> QED
    BY <1>1, <2>7 DEF WatchInv, WatchOrder
<1> QED
  BY <1>3, <1>4

LEMMA WatchHungUp ==
    ASSUME WatchInv, Watch!HangUp
    PROVE  WatchInv'
<1>1. /\ client' = [client EXCEPT !.socket = FALSE] /\ strayed' = TRUE /\ readers' = readers /\ idleLines' = idleLines
      /\ toClient' = toClient /\ toServer' = toServer /\ imapServer' = imapServer /\ updates' = updates
      /\ heard' = heard /\ Watch!TypeOK
  BY DEF Watch!HangUp, WatchInv, WatchShape
<1>2. /\ client' \in [phase : {"none", "starting", "active", "ending"}, tag : Watch!Tags, socket : BOOLEAN,
                      handler : BOOLEAN, refreshing : BOOLEAN, stopped : BOOLEAN, renewals : 0 .. MaxRenewals,
                      watch : {"opening", "open", "closed"}]
      /\ client'.phase = client.phase /\ client'.tag = client.tag /\ client'.renewals = client.renewals
      /\ client'.stopped = client.stopped /\ client'.refreshing = client.refreshing /\ client'.watch = client.watch
      /\ client'.handler = client.handler
  BY <1>1 DEF Watch!TypeOK
<1>3. Coming("update")' = Coming("update")
  BY <1>1, LinesStay
<1>4. Watch!TypeOK'
  BY <1>1, <1>2 DEF Watch!TypeOK
<1>5. WatchShape'
  BY <1>1, <1>2, <1>3, <1>4 DEF WatchInv, WatchShape, ReadersWait
<1> QED
  BY <1>1, <1>5 DEF WatchInv, WatchOrder

LEMMA WatchInitially == Watch!Init => WatchInv
<1> SUFFICES ASSUME Watch!Init PROVE WatchInv
  OBVIOUS
<1>1. /\ client = [phase |-> "none", tag |-> 0, socket |-> TRUE, handler |-> FALSE,
                   refreshing |-> FALSE, stopped |-> FALSE, renewals |-> 0, watch |-> "opening"]
      /\ readers = <<>> /\ idleLines = <<>> /\ toServer = <<>> /\ toClient = <<>>
      /\ imapServer = [idling |-> FALSE, tag |-> 0] /\ updates = 0 /\ heard = 0 /\ strayed = FALSE
  BY DEF Watch!Init
<1>2. \A k : Count(<<>>, k) = 0
  <2>1. <<>> \in Seq(Watch!Lines)
    OBVIOUS
  <2> QED
    BY <2>1, CountType
<1>3. Coming("update") = 0 /\ Coming("+") = 0 /\ Coming("done") = 0
  BY <1>1, <1>2 DEF Coming
<1>4. Watch!TypeOK
  <2>1. 0 \in Watch!Tags /\ 0 \in 0 .. MaxRenewals /\ 0 \in 0 .. MaxUpdates
    BY WatchAssumption DEF Watch!Tags
  <2>2. /\ client \in [phase : {"none", "starting", "active", "ending"}, tag : Watch!Tags, socket : BOOLEAN,
                       handler : BOOLEAN, refreshing : BOOLEAN, stopped : BOOLEAN, renewals : 0 .. MaxRenewals,
                       watch : {"opening", "open", "closed"}]
        /\ imapServer \in [idling : BOOLEAN, tag : Watch!Tags]
    BY <1>1, <2>1
  <2>3. /\ <<>> \in Seq(Watch!Readers) /\ <<>> \in Seq(Watch!Lines) /\ <<>> \in Seq(Watch!Commands)
    OBVIOUS
  <2> QED
    BY <1>1, <2>1, <2>2, <2>3 DEF Watch!TypeOK
<1>5. WatchShape
  <2>1. /\ client.watch = "opening" /\ client.phase = "none" /\ client.tag = 0 /\ client.renewals = 0
        /\ ~client.stopped /\ ~client.refreshing /\ client.handler = FALSE
    BY <1>1
  <2>2. ReadersWait
    BY <1>1, <2>1 DEF ReadersWait
  <2>3. readers \notin {<<"ended">>, <<"ended", "stopped">>}
    BY <1>1, RowsDiffer, RowsOfTwo
  <2>4. heard + Coming("update") <= updates /\ client.tag <= client.renewals + 1
    BY <1>1, <1>3, <2>1
  <2> QED
    BY <1>4, <2>1, <2>2, <2>3, <2>4 DEF WatchShape
<1>6. Unopened
  BY <1>1, <1>3 DEF Unopened
<1> QED
  BY <1>1, <1>3, <1>5, <1>6 DEF WatchInv, WatchOrder, WatchStates

LEMMA WatchStep == WatchInv /\ [Watch!Next]_watch => WatchInv'
<1> SUFFICES ASSUME WatchInv, [Watch!Next]_watch PROVE WatchInv'
  OBVIOUS
<1>1. CASE watch' = watch
  BY <1>1, LinesStay DEF watch, WatchInv, WatchShape, ReadersWait, Watch!TypeOK, WatchOrder, WatchStates,
     Unopened, Asking, Active, Ending, Stopping, StoppedRenewed, StoppedEnding, Crossed, Closing, Idling, Ask,
     Over, Bye
<1>2. CASE Watch!Next
  BY <1>2, WatchServed, WatchUpdated, WatchDispatched, WatchOpened, WatchRefreshed, WatchStopped, WatchContinued,
     WatchGivesUp, WatchHungUp DEF Watch!Next
<1> QED
  BY <1>1, <1>2

LEMMA WatchHolds == WatchInv => Watch!TypeOK /\ Watch!WatchHearsAll
<1> SUFFICES ASSUME WatchInv PROVE Watch!TypeOK /\ Watch!WatchHearsAll
  OBVIOUS
<1>1. Watch!TypeOK /\ ReadersWait
  BY DEF WatchInv, WatchShape
<1>2. \A lines : Watch!UpdatesIn(lines) = Count(lines, "update")
  BY DEF Watch!UpdatesIn, Count, Watch!Cardinality, Cardinality
<1>3. /\ Count(toClient, "update") \in Nat /\ Count(idleLines, "update") \in Nat /\ heard \in Nat
  BY <1>1, ComingType, WatchTypes
<1>4. heard + Watch!UpdatesIn(toClient) + Watch!UpdatesIn(idleLines) = heard + Coming("update")
  BY <1>2, <1>3 DEF Coming
<1> SUFFICES ASSUME ~strayed
             PROVE  /\ client.phase = "active" /\ ~client.stopped => imapServer = [idling |-> TRUE, tag |-> client.tag]
                    /\ client.watch = "closed" => ~imapServer.idling /\ ~client.refreshing /\ ~client.socket
  BY <1>1, <1>4 DEF WatchInv, WatchOrder, Watch!WatchHearsAll
<1>5. WatchStates
  BY DEF WatchInv, WatchOrder
<1>6. client.phase = "active" /\ ~client.stopped => imapServer = [idling |-> TRUE, tag |-> client.tag]
  <2> SUFFICES ASSUME client.phase = "active", ~client.stopped PROVE imapServer = [idling |-> TRUE, tag |-> client.tag]
    OBVIOUS
  <2>3. /\ client.watch = "opening" => readers # <<>>
        /\ readers # <<"stopped">> /\ readers # <<"ended", "stopped">> /\ readers # <<"stopped", "renewed">>
    BY <1>1, RowsDiffer, RowsOfTwo DEF ReadersWait
  <2>1. Active
    BY <1>5, <2>3 DEF WatchStates, Unopened, Asking, Active, Ending, Stopping, StoppedRenewed, StoppedEnding,
       Crossed, Closing
  <2>2. imapServer.idling = TRUE /\ imapServer.tag = client.tag
    BY <1>1, <2>1 DEF Active, Idling, Watch!TypeOK
  <2> QED
    BY <1>1, <2>2 DEF Watch!TypeOK
<1>7. client.watch = "closed" => ~imapServer.idling /\ ~client.refreshing /\ ~client.socket
  <2> SUFFICES ASSUME client.watch = "closed" PROVE Closing
    BY DEF Closing
  <2>1. readers = <<>>
    BY <1>1 DEF ReadersWait
  <2> QED
    BY <1>5, <2>1, RowsDiffer, RowsOfTwo DEF WatchStates, Unopened, Asking, Active,
       Ending, Stopping, StoppedRenewed, StoppedEnding, Crossed, Closing
<1> QED
  BY <1>6, <1>7
-----------------------------------------------------------------------------
(***************************************************************************)
(* The suite: the parts share no variable that two of them change but the   *)
(* clock, and only one of them runs.                                        *)
(***************************************************************************)
ProvedParts == {"store", "schema", "policy", "webhook", "lifecycle", "submission", "core",
                "signatures", "identity", "hashes", "redaction", "records", "projection", "startup", "frontend",
                "watch"}

SuiteInv ==
    /\ part \in Parts
    /\ part = "store" => StoreInv
    /\ part = "schema" => SchemaInv
    /\ part = "policy" => PolicyInv
    /\ part = "webhook" => WebhookInv
    /\ part = "lifecycle" => LifecycleInv
    /\ part = "submission" => SubmissionInv
    /\ part = "core" => CoreInv
    /\ part = "signatures" => SignatureInv
    /\ part = "identity" => IdentityInv
    /\ part = "hashes" => HashesInv
    /\ part = "redaction" => RedactionInv
    /\ part = "records" => RecordsInv
    /\ part = "projection" => ProjectionInv
    /\ part = "startup" => StartupInv
    /\ part = "frontend" => FrontendInv
    /\ part = "watch" => WatchInv

LEMMA SuiteInitially == Init => SuiteInv
<1> SUFFICES ASSUME Init PROVE SuiteInv
  OBVIOUS
<1>1. /\ part \in Parts /\ Postgres!TenantInit /\ Postgres!SchemaInit /\ Alerting!PolicyInit
      /\ Alerting!WebhookInit /\ Submission!Init /\ Core!CoreInit /\ Core!SignatureInit
      /\ Lifecycle!Init /\ Identity!Init /\ Hashes!Init /\ Log!RedactionInit /\ Log!RecordInit
      /\ Projection!Init /\ Startup!Init /\ Frontend!Init /\ Watch!Init
  BY DEF Init
<1> QED
  BY <1>1, StoreInit, SchemaInitially, PolicyInitially, WebhookInitially, LifecycleInitially,
     SubmissionInitially, CoreInitially, SignatureInitially, IdentityInitially, HashesInitially,
     RedactionInitially, RecordInitially, ProjectionInitially, StartupInitially,
     FrontendInitially, WatchInitially DEF SuiteInv

\* A step of the suite is one of the part that runs.
PartStep ==
    /\ UNCHANGED part
    /\ part = "store" => [Postgres!TenantNext]_tenants
    /\ part = "schema" => [Postgres!SchemaNext]_schema
    /\ part = "policy" => [Alerting!PolicyNext]_policy
    /\ part = "webhook" => [Alerting!WebhookNext]_webhook
    /\ part = "lifecycle" => [Lifecycle!Next]_lifecycle
    /\ part = "submission" => [Submission!Next]_<<submission, clock>>
    /\ part = "core" => [Core!CoreNext]_core
    /\ part = "signatures" => [Core!SignatureNext]_<<signatures, clock>>
    /\ part = "identity" => [Identity!Next]_identity
    /\ part = "hashes" => [Hashes!Next]_hashes
    /\ part = "redaction" => [Log!Sanitize]_redaction
    /\ part = "records" => [Log!RecordNext]_records
    /\ part = "projection" => [Projection!Next]_projection
    /\ part = "startup" => [Startup!Next]_startup
    /\ part = "frontend" => [Frontend!Next]_frontend
    /\ part = "watch" => [Watch!Next]_watch

LEMMA SuiteSteps == [Next]_vars => PartStep
<1> SUFFICES ASSUME [Next]_vars PROVE PartStep
  OBVIOUS
<1>1. CASE UNCHANGED vars
  BY <1>1 DEF vars, clients, mail, backing, credentials, logging, surroundings, PartStep
<1>2. CASE UNCHANGED part /\ ClientsNext /\ UNCHANGED <<mail, backing, credentials, logging, surroundings>>
  BY <1>2 DEF ClientsNext, mail, backing, credentials, logging, surroundings, PartStep
<1>3. CASE UNCHANGED part /\ MailNext /\ UNCHANGED <<clients, backing, credentials, logging, surroundings>>
  BY <1>3 DEF MailNext, clients, backing, credentials, logging, surroundings, PartStep
<1>4. CASE UNCHANGED part /\ BackingNext /\ UNCHANGED <<clients, mail, credentials, logging, surroundings>>
  BY <1>4 DEF BackingNext, clients, mail, credentials, logging, surroundings, PartStep
<1>5. CASE UNCHANGED part /\ CredentialsNext /\ UNCHANGED <<clients, mail, backing, logging, surroundings>>
  BY <1>5 DEF CredentialsNext, clients, mail, backing, logging, surroundings, PartStep
<1>6. CASE UNCHANGED part /\ LoggingNext /\ UNCHANGED <<clients, mail, backing, credentials, surroundings>>
  BY <1>6 DEF LoggingNext, clients, mail, backing, credentials, surroundings, PartStep
<1>7. CASE UNCHANGED part /\ SurroundingsNext /\ UNCHANGED <<clients, mail, backing, credentials, logging>>
  BY <1>7 DEF SurroundingsNext, clients, mail, backing, credentials, logging, PartStep
<1> QED
  BY <1>1, <1>2, <1>3, <1>4, <1>5, <1>6, <1>7 DEF Next

LEMMA SuiteStep == SuiteInv /\ [Next]_vars => SuiteInv'
<1> SUFFICES ASSUME SuiteInv, [Next]_vars PROVE SuiteInv'
  OBVIOUS
<1>1. PartStep
  BY SuiteSteps
<1>2. part' = part
  BY <1>1 DEF PartStep
<1> QED
  BY <1>1, <1>2, StoreStep, SchemaStep, PolicyStep, WebhookStep, LifecycleStep, SubmissionStep, CoreStep,
     SignatureStep, IdentityStep, HashesStep, RedactionStep, RecordStep, ProjectionStep, StartupStep,
     FrontendStep, WatchStep DEF PartStep, SuiteInv

LEMMA SuiteAlways == Spec => []SuiteInv
BY SuiteInitially, SuiteStep, PTL DEF Spec

\* Each proved part's state has its shape, whatever clients, members, releases, people or
\* messages there are and whatever the bounds.
THEOREM TypesCorrect == Spec => [](part \in ProvedParts => TypeOK)
<1>1. SuiteInv => (part \in ProvedParts => TypeOK)
  <2> SUFFICES ASSUME SuiteInv, part \in ProvedParts PROVE TypeOK
    OBVIOUS
  <2> QED
    BY StoreHolds, SchemaHolds, PolicyHolds, WebhookHolds, LifecycleHolds, SubmissionHolds, CoreHolds,
       SignatureHolds, IdentityHolds, HashesHolds, RedactionHolds, RecordHolds, ProjectionHolds,
       StartupHolds, FrontendGives, WatchHolds DEF SuiteInv, ProvedParts, TypeOK
<1> QED
  BY <1>1, SuiteAlways, PTL

\* Each proved part gives what it is asked for: the store its quota (postgres-store.ts), the
\* runner its schema (migration-runner.ts), the alerts the worst of what was measured, told in
\* order (alert-policy.ts, webhook-alert-adapter.ts), a stop its end (server.ts), the policy, the
\* core and the signatures what they accept, account for and call ready (mail-policy.ts,
\* mail-core.ts, scanner-signatures.ts), a sign-in what its account earns (login.ts), a
\* stored hash its password (password-hashing.ts), a log record all its own and no secret
\* (logger.ts), a reader a secret that was there (projected-secret-file-store.ts), a start a
\* configuration whose clients can be made (config.ts, index.ts), a DAV request the object its
\* principal may name, in the version its headers ask for (server.ts), and a watched mailbox
\* every update (imap-client.ts).
THEOREM OperationsCorrect == Spec => [](part \in ProvedParts => OperationsHold)
<1>1. SuiteInv => (part \in ProvedParts => OperationsHold)
  <2> SUFFICES ASSUME SuiteInv, part \in ProvedParts PROVE OperationsHold
    OBVIOUS
  <2> QED
    BY StoreHolds, SchemaHolds, PolicyHolds, WebhookHolds, LifecycleHolds, SubmissionHolds, CoreHolds,
       SignatureHolds, IdentityHolds, HashesHolds, RedactionHolds, RecordHolds, ProjectionHolds,
       StartupHolds, FrontendGives, WatchHolds DEF SuiteInv, ProvedParts, OperationsHold
<1> QED
  BY <1>1, SuiteAlways, PTL

\* What is there is not taken back: the gross quota of a tenant and its users
\* (postgres-store.ts), and an alert as long as nothing got better (alert-policy.ts).
THEOREM KeepCorrect == Spec => OperationsKeep
<1>1. SuiteInv /\ [Next]_vars =>
        [ /\ part = "store" => Postgres!TenantSteps
          /\ part = "policy" => Alerting!WorseIsNoMilder ]_vars
  <2> SUFFICES ASSUME SuiteInv, [Next]_vars
               PROVE  /\ part = "store" => Postgres!TenantSteps
                      /\ part = "policy" => Alerting!WorseIsNoMilder
    OBVIOUS
  <2>1. PartStep
    BY SuiteSteps
  <2> QED
    BY <2>1, StoreStep, PolicyStep DEF PartStep, SuiteInv
<1> QED
  BY <1>1, SuiteAlways, PTL DEF Spec, OperationsKeep
=============================================================================
