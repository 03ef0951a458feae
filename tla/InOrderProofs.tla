----------------------------- MODULE InOrderProofs -----------------------------
(***************************************************************************)
(* What InOrder makes of a set of numbers: a sequence that has each of     *)
(* them once, in ascending order.                                          *)
(* Lemmas for the modules whose components filter or sort.                 *)
(***************************************************************************)
EXTENDS InOrder, FiniteSetTheorems, TLAPS

\* The members of a sequence over a set are in it.
LEMMA MembersTyped ==
  ASSUME NEW T, NEW list \in Seq(T), NEW i \in DOMAIN list PROVE list[i] \in T
<1>1. i \in 1 .. Len(list)
  OBVIOUS
<1> QED
  BY <1>1

\* A sequence over a set is one over every greater set.
LEMMA SeqGrows ==
  ASSUME NEW S, NEW T, S \subseteq T, NEW list \in Seq(S) PROVE list \in Seq(T)
<1>1. Len(list) \in Nat /\ list = [k \in 1 .. Len(list) |-> list[k]]
  OBVIOUS
<1>2. \A k \in 1 .. Len(list) : list[k] \in T
  BY MembersTyped
<1> QED
  BY <1>1, <1>2

\* The rank of a member lies between 1 and the size of the set.
LEMMA RankType ==
  ASSUME NEW S \in SUBSET Int, IsFiniteSet(S), NEW n \in S
  PROVE  Rank(S, n) \in 1 .. Cardinality(S)
<1> DEFINE below == {m \in S : m <= n}
<1>1. below \in SUBSET S
  OBVIOUS
<1>2. IsFiniteSet(below) /\ Cardinality(below) <= Cardinality(S)
  BY <1>1, FS_Subset
<1>3. Cardinality(below) \in Nat /\ Cardinality(S) \in Nat
  BY <1>2, FS_CardinalityType
<1>4. n \in below
  OBVIOUS
<1>5. Cardinality(below) # 0
  BY <1>2, <1>4, FS_EmptySet
<1> QED
  BY <1>2, <1>3, <1>5 DEF Rank

\* The greater of two members has the greater rank.
LEMMA RankIncreases ==
  ASSUME NEW S \in SUBSET Int, IsFiniteSet(S), NEW m \in S, NEW n \in S, m < n
  PROVE  Rank(S, m) < Rank(S, n)
<1> DEFINE Below(x) == {k \in S : k <= x}
<1>1. Below(n) \in SUBSET S /\ Below(m) \in SUBSET Below(n)
  <2>1. \A k \in S : k \in Int /\ (k <= m => k <= n)
    OBVIOUS
  <2> QED
    BY <2>1
<1>2. IsFiniteSet(Below(n))
  BY <1>1, FS_Subset
<1>3. /\ IsFiniteSet(Below(m))
      /\ Cardinality(Below(m)) <= Cardinality(Below(n))
      /\ Cardinality(Below(n)) = Cardinality(Below(m)) => Below(n) = Below(m)
  BY <1>1, <1>2, FS_Subset
<1>4. n \in Below(n) /\ n \notin Below(m)
  OBVIOUS
<1>5. Cardinality(Below(m)) \in Nat /\ Cardinality(Below(n)) \in Nat
  BY <1>2, <1>3, FS_CardinalityType
<1> QED
  BY <1>3, <1>4, <1>5 DEF Rank

\* Every number from 1 to the size of the set is the rank of a member.
LEMMA EveryRankOccurs ==
  ASSUME NEW S \in SUBSET Int, IsFiniteSet(S), NEW k \in 1 .. Cardinality(S)
  PROVE  \E n \in S : Rank(S, n) = k
<1> DEFINE T == 1 .. Cardinality(S)
           rank == [n \in S |-> Rank(S, n)]
<1>1. Cardinality(S) \in Nat
  BY FS_CardinalityType
<1>2. IsFiniteSet(T) /\ Cardinality(T) = Cardinality(S)
  BY <1>1, FS_Interval
<1>3. rank \in [S -> T]
  BY RankType
<1>4. ASSUME NEW m \in S, NEW n \in S, rank[m] = rank[n] PROVE m = n
  <2>1. ~ m < n /\ ~ n < m
    BY <1>1, <1>4, RankIncreases, RankType
  <2> QED
    BY <2>1
<1> HIDE DEF rank, T
<1>5. rank \in Injection(S, T)
  BY <1>3, <1>4 DEF Injection, IsInjective
<1>6. rank \in Surjection(S, T)
  BY <1>2, <1>5, FS_Injection
<1>7. \E n \in S : rank[n] = k
  BY <1>6 DEF Surjection, T
<1> QED
  BY <1>7 DEF rank

\* The members of a finite set of numbers in order: as many as there are, each of them
\* somewhere, the lesser before the greater.
LEMMA InOrderSorts ==
  ASSUME NEW S \in SUBSET Int, IsFiniteSet(S)
  PROVE  /\ InOrder(S) \in Seq(S)
         /\ Len(InOrder(S)) = Cardinality(S)
         /\ \A n \in S : \E k \in 1 .. Cardinality(S) : InOrder(S)[k] = n
         /\ \A k, l \in 1 .. Cardinality(S) : k < l => InOrder(S)[k] < InOrder(S)[l]
<1>1. Cardinality(S) \in Nat
  BY FS_CardinalityType
<1>2. \A k \in 1 .. Cardinality(S) : InOrder(S)[k] \in S /\ Rank(S, InOrder(S)[k]) = k
  BY EveryRankOccurs DEF InOrder
<1>3. InOrder(S) \in Seq(S) /\ Len(InOrder(S)) = Cardinality(S)
  BY <1>1, <1>2 DEF InOrder
<1>4. ASSUME NEW n \in S PROVE \E k \in 1 .. Cardinality(S) : InOrder(S)[k] = n
  <2>1. PICK k \in 1 .. Cardinality(S) : k = Rank(S, n)
    BY RankType
  <2>2. PICK m \in S : m = InOrder(S)[k] /\ Rank(S, m) = k
    BY <1>2
  <2>3. ~ m < n /\ ~ n < m
    BY <1>1, <2>1, <2>2, RankIncreases
  <2>4. m = n
    BY <2>3
  <2> QED
    BY <2>2, <2>4
<1>5. ASSUME NEW k \in 1 .. Cardinality(S), NEW l \in 1 .. Cardinality(S), k < l
      PROVE  InOrder(S)[k] < InOrder(S)[l]
  <2>1. PICK m \in S : m = InOrder(S)[k] /\ Rank(S, m) = k
    BY <1>2
  <2>2. PICK n \in S : n = InOrder(S)[l] /\ Rank(S, n) = l
    BY <1>2
  <2>3. ~ n < m /\ n # m
    BY <1>1, <1>5, <2>1, <2>2, RankIncreases
  <2>4. m < n
    BY <2>3
  <2> QED
    BY <2>1, <2>2, <2>4
<1> QED
  BY <1>3, <1>4, <1>5

\* Positions of a sequence are finitely many numbers.
LEMMA PositionsFinite ==
  ASSUME NEW n \in Nat, NEW S \in SUBSET (1 .. n)
  PROVE  S \in SUBSET Int /\ IsFiniteSet(S)
<1>1. IsFiniteSet(1 .. n)
  BY FS_Interval
<1>2. IsFiniteSet(S)
  BY <1>1, FS_Subset
<1> QED
  BY <1>2

\* A finite set of numbers that is not empty has a least member.
LEMMA LeastMember ==
  ASSUME NEW S \in SUBSET Int, IsFiniteSet(S), S # {}
  PROVE  \E a \in S : \A i \in S : a <= i
<1>1. Cardinality(S) \in Nat /\ Cardinality(S) # 0
  BY FS_CardinalityType, FS_EmptySet
<1>2. PICK a \in S : a = InOrder(S)[1]
  <2>1. InOrder(S) \in Seq(S) /\ 1 \in DOMAIN InOrder(S)
    BY <1>1, InOrderSorts
  <2> QED
    BY <2>1, MembersTyped
<1>3. ASSUME NEW i \in S PROVE a <= i
  <2>1. PICK k \in 1 .. Cardinality(S) : InOrder(S)[k] = i
    BY InOrderSorts
  <2>2. k = 1 \/ 1 < k
    BY <1>1
  <2>3. a = i \/ a < i
    BY <1>1, <1>2, <2>1, <2>2, InOrderSorts
  <2> QED
    BY <2>3
<1> QED
  BY <1>3

\* An interval is in order as it is.
LEMMA IntervalInOrder ==
  ASSUME NEW a \in Int, NEW b \in Int, a <= b + 1
  PROVE  InOrder(a .. b) = [k \in 1 .. b - a + 1 |-> a + k - 1]
<1>1. IsFiniteSet(a .. b) /\ Cardinality(a .. b) = b - a + 1
  BY FS_Interval
<1>2. ASSUME NEW n \in a .. b PROVE Rank(a .. b, n) = n - a + 1
  <2>1. {m \in a .. b : m <= n} = a .. n
    OBVIOUS
  <2>2. Cardinality(a .. n) = n - a + 1
    BY FS_Interval
  <2> QED
    BY <2>1, <2>2 DEF Rank
<1>3. ASSUME NEW k \in 1 .. b - a + 1 PROVE InOrder(a .. b)[k] = a + k - 1
  <2>1. PICK n \in a .. b : n = InOrder(a .. b)[k] /\ Rank(a .. b, n) = k
    BY <1>1, EveryRankOccurs DEF InOrder
  <2>2. n - a + 1 = k
    BY <1>2, <2>1
  <2> QED
    BY <2>1, <2>2
<1> QED
  BY <1>1, <1>3 DEF InOrder

\* A set of numbers up to n that has, with a number, all the greater ones is an interval,
\* and so is the rest.
LEMMA UpperPartIsInterval ==
  ASSUME NEW n \in Nat, NEW S \in SUBSET (1 .. n),
         \A i, j \in 1 .. n : i < j /\ i \in S => j \in S
  PROVE  \E a \in 1 .. n + 1 : S = a .. n /\ (1 .. n) \ S = 1 .. a - 1
<1>1. CASE S = {}
  <2> WITNESS n + 1 \in 1 .. n + 1
  <2> QED
    BY <1>1
<1>2. CASE S # {}
  <2>1. S \in SUBSET Int /\ IsFiniteSet(S)
    BY PositionsFinite
  <2>2. PICK a \in S : \A i \in S : a <= i
    BY <1>2, <2>1, LeastMember
  <2>3. a \in 1 .. n + 1
    OBVIOUS
  <2>4. \A i \in 1 .. n : i \in S <=> a <= i
    BY <2>2
  <2>5. \A i \in Int : i \in S <=> i \in a .. n
    BY <2>4
  <2>6. \A i \in Int : i \in (1 .. n) \ S <=> i \in 1 .. a - 1
    BY <2>4
  <2>7. S = a .. n
    <3>1. S \subseteq a .. n
      BY <2>1, <2>5
    <3>2. a .. n \subseteq S
      BY <2>5
    <3> QED
      BY <3>1, <3>2
  <2> QED
    BY <2>3, <2>6, <2>7
<1> QED
  BY <1>1, <1>2
=============================================================================
