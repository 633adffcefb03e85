------------------------------ MODULE OrderLemmas ------------------------------
(***************************************************************************)
(* Facts about orders of finite sets and of numbers that the proofs share. *)
(* Each is proved by a least counterexample or by counting.                *)
(***************************************************************************)
EXTENDS Integers, FiniteSets, FiniteSetTheorems, WellFoundedInduction, TLAPS

-----------------------------------------------------------------------------
(* Finite sets have a greatest element. *)

\* le is a total order, or preorder, on S.
Orders(le, S) ==
  /\ \A x, y \in S : <<x, y>> \in le \/ <<y, x>> \in le
  /\ \A x, y, z \in S : <<x, y>> \in le /\ <<y, z>> \in le => <<x, z>> \in le

\* By a smallest counterexample: it has an element, and what remains of it has
\* a greatest one; the greater of the two is the greatest.
LEMMA FiniteHasGreatest ==
  ASSUME NEW S, IsFiniteSet(S), S # {}, NEW le, Orders(le, S)
  PROVE  \E m \in S : \A x \in S : <<x, m>> \in le
<1> DEFINE Great(T) == \E m \in T : \A x \in T : <<x, m>> \in le
           C == {T \in FiniteSubsetsOf(S) : T # {} /\ ~Great(T)}
<1>1. CASE C = {}
  <2>1. S \in FiniteSubsetsOf(S)
    BY DEF FiniteSubsetsOf
  <2> QED
    BY <1>1, <2>1
<1>2. CASE C # {}
  <2>1. IsWellFoundedOn(StrictSubsetOrdering(S), FiniteSubsetsOf(S))
    BY FS_StrictSubsetOrderingWellFounded
  <2>2. PICK T \in C : \A U \in C : ~(<<U, T>> \in StrictSubsetOrdering(S))
    <3>1. C \subseteq FiniteSubsetsOf(S)
      OBVIOUS
    <3> HIDE DEF C
    <3> QED
      BY <1>2, <2>1, <3>1, WFMin
  <2>3. T \subseteq S /\ IsFiniteSet(T) /\ T # {} /\ ~Great(T)
    BY <2>2 DEF FiniteSubsetsOf
  <2>4. PICK x \in T : TRUE
    BY <2>3
  <2> DEFINE U == T \ {x}
  <2>5. <<U, T>> \in StrictSubsetOrdering(S) /\ U \in FiniteSubsetsOf(S)
    <3>1. IsFiniteSet(U)
      BY <2>3, FS_Subset
    <3> QED
      BY <2>3, <2>4, <3>1 DEF StrictSubsetOrdering, FiniteSubsetsOf
  <2>6. U = {} \/ Great(U)
    BY <2>2, <2>5
  <2>7. <<x, x>> \in le
    BY <2>3, <2>4 DEF Orders
  <2>8. CASE U = {}
    BY <2>3, <2>4, <2>7, <2>8
  <2>9. CASE Great(U)
    <3>1. PICK m \in U : \A y \in U : <<y, m>> \in le
      BY <2>9
    <3>2. CASE <<x, m>> \in le
      BY <2>3, <3>1, <3>2
    <3>3. CASE <<m, x>> \in le
      <4>1. \A y \in T : <<y, x>> \in le
        BY <2>3, <2>4, <2>7, <3>1, <3>3 DEF Orders
      <4> QED
        BY <2>3, <2>4, <4>1
    <3>4. x \in S /\ m \in S
      BY <2>3, <2>4, <3>1
    <3>5. <<x, m>> \in le \/ <<m, x>> \in le
      BY <3>4 DEF Orders
    <3> QED
      BY <3>2, <3>3, <3>5
  <2> QED
    BY <2>6, <2>8, <2>9
<1> QED
  BY <1>1, <1>2

-----------------------------------------------------------------------------
(* Numbers. *)

\* Of natural numbers one is the least.
LEMMA NatHasLeast ==
  ASSUME NEW C \in SUBSET Nat, C # {}
  PROVE  \E c \in C : \A d \in C : ~(d < c)
<1>1. PICK c \in C : \A d \in C : <<d, c>> \notin OpToRel(<, Nat)
  BY WFMin, NatLessThanWellFounded, Zenon
<1>2. \A d \in C : ~(d < c)
  BY <1>1, Zenon DEF OpToRel
<1> QED
  BY <1>2, Zenon

\* Of natural numbers that a bound exceeds one is the greatest.
LEMMA BoundedHasGreatest ==
  ASSUME NEW N \in SUBSET Nat, N # {}, NEW b \in Nat, \A n \in N : n <= b
  PROVE  \E n \in N : \A k \in N : k <= n
<1> DEFINE C == {b - n : n \in N}
<1>1. C \in SUBSET Nat /\ C # {}
  <2>1. \A n \in N : b - n \in Nat
    OBVIOUS
  <2>2. \A c \in C : \E n \in N : c = b - n
    OBVIOUS
  <2>3. C # {}
    <3>1. PICK n \in N : TRUE
      OBVIOUS
    <3>2. b - n \in C
      OBVIOUS
    <3> QED
      BY <3>2
  <2> QED
    BY <2>1, <2>2, <2>3
<1> HIDE DEF C
<1>2. PICK c \in C : \A d \in C : ~(d < c)
  BY <1>1, NatHasLeast
<1>3. \A d \in C : c <= d
  BY <1>1, <1>2
<1>4. PICK n \in N : c = b - n
  BY DEF C
<1>5. \A k \in N : b - k \in C
  BY DEF C
<1>6. \A k \in N : b - n <= b - k
  BY <1>3, <1>4, <1>5
<1>7. \A k \in N : k <= n
  <2>1. ASSUME NEW k \in N PROVE k <= n
    <3>1. k \in Nat /\ n \in Nat /\ b - n <= b - k
      BY <1>6
    <3> QED
      BY <3>1
  <2> QED
    BY <2>1
<1> QED
  BY <1>7

-----------------------------------------------------------------------------
(* Ranks.  An order is given as a set of pairs. *)

\* lt is a strict total order of S.
StrictOrder(lt, S) ==
  /\ \A x \in S : <<x, x>> \notin lt
  /\ \A x, y \in S : x = y \/ <<x, y>> \in lt \/ <<y, x>> \in lt
  /\ \A x, y, z \in S : <<x, y>> \in lt /\ <<y, z>> \in lt => <<x, z>> \in lt

RankIn(lt, S, x) == Cardinality({y \in S : <<y, x>> \in lt})

\* An element has fewer before it than one that it is before.
LEMMA RankGrows ==
  ASSUME NEW S, IsFiniteSet(S), NEW lt, StrictOrder(lt, S), NEW x \in S, NEW y \in S,
         <<x, y>> \in lt
  PROVE  RankIn(lt, S, x) < RankIn(lt, S, y)
<1> DEFINE A == {z \in S : <<z, x>> \in lt}
           B == {z \in S : <<z, y>> \in lt}
<1>1. IsFiniteSet(B)
  BY FS_Subset
<1>2. A \subseteq B /\ x \in B /\ x \notin A
  BY DEF StrictOrder
<1>3. RankIn(lt, S, x) = Cardinality(A) /\ RankIn(lt, S, y) = Cardinality(B)
  BY DEF RankIn
<1> HIDE DEF A, B
<1>4. Cardinality(A) <= Cardinality(B) /\ Cardinality(A) # Cardinality(B) /\ IsFiniteSet(A)
  BY <1>1, <1>2, FS_Subset
<1>5. Cardinality(A) \in Nat /\ Cardinality(B) \in Nat
  BY <1>1, <1>4, FS_CardinalityType
<1> QED
  BY <1>3, <1>4, <1>5

\* Of n elements each has a rank of its own below n, and every one is taken.
LEMMA RanksAreTaken ==
  ASSUME NEW S, IsFiniteSet(S), NEW lt, StrictOrder(lt, S)
  PROVE  /\ Cardinality(S) \in Nat
         /\ \A x \in S : RankIn(lt, S, x) \in Nat /\ RankIn(lt, S, x) < Cardinality(S)
         /\ \A x, y \in S : RankIn(lt, S, x) = RankIn(lt, S, y) => x = y
         /\ \A k \in Nat : k < Cardinality(S) => \E x \in S : RankIn(lt, S, x) = k
<1> DEFINE n == Cardinality(S)
           f == [x \in S |-> RankIn(lt, S, x)]
<1>1. n \in Nat
  BY FS_CardinalityType
<1>2. ASSUME NEW x \in S PROVE RankIn(lt, S, x) \in Nat /\ RankIn(lt, S, x) < n
  <2> DEFINE A == {y \in S : <<y, x>> \in lt}
  <2>1. A \in SUBSET S /\ x \notin A
    BY DEF StrictOrder
  <2>2. RankIn(lt, S, x) = Cardinality(A)
    BY DEF RankIn
  <2> HIDE DEF A
  <2>3. IsFiniteSet(A) /\ Cardinality(A) <= n /\ Cardinality(A) # n
    BY <2>1, FS_Subset
  <2>4. Cardinality(A) \in Nat
    BY <2>3, FS_CardinalityType
  <2> QED
    BY <1>1, <2>2, <2>3, <2>4
<1>3. \A x, y \in S : RankIn(lt, S, x) = RankIn(lt, S, y) => x = y
  <2>1. ASSUME NEW x \in S, NEW y \in S, x # y
        PROVE  RankIn(lt, S, x) < RankIn(lt, S, y) \/ RankIn(lt, S, y) < RankIn(lt, S, x)
    <3>1. <<x, y>> \in lt \/ <<y, x>> \in lt
      BY <2>1 DEF StrictOrder
    <3> QED
      BY <3>1, RankGrows
  <2> QED
    BY <1>2, <2>1
<1> HIDE DEF n
<1>4. f \in Injection(S, 0..(n - 1))
  <2>1. \A x \in S : RankIn(lt, S, x) \in 0..(n - 1)
    BY <1>1, <1>2
  <2>2. f \in [S -> 0..(n - 1)] /\ \A x, y \in S : f[x] = f[y] => x = y
    BY <1>3, <2>1
  <2> QED
    BY <2>2 DEF Injection, IsInjective
<1> HIDE DEF f
<1>5. IsFiniteSet(0..(n - 1)) /\ Cardinality(0..(n - 1)) = n
  BY <1>1, FS_Interval
<1>6. f \in Surjection(S, 0..(n - 1))
  BY <1>4, <1>5, FS_Injection DEF n
<1>7. \A k \in 0..(n - 1) : \E x \in S : f[x] = k
  BY <1>6 DEF Surjection
<1>8. \A k \in Nat : k < n => \E x \in S : RankIn(lt, S, x) = k
  BY <1>1, <1>7 DEF f
<1> QED
  BY <1>1, <1>2, <1>3, <1>8 DEF n
=============================================================================
