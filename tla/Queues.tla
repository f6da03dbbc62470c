------------------------------- MODULE Queues -------------------------------
(***************************************************************************)
(* Sequences as the tables' SELECTs return them: a set of numbers in order, *)
(* and a sequence without some of its members.  The lemmas, proved by       *)
(* descent to a least counterexample, say what the operators return.        *)
(***************************************************************************)
EXTENDS Naturals, Sequences, FiniteSets,
        TLAPS, NaturalsInduction, WellFoundedInduction, FiniteSetTheorems, FunctionTheorems

\* A finite set of numbers, ascending.
Sorted(S) ==
    CHOOSE s \in [1..Cardinality(S) -> S] : \A i, j \in 1..Cardinality(S) : i < j => s[i] < s[j]

\* What remains of s, in its order, without the members of P.
Without(s, P) ==
    LET stay == Sorted({i \in 1..Len(s) : s[i] \notin P})
    IN  [k \in 1..Cardinality({i \in 1..Len(s) : s[i] \notin P}) |-> s[stay[k]]]

-----------------------------------------------------------------------------
\* The order of the numbers as the set of pairs well-foundedness is stated for.
Lower == {ss \in Nat \X Nat : ss[1] < ss[2]}

\* A set of numbers that has a member has a least one.
LEMMA LeastExists ==
    ASSUME NEW T \in SUBSET Nat, T # {}
    PROVE  \E n \in T : \A m \in T : n <= m
<1>1. IsWellFoundedOn(Lower, Nat)
  BY NatLessThanWellFounded, Zenon DEF OpToRel, Lower
<1>2. PICK n \in T : \A m \in T : ~(<<m, n>> \in Lower)
  BY <1>1, WFMin, Zenon
<1>3. ASSUME NEW m \in T PROVE n <= m
  <2>1. m \in Nat /\ n \in Nat /\ ~(<<m, n>> \in Lower)
    BY <1>2
  <2>2. m < n => <<m, n>> \in Lower
    BY <2>1 DEF Lower
  <2> QED
    BY <2>1, <2>2
<1> QED
  BY <1>3

Ascends(s, S) ==
    /\ s \in [1..Cardinality(S) -> S]
    /\ \A i, j \in 1..Cardinality(S) : i < j => s[i] < s[j]

\* Every finite set of numbers has an ascending enumeration.
LEMMA EnumerationExists ==
    ASSUME NEW S \in SUBSET Nat, IsFiniteSet(S)
    PROVE  \E s : Ascends(s, S)
<1> DEFINE Bad == {X \in SUBSET Nat : IsFiniteSet(X) /\ ~\E s : Ascends(s, X)}
           Sizes == {n \in Nat : \E X \in Bad : Cardinality(X) = n}
<1> SUFFICES ASSUME S \in Bad PROVE FALSE
  OBVIOUS
<1>1. \A X \in Bad : Cardinality(X) \in Nat
  BY FS_CardinalityType
<1>2. Sizes # {} /\ Sizes \subseteq Nat
  BY <1>1
<1>3. PICK n \in Sizes : \A m \in Sizes : n <= m
  <2> HIDE DEF Sizes
  <2> QED
    BY <1>2, LeastExists
<1>4. PICK X \in Bad : Cardinality(X) = n
  OBVIOUS
<1>5. X # {}
  <2>1. SUFFICES ASSUME X = {} PROVE FALSE
    OBVIOUS
  <2>2. Cardinality(X) = 0
    BY <2>1, FS_EmptySet
  <2>3. Ascends([i \in 1..0 |-> 0], X)
    BY <2>2 DEF Ascends
  <2> QED
    BY <1>4, <2>3
<1>6. PICK least \in X : \A m \in X : least <= m
  <2>1. X \in SUBSET Nat
    BY <1>4
  <2> QED
    BY <1>5, <2>1, LeastExists
<1> DEFINE Rest == X \ {least}
<1>7. IsFiniteSet(Rest) /\ Cardinality(Rest) = n - 1 /\ n \in Nat \ {0}
  <2>1. IsFiniteSet(X) /\ Cardinality(X) = n
    BY <1>4
  <2>2. Cardinality(X) # 0
    BY <1>5, <2>1, FS_EmptySet
  <2> QED
    BY <1>1, <1>4, <1>6, <2>1, <2>2, FS_RemoveElement
<1>8. Rest \notin Bad
  BY <1>1, <1>3, <1>7
<1>9. PICK t : Ascends(t, Rest)
  <2>1. Rest \in SUBSET Nat
    BY <1>4
  <2> QED
    BY <1>7, <1>8, <2>1
<1> DEFINE s == [i \in 1..n |-> IF i = 1 THEN least ELSE t[i - 1]]
<1>10. Ascends(s, X)
  <2>1. t \in [1..(n - 1) -> Rest] /\ \A i, j \in 1..(n - 1) : i < j => t[i] < t[j]
    BY <1>7, <1>9 DEF Ascends
  <2>2. ASSUME NEW i \in 1..n PROVE s[i] \in X
    <3>1. i # 1 => i - 1 \in 1..(n - 1)
      BY <1>7
    <3> QED
      BY <1>6, <2>1, <3>1
  <2>3. ASSUME NEW i \in 1..n, NEW j \in 1..n, i < j PROVE s[i] < s[j]
    <3>1. X \subseteq Nat
      BY <1>4
    <3>2. j - 1 \in 1..(n - 1) /\ s[j] = t[j - 1]
      BY <1>7, <2>3
    <3>3. CASE i = 1
      <4>1. t[j - 1] \in X /\ t[j - 1] # least
        BY <2>1, <3>2
      <4>2. least \in Nat /\ t[j - 1] \in Nat /\ least <= t[j - 1]
        BY <1>6, <3>1, <4>1
      <4>3. s[i] = least
        BY <3>3
      <4> HIDE DEF s
      <4> QED
        BY <3>2, <4>1, <4>2, <4>3
    <3>4. CASE i # 1
      <4>1. i - 1 \in 1..(n - 1) /\ s[i] = t[i - 1] /\ i - 1 < j - 1
        BY <1>7, <2>3, <3>4
      <4> QED
        BY <2>1, <3>2, <4>1
    <3> QED
      BY <3>3, <3>4
  <2> QED
    BY <1>4, <2>2, <2>3 DEF Ascends
<1> QED
  BY <1>4, <1>10

\* Sorted returns the members of a finite set of numbers, each once, ascending.
LEMMA SortedProperties ==
    ASSUME NEW S \in SUBSET Nat, IsFiniteSet(S)
    PROVE  /\ Sorted(S) \in [1..Cardinality(S) -> S]
           /\ \A i, j \in 1..Cardinality(S) : i < j => Sorted(S)[i] < Sorted(S)[j]
           /\ \A i, j \in 1..Cardinality(S) : Sorted(S)[i] = Sorted(S)[j] => i = j
           /\ \A x \in S : \E i \in 1..Cardinality(S) : Sorted(S)[i] = x
<1>1. \E s \in [1..Cardinality(S) -> S] : \A i, j \in 1..Cardinality(S) : i < j => s[i] < s[j]
  BY EnumerationExists DEF Ascends
<1>2. /\ Sorted(S) \in [1..Cardinality(S) -> S]
      /\ \A i, j \in 1..Cardinality(S) : i < j => Sorted(S)[i] < Sorted(S)[j]
  BY <1>1 DEF Sorted
<1>3. Cardinality(S) \in Nat
  BY FS_CardinalityType
<1>4. ASSUME NEW i \in 1..Cardinality(S), NEW j \in 1..Cardinality(S), Sorted(S)[i] = Sorted(S)[j]
      PROVE  i = j
  <2>1. Sorted(S)[i] \in Nat /\ Sorted(S)[j] \in Nat
    BY <1>2
  <2>2. ~(i < j) /\ ~(j < i)
    BY <1>2, <1>4, <2>1
  <2> QED
    BY <1>3, <2>2
<1>5. \A x \in S : \E i \in 1..Cardinality(S) : Sorted(S)[i] = x
  <2>1. Sorted(S) \in Injection(1..Cardinality(S), S)
    BY <1>2, <1>4 DEF Injection, IsInjective
  <2>2. IsFiniteSet(1..Cardinality(S)) /\ Cardinality(1..Cardinality(S)) = Cardinality(S)
    BY <1>3, FS_Interval
  <2>3. Sorted(S) \in Surjection(1..Cardinality(S), S)
    BY <2>1, <2>2, FS_Injection
  <2> QED
    BY <2>3 DEF Surjection
<1> QED
  BY <1>2, <1>4, <1>5

\* at says where in s each member of t comes from, when t is s without the members in P.
KeptAt(at, t, s, P) ==
    /\ at \in [1..Len(t) -> 1..Len(s)]
    /\ \A i \in 1..Len(t) : t[i] = s[at[i]] /\ s[at[i]] \notin P
    /\ \A i, j \in 1..Len(t) : i < j => at[i] < at[j]
    /\ \A k \in 1..Len(s) : s[k] \notin P => \E i \in 1..Len(t) : at[i] = k

\* Without keeps exactly the members it is not told to leave out, in their order.
LEMMA WithoutProperties ==
    ASSUME NEW S, NEW s \in Seq(S), NEW P
    PROVE  Without(s, P) \in Seq(S) /\ \E at : KeptAt(at, Without(s, P), s, P)
<1> DEFINE K == {i \in 1..Len(s) : s[i] \notin P}
           n == Cardinality(K)
<1>1. IsFiniteSet(K) /\ K \in SUBSET Nat /\ K \subseteq 1..Len(s) /\ n \in Nat
  <2>1. IsFiniteSet(1..Len(s))
    BY FS_Interval
  <2> QED
    BY <2>1, FS_Subset, FS_CardinalityType
<1> DEFINE at == Sorted(K)
<1>2. /\ at \in [1..n -> K]
      /\ \A i, j \in 1..n : i < j => at[i] < at[j]
      /\ \A x \in K : \E i \in 1..n : at[i] = x
  <2> HIDE DEF K
  <2> QED
    BY <1>1, SortedProperties
<1>3. Without(s, P) = [k \in 1..n |-> s[at[k]]]
  BY DEF Without
<1>4. \A k \in 1..n : s[at[k]] \in S /\ s[at[k]] \notin P /\ at[k] \in 1..Len(s)
  BY <1>2
<1>5. Without(s, P) \in Seq(S) /\ Len(Without(s, P)) = n
  <2> HIDE DEF n, at, K
  <2> QED
    BY <1>1, <1>3, <1>4
<1>6. at \in [1..n -> 1..Len(s)]
  BY <1>2, <1>4
<1>7. /\ \A i \in 1..n : Without(s, P)[i] = s[at[i]] /\ s[at[i]] \notin P
      /\ \A k \in 1..Len(s) : s[k] \notin P => \E i \in 1..n : at[i] = k
  BY <1>2, <1>3, <1>4
<1> HIDE DEF at, n
<1>8. KeptAt(at, Without(s, P), s, P)
  BY <1>2, <1>5, <1>6, <1>7 DEF KeptAt
<1> QED
  BY <1>5, <1>8
=============================================================================
