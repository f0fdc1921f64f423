---------------------------- MODULE FiniteFacts ----------------------------
(***************************************************************************)
(* Facts about natural numbers and finite sets that the proofs share.      *)
(* Induction is over a set of numbers, or of subsets, that is a parameter: *)
(* "P holds of n" is stated as n \in {m \in Nat : P holds of m}.           *)
(***************************************************************************)
EXTENDS Integers, FiniteSets, Functions, FiniteSetTheorems, WellFoundedInduction, TLAPS

(* A set of numbers that is not empty has a least one.                     *)
LEMMA LeastNumber ==
  ASSUME NEW N \in SUBSET Nat, N # {}
  PROVE  \E n \in N : \A m \in N : n <= m
  <1> DEFINE R == OpToRel(<, Nat)
  <1>1. IsWellFoundedOn(R, Nat)
    BY NatLessThanWellFounded
  <1>2. \A x, y \in Nat : <<x, y>> \in R <=> x < y
    BY DEF OpToRel
  <1> HIDE DEF R
  <1>3. PICK n \in N : \A m \in N : ~(<<m, n>> \in R)
    BY <1>1, WFMin
  <1>4. \A m \in N : ~(m < n)
    BY <1>2, <1>3
  <1>5. \A m \in N : n <= m
    BY <1>4
  <1> QED
    BY <1>5

(* Induction over the numbers.                                             *)
LEMMA NumberInduction ==
  ASSUME NEW N \in SUBSET Nat, 0 \in N, \A n \in N : n + 1 \in N
  PROVE  N = Nat
  <1> SUFFICES ASSUME Nat \ N # {} PROVE FALSE
    OBVIOUS
  <1>1. PICK n \in Nat \ N : \A m \in Nat \ N : n <= m
    BY LeastNumber
  <1>2. n - 1 \in Nat
    BY <1>1
  <1>3. n - 1 \in N
    BY <1>1, <1>2
  <1> QED
    BY <1>1, <1>3

(* Induction over the subsets of a finite set, by size: what holds of a    *)
(* set when it holds of every smaller one holds of all.                    *)
LEMMA SizeInduction ==
  ASSUME NEW S, IsFiniteSet(S), NEW P \in SUBSET (SUBSET S),
         \A T \in SUBSET S :
           (\A U \in SUBSET S : Cardinality(U) < Cardinality(T) => U \in P) => T \in P
  PROVE  P = SUBSET S
  <1> DEFINE N == {n \in Nat : \A T \in SUBSET S : Cardinality(T) < n => T \in P}
  <1>1. \A T \in SUBSET S : Cardinality(T) \in Nat
    BY FS_Subset, FS_CardinalityType
  <1>2. 0 \in N
    BY <1>1
  <1>3. ASSUME NEW n \in N PROVE n + 1 \in N
    <2> SUFFICES ASSUME NEW T \in SUBSET S, Cardinality(T) < n + 1 PROVE T \in P
      OBVIOUS
    <2>1. \A U \in SUBSET S : Cardinality(U) < Cardinality(T) => U \in P
      BY <1>1
    <2> QED
      BY <2>1
  <1>4. N = Nat
    <2> HIDE DEF N
    <2>1. N \in SUBSET Nat
      BY DEF N
    <2> QED
      BY <1>2, <1>3, <2>1, NumberInduction
  <1>5. \A T \in SUBSET S : Cardinality(T) + 1 \in N
    BY <1>1, <1>4
  <1> QED
    BY <1>1, <1>5

(* Taking an element away makes a finite set smaller.                      *)
LEMMA SmallerWithout ==
  ASSUME NEW S, IsFiniteSet(S), NEW T \in SUBSET S, NEW x \in T
  PROVE  /\ T \ {x} \in SUBSET S
         /\ Cardinality(T \ {x}) < Cardinality(T)
  <1>1. IsFiniteSet(T) /\ Cardinality(T) \in Nat
    BY FS_Subset, FS_CardinalityType
  <1>2. Cardinality(T \ {x}) = Cardinality(T) - 1
    BY <1>1, FS_RemoveElement
  <1> QED
    BY <1>1, <1>2
-----------------------------------------------------------------------------
(* Sums of a function over a finite set.                                   *)
Some(s) == CHOOSE x \in s : TRUE

(* SumFunctionOnSet's recursion: the sums over each of the subsets of S.   *)
IsSum(sum, f, S) ==
  sum = [s \in SUBSET S |->
           IF s = {} THEN 0 ELSE f[Some(s)] + sum[s \ {Some(s)}]]

(* The recursion has a solution: it is built up by size.                   *)
LEMMA SumExists ==
  ASSUME NEW S, IsFiniteSet(S), NEW f
  PROVE  \E sum : IsSum(sum, f, S)
  <1> DEFINE Upto(n) == {s \in SUBSET S : Cardinality(s) <= n}
             Sums(sum, D) ==
               sum = [s \in D |-> IF s = {} THEN 0 ELSE f[Some(s)] + sum[s \ {Some(s)}]]
             N == {n \in Nat : \E sum : Sums(sum, Upto(n))}
  <1>1. \A s \in SUBSET S : Cardinality(s) \in Nat /\ (Cardinality(s) = 0 <=> s = {})
    BY FS_Subset, FS_CardinalityType, FS_EmptySet
  <1>2. \A s \in SUBSET S : s # {} =>
          s \ {Some(s)} \in SUBSET S /\ Cardinality(s \ {Some(s)}) < Cardinality(s)
    BY SmallerWithout DEF Some
  <1>3. 0 \in N
    <2>1. Sums([s \in Upto(0) |-> 0], Upto(0))
      BY <1>1
    <2> QED
      BY <2>1
  <1>4. ASSUME NEW n \in N PROVE n + 1 \in N
    <2>1. PICK sum : Sums(sum, Upto(n))
      OBVIOUS
    <2> DEFINE more == [s \in Upto(n + 1) |->
                          IF s = {} THEN 0 ELSE f[Some(s)] + sum[s \ {Some(s)}]]
    <2>2. \A s \in Upto(n) : more[s] = sum[s]
      <3> TAKE s \in Upto(n)
      <3>1. s \in Upto(n + 1)
        BY <1>1
      <3>2. sum[s] = IF s = {} THEN 0 ELSE f[Some(s)] + sum[s \ {Some(s)}]
        BY <2>1
      <3> QED
        BY <3>1, <3>2
    <2>3. \A s \in Upto(n + 1) : s # {} => s \ {Some(s)} \in Upto(n)
      BY <1>1, <1>2
    <2>4. \A s \in Upto(n + 1) : s # {} => more[s \ {Some(s)}] = sum[s \ {Some(s)}]
      BY <2>2, <2>3
    <2>5. Sums(more, Upto(n + 1))
      BY <2>4
    <2> HIDE DEF Sums, Upto, more
    <2> QED
      BY <2>5
  <1>5. Cardinality(S) \in N
    <2>1. N \in SUBSET Nat
      OBVIOUS
    <2>2. N = Nat
      <3> HIDE DEF N
      <3> QED
        BY <1>3, <1>4, <2>1, NumberInduction
    <2> HIDE DEF N
    <2> QED
      BY <1>1, <2>2
  <1>6. Upto(Cardinality(S)) = SUBSET S
    BY <1>1, FS_Subset
  <1> QED
    BY <1>5, <1>6 DEF IsSum

(* What SumFunctionOnSet computes satisfies the recursion.                 *)
LEMMA SumIsSum ==
  ASSUME NEW S, IsFiniteSet(S), NEW f
  PROVE  \E sum : IsSum(sum, f, S) /\ SumFunctionOnSet(f, S) = sum[S]
  <1>1. IsSum(CHOOSE sum : IsSum(sum, f, S), f, S)
    BY SumExists
  <1>2. SumFunctionOnSet(f, S) = (CHOOSE sum : IsSum(sum, f, S))[S]
    BY DEF SumFunctionOnSet, FoldFunctionOnSet, MapThenFoldSet, IsSum, Some
  <1> QED
    BY <1>1, <1>2

(* Sums of natural numbers are natural numbers, of each subset.            *)
LEMMA PartialSumsAreNatural ==
  ASSUME NEW S, IsFiniteSet(S), NEW f \in [S -> Nat], NEW sum, IsSum(sum, f, S)
  PROVE  \A T \in SUBSET S : sum[T] \in Nat
  <1> DEFINE P == {T \in SUBSET S : sum[T] \in Nat}
  <1>1. ASSUME NEW T \in SUBSET S, \A U \in SUBSET S : Cardinality(U) < Cardinality(T) => U \in P
        PROVE  T \in P
    <2>1. CASE T = {}
      BY <2>1 DEF IsSum
    <2>2. CASE T # {}
      <3>1. Some(T) \in T
        BY <2>2 DEF Some
      <3>2. T \ {Some(T)} \in P
        BY <1>1, <3>1, SmallerWithout
      <3>3. sum[T] = f[Some(T)] + sum[T \ {Some(T)}]
        BY <2>2 DEF IsSum
      <3> QED
        BY <3>1, <3>2, <3>3
    <2> QED
      BY <2>1, <2>2
  <1>2. P = SUBSET S
    <2>1. P \in SUBSET (SUBSET S)
      OBVIOUS
    <2> HIDE DEF P
    <2> QED
      BY <1>1, <2>1, SizeInduction
  <1> QED
    BY <1>2

LEMMA SumIsNatural ==
  ASSUME NEW S, IsFiniteSet(S), NEW f \in [S -> Nat]
  PROVE  SumFunctionOnSet(f, S) \in Nat
  BY SumIsSum, PartialSumsAreNatural

(* A bound on every term, in proportion, is a bound on the sum.            *)
LEMMA SumIsBounded ==
  ASSUME NEW S, IsFiniteSet(S), NEW f \in [S -> Nat], NEW h \in [S -> Nat], NEW k \in Nat,
         \A x \in S : f[x] <= k * h[x]
  PROVE  SumFunctionOnSet(f, S) <= k * SumFunctionOnSet(h, S)
  <1>1. PICK sum : IsSum(sum, f, S) /\ SumFunctionOnSet(f, S) = sum[S]
    BY SumIsSum
  <1>2. PICK whole : IsSum(whole, h, S) /\ SumFunctionOnSet(h, S) = whole[S]
    BY SumIsSum
  <1>3. \A T \in SUBSET S : sum[T] \in Nat /\ whole[T] \in Nat
    BY <1>1, <1>2, PartialSumsAreNatural
  <1> DEFINE P == {T \in SUBSET S : sum[T] <= k * whole[T]}
  <1>4. ASSUME NEW T \in SUBSET S, \A U \in SUBSET S : Cardinality(U) < Cardinality(T) => U \in P
        PROVE  T \in P
    <2>1. CASE T = {}
      <3>1. sum[T] = 0 /\ whole[T] = 0
        BY <1>1, <1>2, <2>1 DEF IsSum
      <3> QED
        BY <3>1
    <2>2. CASE T # {}
      <3> DEFINE x == Some(T)
                 U == T \ {x}
      <3>1. x \in T
        BY <2>2 DEF Some
      <3>2. U \in P /\ U \in SUBSET S
        BY <1>4, <3>1, SmallerWithout
      <3>3. sum[T] = f[x] + sum[U] /\ whole[T] = h[x] + whole[U]
        BY <1>1, <1>2, <2>2 DEF IsSum
      <3>4. /\ f[x] \in Nat /\ h[x] \in Nat /\ sum[U] \in Nat /\ whole[U] \in Nat
            /\ f[x] <= k * h[x] /\ sum[U] <= k * whole[U]
        BY <1>3, <3>1, <3>2
      <3> HIDE DEF x, U
      <3>5. f[x] + sum[U] <= k * (h[x] + whole[U])
        BY <3>4
      <3> QED
        BY <3>3, <3>5
    <2> QED
      BY <2>1, <2>2
  <1>5. P = SUBSET S
    <2>1. P \in SUBSET (SUBSET S)
      OBVIOUS
    <2> HIDE DEF P
    <2> QED
      BY <1>4, <2>1, SizeInduction
  <1>6. S \in P
    <2> HIDE DEF P
    <2> QED
      BY <1>5
  <1> QED
    BY <1>1, <1>2, <1>6

(* A sum of positive terms, if there are any, is positive.                 *)
LEMMA SumIsPositive ==
  ASSUME NEW S, IsFiniteSet(S), S # {}, NEW f \in [S -> Nat \ {0}]
  PROVE  SumFunctionOnSet(f, S) \in Nat \ {0}
  <1>1. PICK sum : IsSum(sum, f, S) /\ SumFunctionOnSet(f, S) = sum[S]
    BY SumIsSum
  <1>2. Some(S) \in S
    BY DEF Some
  <1>3. sum[S] = f[Some(S)] + sum[S \ {Some(S)}]
    BY <1>1 DEF IsSum
  <1>4. sum[S \ {Some(S)}] \in Nat
    BY <1>1, PartialSumsAreNatural
  <1> QED
    BY <1>1, <1>2, <1>3, <1>4
-----------------------------------------------------------------------------
(* Strict total orders of a set, as sets of pairs.                         *)
Orders(R, S) ==
  /\ \A x \in S : <<x, x>> \notin R
  /\ \A x, y \in S : x = y \/ <<x, y>> \in R \/ <<y, x>> \in R
  /\ \A x, y, z \in S : <<x, y>> \in R /\ <<y, z>> \in R => <<x, z>> \in R

(* A finite set that is not empty has a first element.                     *)
LEMMA HasFirst ==
  ASSUME NEW S, IsFiniteSet(S), NEW R, Orders(R, S), S # {}
  PROVE  \E x \in S : \A y \in S : y = x \/ <<x, y>> \in R
  <1> DEFINE IsFirst(x, T) == x \in T /\ \A y \in T : y = x \/ <<x, y>> \in R
             P == {T \in SUBSET S : T = {} \/ \E x \in S : IsFirst(x, T)}
  <1>1. ASSUME NEW T \in SUBSET S, \A U \in SUBSET S : Cardinality(U) < Cardinality(T) => U \in P
        PROVE  T \in P
    <2> SUFFICES ASSUME T # {} PROVE \E x \in S : IsFirst(x, T)
      OBVIOUS
    <2>1. PICK x \in T : TRUE
      OBVIOUS
    <2>2. T \ {x} \in P
      BY <1>1, SmallerWithout
    <2>3. CASE T \ {x} = {}
      BY <2>3
    <2>4. CASE T \ {x} # {}
      <3>1. PICK y \in S : IsFirst(y, T \ {x})
        BY <2>2, <2>4
      <3>2. CASE <<x, y>> \in R
        BY <3>1, <3>2 DEF Orders
      <3>3. CASE <<y, x>> \in R
        BY <3>1, <3>3
      <3> QED
        BY <3>1, <3>2, <3>3 DEF Orders
    <2> QED
      BY <2>3, <2>4
  <1>2. P = SUBSET S
    <2>1. P \in SUBSET (SUBSET S)
      OBVIOUS
    <2> HIDE DEF P
    <2> QED
      BY <1>1, <2>1, SizeInduction
  <1> QED
    BY <1>2

(* The lists of all elements of a set in which each comes once, in order.  *)
Sortings(S, R) ==
  {s \in [1..Cardinality(S) -> S] :
     /\ \A i, j \in 1..Cardinality(S) : i # j => s[i] # s[j]
     /\ \A i, j \in 1..Cardinality(S) : i < j => <<s[i], s[j]>> \in R}

(* The elements of a finite set can be listed in order.                    *)
LEMMA CanBeSorted ==
  ASSUME NEW S, IsFiniteSet(S), NEW R, Orders(R, S)
  PROVE  Sortings(S, R) # {}
  <1> DEFINE P == {T \in SUBSET S : Sortings(T, R) # {}}
  <1>1. ASSUME NEW T \in SUBSET S, \A U \in SUBSET S : Cardinality(U) < Cardinality(T) => U \in P
        PROVE  T \in P
    <2>0. IsFiniteSet(T) /\ Cardinality(T) \in Nat
      BY FS_Subset, FS_CardinalityType
    <2>1. CASE T = {}
      <3>1. Cardinality(T) = 0
        BY <2>1, FS_EmptySet
      <3>2. [i \in 1..0 |-> i] \in Sortings(T, R)
        BY <3>1 DEF Sortings
      <3> QED
        BY <3>2
    <2>2. CASE T # {}
      <3>1. Orders(R, T)
        BY DEF Orders
      <3>2. PICK x \in T : \A y \in T : y = x \/ <<x, y>> \in R
        BY <2>0, <2>2, <3>1, HasFirst
      <3> DEFINE U == T \ {x}
      <3>3. U \in P
        BY <1>1, SmallerWithout
      <3>4. PICK s \in Sortings(U, R) : TRUE
        BY <3>3
      <3> DEFINE n == Cardinality(U)
                 t == [i \in 1..(n + 1) |-> IF i = 1 THEN x ELSE s[i - 1]]
      <3>5. n \in Nat /\ Cardinality(T) = n + 1
        <4>1. n = Cardinality(T) - 1
          BY <2>0, FS_RemoveElement
        <4>2. n \in Nat
          BY <2>0, FS_RemoveElement, FS_CardinalityType
        <4> QED
          BY <2>0, <4>1, <4>2
      <3>6. s \in [1..n -> U] /\ \A i, j \in 1..n : i # j => s[i] # s[j]
        BY <3>4 DEF Sortings
      <3>7. \A i, j \in 1..n : i < j => <<s[i], s[j]>> \in R
        BY <3>4 DEF Sortings
      <3> HIDE DEF n, U
      <3>8. \A i \in 1..(n + 1) : i = 1 \/ i - 1 \in 1..n
        BY <3>5
      <3>9. x \notin U /\ U \subseteq T /\ \A y \in U : <<x, y>> \in R
        BY <3>2 DEF U
      <3>10. t \in [1..(n + 1) -> T]
        BY <3>6, <3>8, <3>9
      <3>11. \A i, j \in 1..(n + 1) : i # j => t[i] # t[j]
        <4> TAKE i, j \in 1..(n + 1)
        <4>1. CASE i = 1 \/ j = 1
          BY <3>6, <3>8, <3>9, <4>1
        <4>2. CASE i # 1 /\ j # 1
          BY <3>5, <3>6, <3>8, <4>2
        <4> QED
          BY <4>1, <4>2
      <3>12. \A i, j \in 1..(n + 1) : i < j => <<t[i], t[j]>> \in R
        <4> TAKE i, j \in 1..(n + 1)
        <4>1. CASE i = 1
          BY <3>5, <3>6, <3>8, <3>9, <4>1
        <4>2. CASE i # 1
          BY <3>5, <3>7, <3>8, <4>2
        <4> QED
          BY <4>1, <4>2
      <3>13. t \in Sortings(T, R)
        BY <3>5, <3>10, <3>11, <3>12 DEF Sortings
      <3> QED
        BY <3>13
    <2> QED
      BY <2>1, <2>2
  <1>2. P = SUBSET S
    <2>1. P \in SUBSET (SUBSET S)
      OBVIOUS
    <2> HIDE DEF P
    <2> QED
      BY <1>1, <2>1, SizeInduction
  <1>3. S \in P
    <2> HIDE DEF P
    <2> QED
      BY <1>2
  <1> QED
    BY <1>3
=============================================================================
