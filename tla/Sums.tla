---------------------------------- MODULE Sums ----------------------------------
(***************************************************************************)
(* Facts about the sum of a function over a finite set, the operator the   *)
(* models add amounts up with (transaction.totalAmount and the reduce      *)
(* calls of the client).  Functions defines it by a recursive function     *)
(* that takes the elements in an order of its own.  Here it is shown that  *)
(* the order does not matter, that a sum depends only on the values summed *)
(* and what happens to it when elements come, go or are put together; and, *)
(* as the summands are often coins in a sequence, where the members of two *)
(* sequences are in their concatenation.                                   *)
(*                                                                         *)
(* What holds of all finite sets is proved by a minimal counterexample:    *)
(* the numbers for which it fails have a least one, as < is well founded   *)
(* on the natural numbers.                                                 *)
(***************************************************************************)
EXTENDS Integers, Sequences, FiniteSets, Functions, FiniteSetTheorems,
        WellFoundedInduction, TLAPS

---------------------------------------------------------------------------
(* The places of two sequences in their concatenation *)

(* The first sequence keeps its places, the second follows it.             *)
LEMMA ConcatFacts ==
    ASSUME NEW S, NEW s \in Seq(S), NEW t \in Seq(S)
    PROVE  /\ s \o t \in Seq(S)
           /\ Len(s \o t) = Len(s) + Len(t)
           /\ \A i \in 1..Len(s) : (s \o t)[i] = s[i]
           /\ \A i \in 1..Len(t) : (s \o t)[i + Len(s)] = t[i]
  OBVIOUS

---------------------------------------------------------------------------
(* Induction, for sets *)

(* A set of numbers that is not empty has a least one. *)
LEMMA LeastNumber ==
    ASSUME NEW T \in SUBSET Nat, T # {}
    PROVE  \E m \in T : \A n \in T : ~(n < m)
<1>1. \E m \in T : \A n \in T : ~(<<n, m>> \in OpToRel(<, Nat))
  BY NatLessThanWellFounded, WFMin, Zenon
<1>2. \A m, n \in T : n < m => <<n, m>> \in OpToRel(<, Nat)
  BY Zenon DEF OpToRel
<1>3. QED
  BY <1>1, <1>2, Zenon

(* A set of numbers that has 0 and the successor of each of its members    *)
(* has all natural numbers.                                                *)
LEMMA NatSetInduction ==
    ASSUME NEW S, 0 \in S, \A n \in Nat : n \in S => n + 1 \in S
    PROVE  Nat \subseteq S
<1> SUFFICES ASSUME ~(Nat \subseteq S) PROVE FALSE
  OBVIOUS
<1>1. PICK m \in Nat \ S : \A n \in Nat \ S : ~(n < m)
  BY LeastNumber
<1>2. m - 1 \in Nat /\ m - 1 < m /\ m - 1 + 1 = m
  BY <1>1
<1>3. QED
  BY <1>1, <1>2

(* A family of sets that has every set of which it has all that are one    *)
(* element smaller has every finite set.                                   *)
LEMMA SetInduction ==
    ASSUME NEW S, IsFiniteSet(S), NEW F,
           \A T \in SUBSET S : (\A x \in T : T \ {x} \in F) => T \in F
    PROVE  S \in F
<1> DEFINE K == {n \in Nat : \A T \in SUBSET S : Cardinality(T) = n => T \in F}
<1>1. \A T \in SUBSET S : IsFiniteSet(T) /\ Cardinality(T) \in Nat
  BY FS_Subset, FS_CardinalityType
<1>2. 0 \in K
  <2>1. \A T \in SUBSET S : Cardinality(T) = 0 => T = {}
    BY <1>1, FS_EmptySet
  <2>2. QED
    BY <2>1
<1>3. ASSUME NEW n \in Nat, n \in K PROVE n + 1 \in K
  <2> SUFFICES ASSUME NEW T \in SUBSET S, Cardinality(T) = n + 1 PROVE T \in F
    OBVIOUS
  <2>1. ASSUME NEW x \in T PROVE T \ {x} \in F
    <3>1. Cardinality(T \ {x}) = n
      BY <1>1, FS_RemoveElement
    <3>2. QED
      BY <1>3, <3>1
  <2>2. QED
    BY <2>1
<1> HIDE DEF K
<1>4. Cardinality(S) \in K
  BY <1>1, <1>2, <1>3, NatSetInduction
<1>5. QED
  BY <1>4 DEF K

---------------------------------------------------------------------------
(* The recursive function *)

(* The element that is added next. *)
AnyOf(s) == CHOOSE x \in s : TRUE

IsSumOf(f, D, g) ==
    g = [s \in D |-> IF s = {} THEN 0 ELSE f[AnyOf(s)] + g[s \ {AnyOf(s)}]]

SumsUp(f, S, g) == IsSumOf(f, SUBSET S, g)

LEMMA AnyIn == ASSUME NEW s, s # {} PROVE AnyOf(s) \in s
  BY DEF AnyOf

LEMMA SumUnfold ==
    ASSUME NEW f, NEW S
    PROVE  SumFunctionOnSet(f, S) = (CHOOSE g : SumsUp(f, S, g))[S]
  BY DEF SumFunctionOnSet, FoldFunctionOnSet, MapThenFoldSet, AnyOf, IsSumOf, SumsUp

(* There is such a function, *)
LEMMA SumOfExists ==
    ASSUME NEW f, NEW S, IsFiniteSet(S)
    PROVE  \E g : SumsUp(f, S, g)
<1> DEFINE D(n) == {s \in SUBSET S : Cardinality(s) <= n}
           K == {n \in Nat : \E g : IsSumOf(f, D(n), g)}
<1>1. \A T \in SUBSET S : IsFiniteSet(T) /\ Cardinality(T) \in Nat
  BY FS_Subset, FS_CardinalityType
<1>2. 0 \in K
  <2>1. \A s \in D(0) : s = {}
    BY <1>1, FS_EmptySet
  <2> HIDE DEF D
  <2>2. IsSumOf(f, D(0), [s \in D(0) |-> 0])
    BY <2>1 DEF IsSumOf
  <2>3. QED
    BY <2>2
<1>3. ASSUME NEW n \in Nat, n \in K PROVE n + 1 \in K
  <2>1. PICK g : IsSumOf(f, D(n), g)
    BY <1>3
  <2> DEFINE h == [s \in D(n + 1) |-> IF s = {} THEN 0 ELSE f[AnyOf(s)] + g[s \ {AnyOf(s)}]]
  <2>2. \A s \in D(n) : s \in D(n + 1) /\ h[s] = g[s]
    <3>1. \A s \in D(n) : s \in D(n + 1)
      BY <1>1
    <3> HIDE DEF D
    <3>2. QED
      BY <2>1, <3>1 DEF IsSumOf
  <2>3. ASSUME NEW s \in D(n + 1), s # {} PROVE s \ {AnyOf(s)} \in D(n)
    <3>1. Cardinality(s \ {AnyOf(s)}) = Cardinality(s) - 1
      BY <1>1, <2>3, AnyIn, FS_RemoveElement
    <3>2. QED
      BY <1>1, <3>1
  <2>4. IsSumOf(f, D(n + 1), h)
    <3> HIDE DEF D
    <3>1. \A s \in D(n + 1) : s # {} => g[s \ {AnyOf(s)}] = h[s \ {AnyOf(s)}]
      BY <2>2, <2>3
    <3>2. h = [s \in D(n + 1) |-> IF s = {} THEN 0 ELSE f[AnyOf(s)] + h[s \ {AnyOf(s)}]]
      BY <3>1
    <3>3. QED
      BY <3>2 DEF IsSumOf
  <2> HIDE DEF h, D
  <2>5. QED
    BY <2>4
<1>4. Cardinality(S) \in K
  <2> HIDE DEF K
  <2>1. QED
    BY <1>1, <1>2, <1>3, NatSetInduction
<1>5. D(Cardinality(S)) = SUBSET S
  BY <1>1, FS_Subset
<1> HIDE DEF D
<1>6. QED
  BY <1>4, <1>5 DEF SumsUp

(* and on the sets it is about it is the only one. *)
LEMMA SumOfUnique ==
    ASSUME NEW f, NEW S, IsFiniteSet(S), NEW g, SumsUp(f, S, g)
    PROVE  \A T \in SUBSET S : \A h : SumsUp(f, T, h) => g[T] = h[T]
<1> SUFFICES ASSUME NEW T \in SUBSET S, NEW h, SumsUp(f, T, h) PROVE g[T] = h[T]
  OBVIOUS
<1> DEFINE F == {s \in SUBSET T : g[s] = h[s]}
<1>1. ASSUME NEW s \in SUBSET T, \A x \in s : s \ {x} \in F PROVE s \in F
  <2>1. g[s] = IF s = {} THEN 0 ELSE f[AnyOf(s)] + g[s \ {AnyOf(s)}]
    BY DEF IsSumOf, SumsUp
  <2>2. h[s] = IF s = {} THEN 0 ELSE f[AnyOf(s)] + h[s \ {AnyOf(s)}]
    BY DEF IsSumOf, SumsUp
  <2>3. s # {} => g[s \ {AnyOf(s)}] = h[s \ {AnyOf(s)}]
    BY <1>1, AnyIn
  <2>4. QED
    BY <2>1, <2>2, <2>3
<1>2. IsFiniteSet(T)
  BY FS_Subset
<1> HIDE DEF F
<1>3. T \in F
  BY <1>1, <1>2, SetInduction
<1>4. QED
  BY <1>3 DEF F

---------------------------------------------------------------------------
(* Sums *)

LEMMA SumStep ==
    ASSUME NEW f, NEW S, IsFiniteSet(S)
    PROVE  SumFunctionOnSet(f, S) =
              IF S = {} THEN 0 ELSE f[AnyOf(S)] + SumFunctionOnSet(f, S \ {AnyOf(S)})
<1> DEFINE R == S \ {AnyOf(S)}
<1>1. IsFiniteSet(R) /\ R \in SUBSET S
  BY FS_Subset
<1> HIDE DEF R
<1>2. PICK g : SumsUp(f, S, g) /\ SumFunctionOnSet(f, S) = g[S]
  BY SumOfExists, SumUnfold
<1>3. PICK h : SumsUp(f, R, h) /\ SumFunctionOnSet(f, R) = h[R]
  BY <1>1, SumOfExists, SumUnfold
<1>4. g[S] = IF S = {} THEN 0 ELSE f[AnyOf(S)] + g[R]
  <2>1. S \in SUBSET S
    OBVIOUS
  <2>2. QED
    BY <1>2, <2>1 DEF IsSumOf, SumsUp, R
<1>5. g[R] = h[R]
  BY <1>1, <1>2, <1>3, SumOfUnique
<1>6. QED
  BY <1>2, <1>3, <1>4, <1>5 DEF R

LEMMA SumEmpty == ASSUME NEW f PROVE SumFunctionOnSet(f, {}) = 0
  BY FS_EmptySet, SumStep

(* A sum depends only on the values summed. *)
LEMMA SumSame ==
    ASSUME NEW S, IsFiniteSet(S), NEW f, NEW g, \A x \in S : f[x] = g[x]
    PROVE  SumFunctionOnSet(f, S) = SumFunctionOnSet(g, S)
<1> DEFINE F == {T \in SUBSET S : SumFunctionOnSet(f, T) = SumFunctionOnSet(g, T)}
<1>1. ASSUME NEW T \in SUBSET S, \A x \in T : T \ {x} \in F PROVE T \in F
  <2>1. IsFiniteSet(T)
    BY FS_Subset
  <2>2. CASE T = {}
    BY <2>2, SumEmpty
  <2>3. CASE T # {}
    <3>1. AnyOf(T) \in T /\ T \ {AnyOf(T)} \in F
      BY <1>1, <2>3, AnyIn
    <3>2. QED
      BY <2>1, <2>3, <3>1, SumStep
  <2>4. QED
    BY <2>2, <2>3
<1> HIDE DEF F
<1>2. S \in F
  BY <1>1, SetInduction
<1>3. QED
  BY <1>2 DEF F

LEMMA SumInt ==
    ASSUME NEW S, IsFiniteSet(S), NEW f, \A x \in S : f[x] \in Int
    PROVE  SumFunctionOnSet(f, S) \in Int
<1> DEFINE F == {T \in SUBSET S : SumFunctionOnSet(f, T) \in Int}
<1>1. ASSUME NEW T \in SUBSET S, \A x \in T : T \ {x} \in F PROVE T \in F
  <2>1. IsFiniteSet(T)
    BY FS_Subset
  <2>2. CASE T = {}
    BY <2>2, SumEmpty
  <2>3. CASE T # {}
    <3>1. f[AnyOf(T)] \in Int /\ SumFunctionOnSet(f, T \ {AnyOf(T)}) \in Int
      BY <1>1, <2>3, AnyIn
    <3>2. SumFunctionOnSet(f, T) = f[AnyOf(T)] + SumFunctionOnSet(f, T \ {AnyOf(T)})
      BY <2>1, <2>3, SumStep
    <3>3. QED
      BY <3>1, <3>2
  <2>4. QED
    BY <2>2, <2>3
<1> HIDE DEF F
<1>2. S \in F
  BY <1>1, SetInduction
<1>3. QED
  BY <1>2 DEF F

(* Any element may be the first one. *)
LEMMA SumRemove ==
    ASSUME NEW S, IsFiniteSet(S), NEW f, \A x \in S : f[x] \in Int
    PROVE  \A x \in S : SumFunctionOnSet(f, S) = f[x] + SumFunctionOnSet(f, S \ {x})
<1> DEFINE Sum(T) == SumFunctionOnSet(f, T)
           F == {T \in SUBSET S : \A x \in T : Sum(T) = f[x] + Sum(T \ {x})}
<1>1. ASSUME NEW T \in SUBSET S, \A x \in T : T \ {x} \in F PROVE T \in F
  <2> SUFFICES ASSUME NEW x \in T PROVE Sum(T) = f[x] + Sum(T \ {x})
    OBVIOUS
  <2> DEFINE a == AnyOf(T)
             R == T \ {a, x}
  <2>1. a \in T /\ Sum(T) = f[a] + Sum(T \ {a})
    BY AnyIn, SumStep, FS_Subset
  <2>2. CASE x = a
    BY <2>1, <2>2
  <2>3. CASE x # a
    <3>1. Sum(T \ {x}) = f[a] + Sum(R)
      <4>1. (T \ {x}) \ {a} = R
        OBVIOUS
      <4>2. Sum(T \ {x}) = f[a] + Sum((T \ {x}) \ {a})
        BY <1>1, <2>1, <2>3
      <4>3. QED
        BY <4>1, <4>2
    <3>2. Sum(T \ {a}) = f[x] + Sum(R)
      <4>1. (T \ {a}) \ {x} = R
        OBVIOUS
      <4>2. Sum(T \ {a}) = f[x] + Sum((T \ {a}) \ {x})
        BY <1>1, <2>1, <2>3
      <4>3. QED
        BY <4>1, <4>2
    <3>3. Sum(R) \in Int
      BY FS_Subset, SumInt
    <3>4. QED
      BY <2>1, <3>1, <3>2, <3>3
  <2>4. QED
    BY <2>2, <2>3
<1> HIDE DEF F
<1>2. S \in F
  BY <1>1, SetInduction
<1>3. QED
  BY <1>2 DEF F

LEMMA SumAdd ==
    ASSUME NEW S, IsFiniteSet(S), NEW x, x \notin S,
           NEW f, \A y \in S \cup {x} : f[y] \in Int
    PROVE  SumFunctionOnSet(f, S \cup {x}) = f[x] + SumFunctionOnSet(f, S)
<1>1. IsFiniteSet(S \cup {x})
  BY FS_AddElement
<1>2. (S \cup {x}) \ {x} = S
  OBVIOUS
<1>3. QED
  BY <1>1, <1>2, SumRemove

LEMMA SumOne ==
    ASSUME NEW x, NEW f, f[x] \in Int
    PROVE  SumFunctionOnSet(f, {x}) = f[x]
<1>1. IsFiniteSet({}) /\ {} \cup {x} = {x}
  BY FS_EmptySet
<1>2. SumFunctionOnSet(f, {} \cup {x}) = f[x] + SumFunctionOnSet(f, {})
  BY <1>1, SumAdd
<1>3. QED
  BY <1>1, <1>2, SumEmpty

(* The sums of two sets with nothing in common add up to that of both.     *)
LEMMA SumUnion ==
    ASSUME NEW S, IsFiniteSet(S), NEW R, IsFiniteSet(R), S \cap R = {},
           NEW f, \A x \in S \cup R : f[x] \in Int
    PROVE  SumFunctionOnSet(f, S \cup R) = SumFunctionOnSet(f, S) + SumFunctionOnSet(f, R)
<1> DEFINE Sum(T) == SumFunctionOnSet(f, T)
           F == {T \in SUBSET S : Sum(T \cup R) = Sum(T) + Sum(R)}
<1>1. ASSUME NEW T \in SUBSET S, \A x \in T : T \ {x} \in F PROVE T \in F
  <2>1. IsFiniteSet(T) /\ IsFiniteSet(T \cup R) /\ Sum(R) \in Int
    BY FS_Subset, FS_Union, SumInt
  <2>2. CASE T = {}
    <3>1. T \cup R = R
      BY <2>2
    <3>2. QED
      BY <2>1, <2>2, <3>1, SumEmpty
  <2>3. CASE T # {}
    <3>1. PICK x : x \in T
      BY <2>3
    <3>2. Sum((T \ {x}) \cup R) = Sum(T \ {x}) + Sum(R)
      BY <1>1, <3>1
    <3>3. Sum(T) = f[x] + Sum(T \ {x})
      BY <2>1, <3>1, SumRemove
    <3>4. Sum(T \cup R) = f[x] + Sum((T \ {x}) \cup R)
      <4>1. (T \cup R) \ {x} = (T \ {x}) \cup R
        BY <3>1
      <4>2. Sum(T \cup R) = f[x] + Sum((T \cup R) \ {x})
        BY <2>1, <3>1, SumRemove
      <4>3. QED
        BY <4>1, <4>2
    <3>5. Sum(T \ {x}) \in Int /\ f[x] \in Int
      BY <3>1, FS_Subset, SumInt
    <3>6. QED
      BY <2>1, <3>2, <3>3, <3>4, <3>5
  <2>4. QED
    BY <2>2, <2>3
<1> HIDE DEF F
<1>2. S \in F
  BY <1>1, SetInduction
<1>3. QED
  BY <1>2 DEF F

(* The sum of a short sequence. *)
LEMMA SumNext ==
    ASSUME NEW n \in Nat, NEW f, \A i \in 1..(n + 1) : f[i] \in Int
    PROVE  SumFunctionOnSet(f, 1..(n + 1)) = f[n + 1] + SumFunctionOnSet(f, 1..n)
<1>1. 1..(n + 1) = (1..n) \cup {n + 1} /\ n + 1 \notin 1..n
  OBVIOUS
<1>2. IsFiniteSet(1..n)
  BY FS_Interval
<1>3. \A i \in (1..n) \cup {n + 1} : f[i] \in Int
  BY <1>1
<1>4. SumFunctionOnSet(f, (1..n) \cup {n + 1}) = f[n + 1] + SumFunctionOnSet(f, 1..n)
  BY <1>1, <1>2, <1>3, SumAdd
<1>5. QED
  BY <1>1, <1>4

LEMMA SumUpTo ==
    ASSUME NEW f, f[1] \in Int
    PROVE  /\ SumFunctionOnSet(f, 1..1) = f[1]
           /\ f[2] \in Int => SumFunctionOnSet(f, 1..2) = f[1] + f[2]
           /\ f[2] \in Int /\ f[3] \in Int =>
                 SumFunctionOnSet(f, 1..3) = f[1] + f[2] + f[3]
<1>1. SumFunctionOnSet(f, 1..1) = f[1]
  <2>1. 1..1 = {1}
    OBVIOUS
  <2>2. SumFunctionOnSet(f, {1}) = f[1]
    BY SumOne
  <2>3. QED
    BY <2>1, <2>2
<1>2. ASSUME f[2] \in Int PROVE SumFunctionOnSet(f, 1..2) = f[1] + f[2]
  <2>1. \A i \in 1..(1 + 1) : f[i] \in Int
    BY <1>2
  <2>2. SumFunctionOnSet(f, 1..(1 + 1)) = f[1 + 1] + SumFunctionOnSet(f, 1..1)
    BY <2>1, SumNext
  <2>3. QED
    BY <1>1, <1>2, <2>2
<1>3. ASSUME f[2] \in Int, f[3] \in Int
      PROVE  SumFunctionOnSet(f, 1..3) = f[1] + f[2] + f[3]
  <2>1. \A i \in 1..(2 + 1) : f[i] \in Int
    BY <1>3
  <2>2. SumFunctionOnSet(f, 1..(2 + 1)) = f[2 + 1] + SumFunctionOnSet(f, 1..2)
    BY <2>1, SumNext
  <2>3. QED
    BY <1>2, <1>3, <2>2
<1>4. QED
  BY <1>1, <1>2, <1>3

(* Larger values and more of them make a larger sum. *)
LEMMA SumMonotone ==
    ASSUME NEW S, IsFiniteSet(S), NEW R \in SUBSET S,
           NEW f, \A x \in S : f[x] \in Nat, NEW g, \A x \in S : g[x] \in Nat,
           \A x \in R : f[x] <= g[x]
    PROVE  /\ SumFunctionOnSet(f, R) \in Nat
           /\ SumFunctionOnSet(g, S) \in Nat
           /\ SumFunctionOnSet(f, R) <= SumFunctionOnSet(g, S)
<1> DEFINE F == {T \in SUBSET S : /\ SumFunctionOnSet(f, T \cap R) \in Nat
                                 /\ SumFunctionOnSet(g, T) \in Nat
                                 /\ SumFunctionOnSet(f, T \cap R) <= SumFunctionOnSet(g, T)}
<1>1. ASSUME NEW T \in SUBSET S, \A x \in T : T \ {x} \in F PROVE T \in F
  <2> DEFINE a == SumFunctionOnSet(f, T \cap R)
             b == SumFunctionOnSet(g, T)
  <2> SUFFICES a \in Nat /\ b \in Nat /\ a <= b
    OBVIOUS
  <2>1. CASE T = {}
    <3>1. T \cap R = {}
      BY <2>1
    <3>2. QED
      BY <2>1, <3>1, SumEmpty
  <2>2. CASE T # {}
    <3>1. PICK x : x \in T
      BY <2>2
    <3> DEFINE c == SumFunctionOnSet(f, (T \ {x}) \cap R)
               d == SumFunctionOnSet(g, T \ {x})
    <3>2. c \in Nat /\ d \in Nat /\ c <= d
      BY <1>1, <3>1
    <3>3. IsFiniteSet(T) /\ IsFiniteSet(T \cap R)
      BY FS_Subset
    <3>4. b = g[x] + d /\ g[x] \in Nat
      BY <3>1, <3>3, SumRemove
    <3>5. a = c \/ (f[x] \in Nat /\ f[x] <= g[x] /\ a = f[x] + c)
      <4>1. CASE x \in R
        <5>1. (T \cap R) \ {x} = (T \ {x}) \cap R
          OBVIOUS
        <5>2. a = f[x] + SumFunctionOnSet(f, (T \cap R) \ {x})
          BY <3>1, <3>3, <4>1, SumRemove
        <5>3. QED
          BY <3>1, <4>1, <5>1, <5>2
      <4>2. CASE x \notin R
        <5>1. T \cap R = (T \ {x}) \cap R
          BY <4>2
        <5>2. QED
          BY <5>1
      <4>3. QED
        BY <4>1, <4>2
    <3> HIDE DEF a, b, c, d
    <3>6. QED
      BY <3>2, <3>4, <3>5
  <2>3. QED
    BY <2>1, <2>2
<1>2. S \in F
  <2> HIDE DEF F
  <2>1. QED
    BY <1>1, SetInduction
<1>3. S \cap R = R
  OBVIOUS
<1>4. QED
  BY <1>2, <1>3

LEMMA SumNat ==
    ASSUME NEW S, IsFiniteSet(S), NEW f, \A x \in S : f[x] \in Nat
    PROVE  SumFunctionOnSet(f, S) \in Nat
  BY SumMonotone

(* So do as many or more values, each as large as all of the others. *)
LEMMA SumExchange ==
    ASSUME NEW S, IsFiniteSet(S), NEW f, \A x \in S : f[x] \in Nat,
           NEW A \in SUBSET S, NEW B \in SUBSET S, Cardinality(A) <= Cardinality(B),
           \A a \in A, b \in B : f[a] <= f[b]
    PROVE  SumFunctionOnSet(f, A) <= SumFunctionOnSet(f, B)
<1> DEFINE Below(X, Y) == /\ Cardinality(X) <= Cardinality(Y)
                          /\ \A a \in X, b \in Y : f[a] <= f[b]
           F == {X \in SUBSET A : \A Y \in SUBSET S :
                    Below(X, Y) => SumFunctionOnSet(f, X) <= SumFunctionOnSet(f, Y)}
<1>1. ASSUME NEW X \in SUBSET A, \A x \in X : X \ {x} \in F PROVE X \in F
  <2> SUFFICES ASSUME NEW Y \in SUBSET S, Below(X, Y)
               PROVE  SumFunctionOnSet(f, X) <= SumFunctionOnSet(f, Y)
    OBVIOUS
  <2>1. /\ IsFiniteSet(X) /\ Cardinality(X) \in Nat
        /\ IsFiniteSet(Y) /\ Cardinality(Y) \in Nat
    BY FS_Subset, FS_CardinalityType
  <2>2. CASE X = {}
    <3>1. SumFunctionOnSet(f, Y) \in Nat
      BY <2>1, SumNat
    <3>2. QED
      BY <2>2, <3>1, SumEmpty
  <2>3. CASE X # {}
    <3>1. PICK a : a \in X
      BY <2>3
    <3>2. PICK b : b \in Y
      <4>1. Cardinality(X) # 0
        BY <2>1, <2>3, FS_EmptySet
      <4>2. Cardinality(Y) # 0
        BY <2>1, <4>1
      <4>3. QED
        BY <4>2, FS_EmptySet
    <3>3. Cardinality(X \ {a}) = Cardinality(X) - 1 /\ Cardinality(Y \ {b}) = Cardinality(Y) - 1
      BY <2>1, <3>1, <3>2, FS_RemoveElement
    <3>4. Below(X \ {a}, Y \ {b}) /\ Y \ {b} \in SUBSET S
      BY <2>1, <3>3
    <3>5. SumFunctionOnSet(f, X \ {a}) <= SumFunctionOnSet(f, Y \ {b})
      BY <1>1, <3>1, <3>4
    <3>6. /\ SumFunctionOnSet(f, X) = f[a] + SumFunctionOnSet(f, X \ {a})
          /\ SumFunctionOnSet(f, Y) = f[b] + SumFunctionOnSet(f, Y \ {b})
      BY <2>1, <3>1, <3>2, SumRemove
    <3>7. /\ SumFunctionOnSet(f, X \ {a}) \in Nat
          /\ SumFunctionOnSet(f, Y \ {b}) \in Nat
      <4>1. IsFiniteSet(X \ {a}) /\ IsFiniteSet(Y \ {b})
        BY <2>1, FS_RemoveElement
      <4>2. QED
        BY <4>1, SumNat
    <3>8. f[a] \in Nat /\ f[b] \in Nat /\ f[a] <= f[b]
      BY <3>1, <3>2
    <3>9. QED
      BY <3>5, <3>6, <3>7, <3>8
  <2>4. QED
    BY <2>2, <2>3
<1>2. IsFiniteSet(A)
  BY FS_Subset
<1>3. A \in F
  <2> HIDE DEF F
  <2>1. QED
    BY <1>1, <1>2, SetInduction
<1>4. QED
  BY <1>3

(* The places summed may be numbered anew. *)
LEMMA SumShift ==
    ASSUME NEW S \in SUBSET Nat, IsFiniteSet(S), NEW k \in Nat, NEW f, NEW g,
           \A x \in S : f[x] \in Int /\ g[x + k] = f[x]
    PROVE  SumFunctionOnSet(g, {x + k : x \in S}) = SumFunctionOnSet(f, S)
<1> DEFINE Shift(T) == {x + k : x \in T}
           F == {T \in SUBSET S : /\ IsFiniteSet(Shift(T))
                                 /\ SumFunctionOnSet(g, Shift(T)) = SumFunctionOnSet(f, T)}
<1>1. ASSUME NEW T \in SUBSET S, \A x \in T : T \ {x} \in F PROVE T \in F
  <2>1. CASE T = {}
    <3>1. Shift(T) = {}
      BY <2>1
    <3> HIDE DEF Shift
    <3>2. QED
      BY <2>1, <3>1, SumEmpty, FS_EmptySet
  <2>2. CASE T # {}
    <3>1. PICK x : x \in T
      BY <2>2
    <3> DEFINE R == T \ {x}
    <3>2. Shift(T) = Shift(R) \cup {x + k} /\ x + k \notin Shift(R)
      <4>1. T = R \cup {x} /\ x \notin R
        BY <3>1
      <4>2. x + k \notin Shift(R)
        <5>1. \A y \in R : y + k # x + k
          BY <3>1
        <5>2. QED
          BY <5>1
      <4> HIDE DEF R
      <4>3. Shift(T) = Shift(R) \cup {x + k}
        BY <4>1
      <4>4. QED
        BY <4>2, <4>3
    <3>3. \A y \in Shift(T) : g[y] \in Int
      OBVIOUS
    <3>4. /\ IsFiniteSet(Shift(R))
          /\ SumFunctionOnSet(g, Shift(R)) = SumFunctionOnSet(f, R)
      BY <1>1, <3>1
    <3> HIDE DEF Shift
    <3>5. IsFiniteSet(Shift(R) \cup {x + k})
      BY <3>4, FS_AddElement
    <3>6. SumFunctionOnSet(g, Shift(T)) = g[x + k] + SumFunctionOnSet(g, Shift(R))
      BY <3>2, <3>3, <3>4, SumAdd
    <3>7. SumFunctionOnSet(f, T) = f[x] + SumFunctionOnSet(f, R)
      BY <3>1, FS_Subset, SumRemove
    <3>8. QED
      BY <3>1, <3>2, <3>4, <3>5, <3>6, <3>7
  <2>3. QED
    BY <2>1, <2>2
<1> HIDE DEF F
<1>2. S \in F
  BY <1>1, SetInduction
<1>3. QED
  BY <1>2 DEF F

=================================================================================
