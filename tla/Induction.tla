----------------------------- MODULE Induction -----------------------------
(***************************************************************************)
(* Induction and recursion, stated of sets and functions instead of        *)
(* operators, so that the provers can use them; and what they say of the   *)
(* recursive definitions that the models use: sequences that are joined,   *)
(* or filtered by joining, and sums over finite sets.                      *)
(***************************************************************************)
EXTENDS Integers, SequencesExt, FiniteSetsExt, TLAPS, WellFoundedInduction, SequenceTheorems, FiniteSetTheorems
-----------------------------------------------------------------------------
(* A set of natural numbers that is not empty has a least element.         *)
LEMMA LeastNumber == ASSUME NEW T, T \subseteq Nat, T # {} PROVE \E x \in T : \A y \in T : x <= y
<1> DEFINE R == OpToRel(<, Nat)
<1>1. IsWellFoundedOn(R, Nat)
  BY NatLessThanWellFounded
<1>2. \A x \in T, y \in T : y < x => <<y, x>> \in R
  BY DEF OpToRel
<1> HIDE DEF R
<1>3. PICK x \in T : \A y \in T : ~ (<<y, x>> \in R)
  BY <1>1, WFMin
<1>4. \A y \in T : ~ (y < x)
  BY <1>2, <1>3
<1> QED
  BY <1>4

LEMMA NumbersBySteps ==
  ASSUME NEW T, 0 \in T, \A n \in Nat : n \in T => n + 1 \in T
  PROVE  \A n \in Nat : n \in T
<1> SUFFICES ASSUME NEW k \in Nat, k \notin T PROVE FALSE
  OBVIOUS
<1> DEFINE U == {n \in Nat : n \notin T}
<1>1. PICK n \in U : \A m \in U : n <= m
  BY LeastNumber
<1>2. n # 0 /\ n \in Nat /\ n \notin T
  OBVIOUS
<1>3. n - 1 \in Nat /\ n - 1 \notin T
  BY <1>2
<1> QED
  BY <1>1, <1>3

(* The numbers from 0 to n, when each follows from the one before.         *)
LEMMA NumbersUpTo ==
  ASSUME NEW N \in Nat, NEW T, 0 \in T, \A n \in 0 .. N - 1 : n \in T => n + 1 \in T
  PROVE  \A n \in 0 .. N : n \in T
<1> DEFINE U == {n \in Nat : n <= N => n \in T}
<1>1. 0 \in U /\ \A n \in Nat : n \in U => n + 1 \in U
  OBVIOUS
<1> HIDE DEF U
<1>2. \A n \in Nat : n \in U
  BY <1>1, NumbersBySteps
<1> QED
  BY <1>2 DEF U

(* Finite sets by their number of elements.                                *)
LEMMA SetsByElements ==
  ASSUME NEW S, IsFiniteSet(S), NEW T, {} \in T,
         \A U \in SUBSET S, x \in S : U \in T => U \cup {x} \in T
  PROVE  S \in T
<1> DEFINE N == {n \in Nat : \A U \in SUBSET S : Cardinality(U) = n => U \in T}
<1>1. \A U \in SUBSET S : IsFiniteSet(U) /\ Cardinality(U) \in Nat
  BY FS_Subset, FS_CardinalityType
<1>2. 0 \in N
  BY <1>1, FS_EmptySet
<1>3. ASSUME NEW n \in Nat, n \in N PROVE n + 1 \in N
  <2> SUFFICES ASSUME NEW U \in SUBSET S, Cardinality(U) = n + 1 PROVE U \in T
    OBVIOUS
  <2>1. PICK x : x \in U
    BY FS_EmptySet
  <2>2. Cardinality(U \ {x}) = n
    BY <1>1, <2>1, FS_RemoveElement
  <2>3. U \ {x} \in T
    BY <1>3, <2>2
  <2>4. U = (U \ {x}) \cup {x}
    BY <2>1
  <2> QED
    BY <2>1, <2>3, <2>4
<1> HIDE DEF N
<1>4. Cardinality(S) \in N
  BY <1>1, <1>2, <1>3, NumbersBySteps
<1> QED
  BY <1>4 DEF N

(* A function on 0 .. n may be defined step by step.                       *)
Stepped(f, n, S, b, F) == f \in [0 .. n -> S] /\ f[0] = b /\ \A k \in 1 .. n : f[k] = F[k][f[k - 1]]

LEMMA StepByStep ==
  ASSUME NEW n \in Nat, NEW S, NEW b \in S, NEW F, \A k \in 1 .. n : F[k] \in [S -> S]
  PROVE  \E f : Stepped(f, n, S, b, F)
<1> DEFINE T == {m \in 0 .. n : \E f : f \in [0 .. m -> S] /\ f[0] = b /\ \A k \in 1 .. m : f[k] = F[k][f[k - 1]]}
<1>1. 0 \in T
  <2> DEFINE f == [i \in 0 .. 0 |-> b]
  <2>1. f \in [0 .. 0 -> S] /\ f[0] = b /\ \A k \in 1 .. 0 : f[k] = F[k][f[k - 1]]
    OBVIOUS
  <2> HIDE DEF f
  <2> QED
    BY <2>1
<1>2. ASSUME NEW m \in 0 .. n - 1, m \in T PROVE m + 1 \in T
  <2>1. PICK f : f \in [0 .. m -> S] /\ f[0] = b /\ \A k \in 1 .. m : f[k] = F[k][f[k - 1]]
    BY <1>2
  <2> DEFINE g == [i \in 0 .. m + 1 |-> IF i = m + 1 THEN F[m + 1][f[m]] ELSE f[i]]
  <2>2. F[m + 1][f[m]] \in S
    BY <2>1
  <2>3. g \in [0 .. m + 1 -> S] /\ g[0] = b
    BY <2>1, <2>2
  <2>4. ASSUME NEW k \in 1 .. m + 1 PROVE g[k] = F[k][g[k - 1]]
    <3>1. CASE k = m + 1
      BY <3>1
    <3>2. CASE k # m + 1
      BY <2>1, <3>2
    <3> QED
      BY <3>1, <3>2
  <2> HIDE DEF g
  <2>5. \E h : h \in [0 .. m + 1 -> S] /\ h[0] = b /\ \A k \in 1 .. m + 1 : h[k] = F[k][h[k - 1]]
    BY <2>3, <2>4
  <2>6. m + 1 \in 0 .. n
    OBVIOUS
  <2> QED
    BY <2>5, <2>6, Zenon
<1> HIDE DEF T
<1>3. n \in T
  BY <1>1, <1>2, NumbersUpTo
<1> QED
  BY <1>3 DEF T, Stepped

(* The sequence that is chosen for a finite set lists it.                  *)
LEMMA SetListed ==
  ASSUME NEW S, IsFiniteSet(S)
  PROVE  LET list == SetToSeq(S)
         IN  /\ Cardinality(S) \in Nat /\ list \in [1 .. Cardinality(S) -> S]
             /\ \A i, j \in 1 .. Cardinality(S) : list[i] = list[j] => i = j
             /\ \A x \in S : \E i \in 1 .. Cardinality(S) : list[i] = x
<1> DEFINE n == Cardinality(S)
           list == SetToSeq(S)
<1>1. n \in Nat /\ ExistsBijection(1 .. n, S)
  BY FS_CardinalityType
<1>2. \E f \in [1 .. n -> S] : IsInjective(f)
  BY <1>1 DEF ExistsBijection, Bijection, Injection
<1>3. list \in [1 .. n -> S] /\ IsInjective(list)
  BY <1>2 DEF SetToSeq
<1> HIDE DEF list
<1>4. list \in Injection(1 .. n, S)
  BY <1>3 DEF Injection
<1>5. list \in Surjection(1 .. n, S)
  <2>1. Cardinality(1 .. n) = n
    BY <1>1, FS_Interval
  <2> QED
    BY <1>4, <2>1, FS_Injection
<1>6. (\A i, j \in 1 .. n : list[i] = list[j] => i = j) /\ (\A x \in S : \E i \in 1 .. n : list[i] = x)
  BY <1>3, <1>5 DEF IsInjective, Surjection
<1> QED
  BY <1>1, <1>3, <1>6 DEF list

(* A sequence of sequences, joined step by step.                           *)
Joined(J, p, X) ==
  /\ J \in [0 .. Len(p) -> Seq(X)] /\ J[0] = <<>>
  /\ \A i \in 1 .. Len(p) : J[i] = J[i - 1] \o p[i]

LEMMA FlattenSteps ==
  ASSUME NEW X, NEW p \in Seq(Seq(X))
  PROVE  \E J : Joined(J, p, X) /\ FlattenSeq(p) = J[Len(p)]
<1> DEFINE n == Len(p)
           F == [i \in 1 .. n |-> [s \in Seq(X) |-> s \o p[i]]]
<1>1. n \in Nat /\ p \in [1 .. n -> Seq(X)]
  BY LenProperties
<1>2. \A i \in 1 .. n : F[i] \in [Seq(X) -> Seq(X)]
  <2> SUFFICES ASSUME NEW i \in 1 .. n, NEW s \in Seq(X) PROVE s \o p[i] \in Seq(X)
    OBVIOUS
  <2>1. p[i] \in Seq(X)
    BY <1>1
  <2> QED
    BY <2>1, ConcatProperties
<1>3. <<>> \in Seq(X)
  BY EmptySeq
<1>f. \A i \in 1 .. n : \A s \in Seq(X) : F[i][s] = s \o p[i]
  OBVIOUS
<1> HIDE DEF F, n
<1>4. PICK J : Stepped(J, n, Seq(X), <<>>, F)
  BY <1>1, <1>2, <1>3, StepByStep
<1>5. J \in [0 .. n -> Seq(X)] /\ J[0] = <<>> /\ \A i \in 1 .. n : J[i] = J[i - 1] \o p[i]
  <2>1. \A i \in 1 .. n : i - 1 \in 0 .. n
    BY <1>1
  <2> QED
    BY <1>4, <1>f, <2>1 DEF Stepped
<1>6. Joined(J, p, X)
  BY <1>5 DEF Joined, n
<1>7. CASE n = 0
  <2>1. p = <<>>
    BY <1>7, EmptySeq DEF n
  <2> QED
    BY <1>5, <1>6, <1>7, <2>1 DEF FlattenSeq, n
<1>8. CASE n # 0
  <2>a. J[1] = p[1]
    <3>1. 1 \in 1 .. n /\ 1 - 1 = 0
      BY <1>1, <1>8
    <3>2. J[1] = J[1 - 1] \o p[1]
      BY <1>5, <3>1
    <3>3. p[1] \in Seq(X) /\ J[1 - 1] = <<>>
      BY <1>1, <1>5, <3>1
    <3> QED
      BY <3>2, <3>3, ConcatEmptySeq
  <2> DEFINE Is(g) == g = [i \in 1 .. n |-> IF i = 1 THEN p[i] ELSE g[i - 1] \o p[i]]
             g == CHOOSE g : Is(g)
             k == [i \in 1 .. n |-> J[i]]
  <2>1. Is(k)
    <3> SUFFICES ASSUME NEW i \in 1 .. n PROVE J[i] = IF i = 1 THEN p[i] ELSE k[i - 1] \o p[i]
      OBVIOUS
    <3>1. CASE i = 1
      BY <2>a, <3>1
    <3>2. CASE i # 1
      <4>1. i - 1 \in 1 .. n
        BY <1>1, <3>2
      <4> QED
        BY <1>5, <3>2, <4>1
    <3> QED
      BY <3>1, <3>2
  <2> HIDE DEF k
  <2>2. Is(g)
    BY <2>1
  <2>3. FlattenSeq(p) = g[n]
    BY <1>8, Zenon DEF FlattenSeq, n
  <2> HIDE DEF g
  <2>4. \A i \in 1 .. n : g[i] = IF i = 1 THEN p[i] ELSE g[i - 1] \o p[i]
    BY <2>2
  <2> DEFINE T == {i \in Nat : i \in 1 .. n => g[i] = J[i]}
  <2>5. 0 \in T /\ \A i \in Nat : i \in T => i + 1 \in T
    <3>1. 0 \in T
      OBVIOUS
    <3>2. ASSUME NEW i \in Nat, i \in T, i + 1 \in 1 .. n PROVE g[i + 1] = J[i + 1]
      <4>1. CASE i = 0
        <5>1. i + 1 = 1 /\ 1 \in 1 .. n
          BY <3>2, <4>1
        <5> QED
          BY <2>a, <2>4, <5>1
      <4>2. CASE i # 0
        <5>1. i \in 1 .. n /\ (i + 1) - 1 = i /\ i + 1 # 1
          BY <1>1, <3>2, <4>2
        <5>2. g[i] = J[i]
          BY <3>2, <5>1
        <5>3. g[i + 1] = g[(i + 1) - 1] \o p[i + 1]
          BY <2>4, <3>2, <5>1
        <5>4. J[i + 1] = J[(i + 1) - 1] \o p[i + 1]
          BY <1>5, <3>2
        <5> QED
          BY <5>1, <5>2, <5>3, <5>4
      <4> QED
        BY <4>1, <4>2
    <3> QED
      BY <3>1, <3>2
  <2> HIDE DEF T
  <2>6. n \in T
    BY <1>1, <2>5, NumbersBySteps
  <2>7. g[n] = J[n]
    BY <1>1, <1>8, <2>6 DEF T
  <2> QED
    BY <1>6, <2>3, <2>7 DEF n
<1> QED
  BY <1>7, <1>8

(***************************************************************************)
(* Sums over finite sets.  Part(U) are the sets that a sum over U adds up, *)
(* and Adds(it, U, f) says that "it" is the function which adds them up.   *)
(***************************************************************************)
SumOf(f, S) == MapThenSumSet(LAMBDA x : f[x], S)
First(s) == CHOOSE x \in s : TRUE
Adds(it, U, f) ==
  it = [s \in SUBSET U |-> IF s = {} THEN 0 ELSE f[First(s)] + it[s \ {First(s)}]]
AddsOnly(it, n, U, f) ==
  it = [s \in {s \in SUBSET U : Cardinality(s) <= n} |-> IF s = {} THEN 0 ELSE f[First(s)] + it[s \ {First(s)}]]

LEMMA FirstIsIn == ASSUME NEW s, s # {} PROVE First(s) \in s
BY DEF First

LEMMA SmallerSet ==
  ASSUME NEW U, IsFiniteSet(U), NEW s \in SUBSET U, s # {}
  PROVE  /\ First(s) \in s /\ s \ {First(s)} \in SUBSET U
         /\ Cardinality(s) \in Nat /\ Cardinality(s \ {First(s)}) = Cardinality(s) - 1
BY FirstIsIn, FS_Subset, FS_CardinalityType, FS_RemoveElement

LEMMA AddsExists == ASSUME NEW U, IsFiniteSet(U), NEW f PROVE \E it : Adds(it, U, f)
<1> DEFINE Small(n) == {s \in SUBSET U : Cardinality(s) <= n}
           Sum(it, s) == IF s = {} THEN 0 ELSE f[First(s)] + it[s \ {First(s)}]
           N == {n \in Nat : \E it : AddsOnly(it, n, U, f)}
<1>0. \A s \in SUBSET U : Cardinality(s) \in Nat /\ (Cardinality(s) = 0 => s = {})
  BY FS_Subset, FS_CardinalityType, FS_EmptySet
<1>1. 0 \in N
  <2> DEFINE it == [s \in Small(0) |-> 0]
  <2>1. \A s \in Small(0) : s = {}
    BY <1>0
  <2>2. it = [s \in Small(0) |-> Sum(it, s)]
    BY <2>1
  <2>3. AddsOnly(it, 0, U, f)
    BY <2>2 DEF AddsOnly
  <2> QED
    BY <2>3
<1>2. ASSUME NEW n \in Nat, n \in N PROVE n + 1 \in N
  <2>1. PICK it : it = [s \in Small(n) |-> Sum(it, s)]
    BY <1>2 DEF AddsOnly
  <2> DEFINE jt == [s \in Small(n + 1) |-> Sum(it, s)]
  <2>2. ASSUME NEW s \in Small(n + 1), s # {} PROVE First(s) \in s /\ s \ {First(s)} \in Small(n) /\ s \ {First(s)} \in Small(n + 1)
    BY <2>2, SmallerSet
  <2>3. \A s \in Small(n) : s \in Small(n + 1) /\ jt[s] = it[s]
    <3>1. \A s \in Small(n) : s \in Small(n + 1)
      BY <1>0
    <3>2. \A s \in Small(n) : it[s] = Sum(it, s)
      BY <2>1
    <3> QED
      BY <3>1, <3>2
  <2>4. ASSUME NEW s \in Small(n + 1) PROVE Sum(it, s) = Sum(jt, s)
    BY <2>2, <2>3
  <2>5. jt = [s \in Small(n + 1) |-> Sum(jt, s)]
    BY <2>4
  <2>6. AddsOnly(jt, n + 1, U, f)
    BY <2>5 DEF AddsOnly
  <2> QED
    BY <2>6
<1> HIDE DEF N
<1>3. Cardinality(U) \in N
  BY <1>0, <1>1, <1>2, NumbersBySteps
<1>4. PICK it : AddsOnly(it, Cardinality(U), U, f)
  BY <1>3 DEF N
<1>5. {s \in SUBSET U : Cardinality(s) <= Cardinality(U)} = SUBSET U
  BY FS_Subset
<1> QED
  BY <1>4, <1>5 DEF Adds, AddsOnly

(* SumOf is such a function's value, and all such functions agree.         *)
LEMMA SumIsAdded ==
  ASSUME NEW S, IsFiniteSet(S), NEW f PROVE \E it : Adds(it, S, f) /\ SumOf(f, S) = it[S]
<1> DEFINE it == CHOOSE it : Adds(it, S, f)
<1>1. Adds(it, S, f)
  BY AddsExists
<1>2. SumOf(f, S) = it[S]
  BY DEF SumOf, MapThenSumSet, MapThenFoldSet, Adds, First
<1> HIDE DEF it
<1> QED
  BY <1>1, <1>2

LEMMA AddedAt ==
  ASSUME NEW U, NEW f, NEW it, Adds(it, U, f)
  PROVE  it[{}] = 0
BY DEF Adds

LEMMA AddedFirst ==
  ASSUME NEW U, NEW f, NEW it, Adds(it, U, f), NEW s \in SUBSET U, s # {}
  PROVE  it[s] = f[First(s)] + it[s \ {First(s)}]
BY DEF Adds

LEMMA AddedType ==
  ASSUME NEW U, IsFiniteSet(U), NEW f, \A x \in U : f[x] \in Int, NEW it, Adds(it, U, f),
         NEW V, IsFiniteSet(V), NEW jt, Adds(jt, V, f), NEW s \in SUBSET U, s \in SUBSET V
  PROVE  it[s] \in Int /\ jt[s] = it[s]
<1> DEFINE T == {n \in Nat : \A u \in SUBSET U : u \in SUBSET V /\ Cardinality(u) = n => it[u] \in Int /\ jt[u] = it[u]}
<1>1. 0 \in T
  <2> SUFFICES ASSUME NEW u \in SUBSET U, u \in SUBSET V, Cardinality(u) = 0 PROVE it[u] \in Int /\ jt[u] = it[u]
    OBVIOUS
  <2>1. u = {}
    BY FS_Subset, FS_EmptySet
  <2>2. it[{}] = 0 /\ jt[{}] = 0
    BY AddedAt
  <2> QED
    BY <2>1, <2>2
<1>2. ASSUME NEW n \in Nat, n \in T PROVE n + 1 \in T
  <2> SUFFICES ASSUME NEW u \in SUBSET U, u \in SUBSET V, Cardinality(u) = n + 1 PROVE it[u] \in Int /\ jt[u] = it[u]
    OBVIOUS
  <2>1. u # {}
    BY FS_EmptySet
  <2> DEFINE x == First(u)
  <2>2. x \in u /\ u \ {x} \in SUBSET U /\ Cardinality(u \ {x}) = n
    BY <2>1, SmallerSet
  <2>3. it[u] = f[x] + it[u \ {x}] /\ jt[u] = f[x] + jt[u \ {x}]
    <3>1. it[u] = f[x] + it[u \ {x}]
      BY <2>1, AddedFirst
    <3>2. jt[u] = f[x] + jt[u \ {x}]
      BY <2>1, AddedFirst
    <3> QED
      BY <3>1, <3>2
  <2>4. f[x] \in Int /\ u \ {x} \in SUBSET V
    BY <2>2
  <2> HIDE DEF x
  <2>5. it[u \ {x}] \in Int /\ jt[u \ {x}] = it[u \ {x}]
    BY <1>2, <2>2, <2>4
  <2> QED
    BY <2>3, <2>4, <2>5
<1> HIDE DEF T
<1>3. Cardinality(s) \in T
  BY <1>1, <1>2, NumbersBySteps, FS_Subset, FS_CardinalityType
<1> QED
  BY <1>3 DEF T

(* Any element may be taken out of a sum first.                            *)
LEMMA AddedWithout ==
  ASSUME NEW U, IsFiniteSet(U), NEW f, \A x \in U : f[x] \in Int, NEW it, Adds(it, U, f),
         NEW s \in SUBSET U, NEW x \in s
  PROVE  it[s] = f[x] + it[s \ {x}]
<1>f. ASSUME NEW u \in SUBSET U, u # {} PROVE it[u] = f[First(u)] + it[u \ {First(u)}]
  BY <1>f DEF Adds
<1> DEFINE T == {n \in Nat : \A u \in SUBSET U : Cardinality(u) = n => \A y \in u : it[u] = f[y] + it[u \ {y}]}
<1>0. \A u \in SUBSET U : it[u] \in Int
  BY AddedType
<1>1. 0 \in T
  BY FS_Subset, FS_EmptySet
<1>2. ASSUME NEW n \in Nat, n \in T PROVE n + 1 \in T
  <2> SUFFICES ASSUME NEW u \in SUBSET U, Cardinality(u) = n + 1, NEW y \in u PROVE it[u] = f[y] + it[u \ {y}]
    OBVIOUS
  <2> DEFINE z == First(u)
  <2>2. z \in u /\ u \ {z} \in SUBSET U /\ Cardinality(u \ {z}) = n
    BY SmallerSet
  <2>3. it[u] = f[z] + it[u \ {z}]
    <3>1. u # {}
      OBVIOUS
    <3> QED
      BY <1>f, <3>1
  <2> HIDE DEF z
  <2>4. CASE y = z
    BY <2>3, <2>4
  <2>5. CASE y # z
    <3> DEFINE r == (u \ {z}) \ {y}
    <3>1. it[u \ {z}] = f[y] + it[r]
      BY <1>2, <2>2, <2>5
    <3>2. u \ {y} \in SUBSET U /\ Cardinality(u \ {y}) = n /\ z \in u \ {y}
      <4>1. IsFiniteSet(u)
        BY FS_Subset
      <4> QED
        BY <4>1, <2>2, <2>5, FS_RemoveElement
    <3>3. it[u \ {y}] = f[z] + it[(u \ {y}) \ {z}]
      BY <1>2, <3>2
    <3>4. (u \ {y}) \ {z} = r
      OBVIOUS
    <3>5. r \in SUBSET U /\ f[y] \in Int /\ f[z] \in Int
      BY <2>2
    <3> HIDE DEF r
    <3>6. it[r] \in Int
      BY <3>5, <1>0
    <3>7. it[u] = f[z] + (f[y] + it[r]) /\ it[u \ {y}] = f[z] + it[r]
      BY <2>3, <3>1, <3>3, <3>4
    <3> QED
      BY <3>5, <3>6, <3>7
  <2> QED
    BY <2>4, <2>5
<1> HIDE DEF T
<1>3. Cardinality(s) \in T
  BY <1>1, <1>2, NumbersBySteps, FS_Subset, FS_CardinalityType
<1> QED
  BY <1>3 DEF T

LEMMA SumOfNone == ASSUME NEW f PROVE SumOf(f, {}) = 0
BY SumIsAdded, AddedAt, FS_EmptySet

LEMMA SumType == ASSUME NEW S, IsFiniteSet(S), NEW f, \A x \in S : f[x] \in Int PROVE SumOf(f, S) \in Int
BY SumIsAdded, AddedType

LEMMA SumWith ==
  ASSUME NEW S, IsFiniteSet(S), NEW f, \A x \in S : f[x] \in Int, NEW x, x \notin S, f[x] \in Int
  PROVE  SumOf(f, S \cup {x}) = SumOf(f, S) + f[x]
<1> DEFINE U == S \cup {x}
<1>1. IsFiniteSet(U) /\ (\A y \in U : f[y] \in Int) /\ x \in U /\ U \ {x} = S
  BY FS_AddElement
<1> HIDE DEF U
<1>2. PICK it : Adds(it, U, f) /\ SumOf(f, U) = it[U]
  BY <1>1, SumIsAdded
<1>3. PICK jt : Adds(jt, S, f) /\ SumOf(f, S) = jt[S]
  BY <1>1, SumIsAdded
<1>4. it[U] = f[x] + it[S]
  BY <1>1, <1>2, AddedWithout
<1>5. S \in SUBSET U
  BY <1>1
<1>6. it[S] \in Int /\ jt[S] = it[S]
  BY <1>1, <1>2, <1>3, <1>5, AddedType
<1>7. SumOf(f, U) = SumOf(f, S) + f[x]
  BY <1>2, <1>3, <1>4, <1>6
<1> QED
  BY <1>7 DEF U

(* What a function adds at x, when it is summed over A.                    *)
Within(f, A, x) == IF x \in A THEN f[x] ELSE 0

LEMMA SumStep ==
  ASSUME NEW A, IsFiniteSet(A), NEW f, \A y \in A : f[y] \in Int, NEW V, NEW x, x \notin V
  PROVE  /\ SumOf(f, A \cap (V \cup {x})) = SumOf(f, A \cap V) + Within(f, A, x)
         /\ SumOf(f, A \cap V) \in Int /\ Within(f, A, x) \in Int
<1>1. IsFiniteSet(A \cap V) /\ (\A y \in A \cap V : f[y] \in Int)
  BY FS_Subset
<1>2. SumOf(f, A \cap V) \in Int /\ Within(f, A, x) \in Int
  BY <1>1, SumType DEF Within
<1>3. CASE x \in A
  <2>1. A \cap (V \cup {x}) = (A \cap V) \cup {x}
    BY <1>3
  <2>2. Within(f, A, x) = f[x]
    BY <1>3 DEF Within
  <2>3. SumOf(f, (A \cap V) \cup {x}) = SumOf(f, A \cap V) + f[x]
    BY <1>1, <1>3, SumWith
  <2> QED
    BY <1>2, <2>1, <2>2, <2>3
<1>4. CASE x \notin A
  <2>1. A \cap (V \cup {x}) = A \cap V
    BY <1>4
  <2>2. Within(f, A, x) = 0
    BY <1>4 DEF Within
  <2>3. SumOf(f, A \cap (V \cup {x})) = SumOf(f, A \cap V)
    BY <2>1
  <2> QED
    BY <1>2, <2>2, <2>3
<1> QED
  BY <1>2, <1>3, <1>4

(* Three sums, when the third has at each place the difference of the two. *)
LEMMA SumsDiffer ==
  ASSUME NEW A, IsFiniteSet(A), NEW f, \A y \in A : f[y] \in Int,
         NEW B, IsFiniteSet(B), NEW g, \A y \in B : g[y] \in Int,
         NEW D, IsFiniteSet(D), NEW h, \A y \in D : h[y] \in Int, D \subseteq A \cup B,
         \A x \in A \cup B : Within(g, B, x) = Within(f, A, x) + Within(h, D, x)
  PROVE  SumOf(g, B) = SumOf(f, A) + SumOf(h, D)
<1> DEFINE U == A \cup B
           T == {V \in SUBSET U : SumOf(g, B \cap V) = SumOf(f, A \cap V) + SumOf(h, D \cap V)}
<1>1. IsFiniteSet(U) /\ A \cap U = A /\ B \cap U = B /\ D \cap U = D
  BY FS_Union
<1>2. {} \in T
  <2>1. A \cap {} = {} /\ B \cap {} = {} /\ D \cap {} = {}
    OBVIOUS
  <2> QED
    BY <2>1, SumOfNone
<1>3. ASSUME NEW V \in SUBSET U, NEW x \in U, V \in T PROVE V \cup {x} \in T
  <2>1. CASE x \in V
    <3>1. V \cup {x} = V
      BY <2>1
    <3> QED
      BY <1>3, <3>1
  <2>2. CASE x \notin V
    <3>1. /\ SumOf(f, A \cap (V \cup {x})) = SumOf(f, A \cap V) + Within(f, A, x)
          /\ SumOf(f, A \cap V) \in Int /\ Within(f, A, x) \in Int
      BY <2>2, SumStep
    <3>2. /\ SumOf(g, B \cap (V \cup {x})) = SumOf(g, B \cap V) + Within(g, B, x)
          /\ SumOf(g, B \cap V) \in Int /\ Within(g, B, x) \in Int
      BY <2>2, SumStep
    <3>3. /\ SumOf(h, D \cap (V \cup {x})) = SumOf(h, D \cap V) + Within(h, D, x)
          /\ SumOf(h, D \cap V) \in Int /\ Within(h, D, x) \in Int
      BY <2>2, SumStep
    <3>4. Within(g, B, x) = Within(f, A, x) + Within(h, D, x)
      OBVIOUS
    <3>5. SumOf(g, B \cap V) = SumOf(f, A \cap V) + SumOf(h, D \cap V)
      BY <1>3
    <3>6. SumOf(g, B \cap (V \cup {x})) = SumOf(f, A \cap (V \cup {x})) + SumOf(h, D \cap (V \cup {x}))
      BY <3>1, <3>2, <3>3, <3>4, <3>5
    <3> QED
      BY <3>6
  <2> QED
    BY <2>1, <2>2
<1> HIDE DEF T
<1>4. U \in T
  <2> HIDE DEF U
  <2> QED
    BY <1>1, <1>2, <1>3, SetsByElements
<1> QED
  BY <1>1, <1>4 DEF T
-----------------------------------------------------------------------------
(* What a loop pushes: of the first n, those of which P holds.             *)
Pushes(n, P, e) == FlattenSeq([k \in 1 .. n |-> IF P[k] THEN <<e[k]>> ELSE <<>>])

HasElement(s, x) == \E j \in 1 .. Len(s) : s[j] = x

LEMMA FlattenElements ==
  ASSUME NEW X, NEW p \in Seq(Seq(X)), NEW x
  PROVE  /\ FlattenSeq(p) \in Seq(X)
         /\ HasElement(FlattenSeq(p), x) <=> \E i \in 1 .. Len(p) : HasElement(p[i], x)
<1> DEFINE n == Len(p)
           r == FlattenSeq(p)
           Has(s) == \E j \in 1 .. Len(s) : s[j] = x
<1>1. n \in Nat /\ p \in [1 .. n -> Seq(X)]
  BY LenProperties
<1>2. PICK J : Joined(J, p, X) /\ r = J[n]
  BY FlattenSteps
<1>3. /\ J \in [0 .. n -> Seq(X)] /\ J[0] = <<>> /\ \A i \in 1 .. n : J[i] = J[i - 1] \o p[i]
  BY <1>2 DEF Joined
<1> HIDE DEF n, r
<1>4. ASSUME NEW s \in Seq(X), NEW q \in Seq(X) PROVE Has(s \o q) <=> Has(s) \/ Has(q)
  <2> DEFINE w == s \o q
  <2>1. /\ Len(s) \in Nat /\ Len(q) \in Nat /\ Len(w) = Len(s) + Len(q)
        /\ \A i \in 1 .. Len(s) : w[i] = s[i]
        /\ \A i \in 1 .. Len(q) : w[Len(s) + i] = q[i]
    BY ConcatProperties, LenProperties
  <2> HIDE DEF w
  <2>2. ASSUME NEW j \in 1 .. Len(s), s[j] = x PROVE Has(w)
    <3>1. j \in 1 .. Len(w) /\ w[j] = x
      BY <2>1, <2>2
    <3> QED
      BY <3>1
  <2>3. ASSUME NEW j \in 1 .. Len(q), q[j] = x PROVE Has(w)
    <3>1. Len(s) + j \in 1 .. Len(w) /\ w[Len(s) + j] = x
      BY <2>1, <2>3
    <3> QED
      BY <3>1
  <2>4. ASSUME NEW j \in 1 .. Len(w), w[j] = x PROVE Has(s) \/ Has(q)
    <3>1. CASE j <= Len(s)
      <4>1. j \in 1 .. Len(s) /\ s[j] = x
        BY <2>1, <2>4, <3>1
      <4> QED
        BY <4>1
    <3>2. CASE ~(j <= Len(s))
      <4>1. j - Len(s) \in 1 .. Len(q) /\ Len(s) + (j - Len(s)) = j
        BY <2>1, <3>2
      <4>2. q[j - Len(s)] = x
        BY <2>1, <2>4, <4>1
      <4> QED
        BY <4>1, <4>2
    <3> QED
      BY <3>1, <3>2
  <2> QED
    BY <2>2, <2>3, <2>4 DEF w
<1> DEFINE T == {m \in 0 .. n : Has(J[m]) <=> \E i \in 1 .. m : Has(p[i])}
<1>5. 0 \in T
  <2>1. Len(<<>>) = 0
    OBVIOUS
  <2>2. ~Has(<<>>) /\ ~(\E i \in 1 .. 0 : Has(p[i])) /\ 0 \in 0 .. n
    BY <1>1, <2>1
  <2> QED
    BY <1>3, <2>2
<1>6. ASSUME NEW m \in 0 .. n - 1, m \in T PROVE m + 1 \in T
  <2>1. m + 1 \in 1 .. n /\ m \in 0 .. n /\ (m + 1) - 1 = m /\ m + 1 \in 0 .. n
    BY <1>1
  <2>2. J[m + 1] = J[m] \o p[m + 1] /\ J[m] \in Seq(X) /\ p[m + 1] \in Seq(X)
    BY <1>1, <1>3, <2>1
  <2>3. Has(J[m + 1]) <=> Has(J[m]) \/ Has(p[m + 1])
    <3>1. Has(J[m] \o p[m + 1]) <=> Has(J[m]) \/ Has(p[m + 1])
      BY <1>4, <2>2
    <3> HIDE DEF Has
    <3> QED
      BY <2>2, <3>1
  <2>4. Has(J[m]) <=> \E i \in 1 .. m : Has(p[i])
    BY <1>6
  <2>5. \A i : i \in 1 .. m + 1 <=> i \in 1 .. m \/ i = m + 1
    BY <2>1
  <2> HIDE DEF Has
  <2>6. (\E i \in 1 .. m + 1 : Has(p[i])) <=> (\E i \in 1 .. m : Has(p[i])) \/ Has(p[m + 1])
    BY <2>5, Zenon
  <2>7. Has(J[m + 1]) <=> \E i \in 1 .. m + 1 : Has(p[i])
    BY <2>3, <2>4, <2>6, Zenon
  <2> QED
    BY <2>1, <2>7
<1> HIDE DEF T
<1>7. \A m \in 0 .. n : m \in T
  BY ONLY <1>1, <1>5, <1>6, NumbersUpTo, Zenon
<1>8. n \in 0 .. n
  BY <1>1
<1>9. r \in Seq(X) /\ (Has(r) <=> \E i \in 1 .. n : Has(p[i]))
  BY <1>2, <1>3, <1>7, <1>8 DEF T
<1> QED
  BY <1>9, Zenon DEF r, n, HasElement

LEMMA PushedElements ==
  ASSUME NEW n \in Nat, NEW X, NEW P, NEW e, \A k \in 1 .. n : P[k] => e[k] \in X
  PROVE  /\ Pushes(n, P, e) \in Seq(X) /\ Len(Pushes(n, P, e)) \in Nat
         /\ \A x : HasElement(Pushes(n, P, e), x) <=> \E k \in 1 .. n : P[k] /\ e[k] = x
<1> DEFINE p == [k \in 1 .. n |-> IF P[k] THEN <<e[k]>> ELSE <<>>]
           r == FlattenSeq(p)
<1>1. /\ p \in Seq(Seq(X)) /\ Len(p) = n
      /\ \A k \in 1 .. n : IF P[k] THEN Len(p[k]) = 1 /\ p[k][1] = e[k] ELSE Len(p[k]) = 0
  <2>1. ASSUME NEW k \in 1 .. n
        PROVE  p[k] \in Seq(X) /\ IF P[k] THEN Len(p[k]) = 1 /\ p[k][1] = e[k] ELSE Len(p[k]) = 0
    <3>1. CASE P[k]
      <4>1. p[k] = <<e[k]>> /\ e[k] \in X
        BY <3>1
      <4> QED
        BY <3>1, <4>1
    <3>2. CASE ~P[k]
      <4>1. p[k] = <<>>
        BY <3>2
      <4> QED
        BY <3>2, <4>1
    <3> QED
      BY <3>1, <3>2
  <2>2. DOMAIN p = 1 .. n /\ p \in [1 .. n -> Seq(X)]
    BY <2>1
  <2> HIDE DEF p
  <2> QED
    BY <2>1, <2>2
<1> HIDE DEF p, r
<1>2. ASSUME NEW x
      PROVE  r \in Seq(X) /\ (HasElement(r, x) <=> \E i \in 1 .. n : HasElement(p[i], x))
  <2>1. /\ FlattenSeq(p) \in Seq(X)
        /\ HasElement(FlattenSeq(p), x) <=> \E i \in 1 .. Len(p) : HasElement(p[i], x)
    <3>1. p \in Seq(Seq(X))
      BY <1>1
    <3> QED
      BY <3>1, FlattenElements, Zenon
  <2>2. Len(p) = n
    BY <1>1
  <2> QED
    BY <2>1, <2>2, Zenon DEF r
<1>3. r \in Seq(X) /\ Len(r) \in Nat
  BY <1>2, LenProperties
<1>4. ASSUME NEW j \in 1 .. Len(r) PROVE \E k \in 1 .. n : P[k] /\ r[j] = e[k]
  <2>1. PICK k \in 1 .. n : \E i \in 1 .. Len(p[k]) : p[k][i] = r[j]
    BY <1>2 DEF HasElement
  <2> QED
    BY <1>1, <2>1
<1>5. ASSUME NEW k \in 1 .. n, P[k] PROVE \E j \in 1 .. Len(r) : r[j] = e[k]
  <2>1. 1 \in 1 .. Len(p[k]) /\ p[k][1] = e[k]
    BY <1>1, <1>5
  <2> QED
    BY <1>2, <2>1 DEF HasElement
<1>6. r = Pushes(n, P, e)
  BY DEF Pushes, r, p
<1>7. ASSUME NEW x PROVE HasElement(r, x) <=> \E k \in 1 .. n : P[k] /\ e[k] = x
  BY <1>4, <1>5 DEF HasElement
<1> QED
  BY <1>3, <1>6, <1>7, Zenon

LEMMA ListIs ==
  ASSUME NEW X, NEW n \in Nat, NEW q \in [1 .. n -> X] PROVE q \in Seq(X) /\ Len(q) = n
OBVIOUS

(* Of a set of numbers up to n, some number is the greatest.               *)
LEMMA GreatestNumber ==
  ASSUME NEW n \in Nat, NEW S \in SUBSET (1 .. n), S # {} PROVE \E i \in S : \A j \in S : j <= i
<1> DEFINE Above == {k \in Nat : \A j \in S : j <= k}
<1>1. n \in Above
  OBVIOUS
<1>2. PICK k \in Above : \A m \in Above : k <= m
  BY <1>1, LeastNumber
<1>3. CASE k \in S
  BY <1>3
<1>4. CASE k \notin S
  <2>1. \A j \in S : j \in Nat /\ j <= k /\ j # k /\ 1 <= j
    BY <1>4
  <2>2. PICK i : i \in S
    OBVIOUS
  <2>3. k - 1 \in Nat
    BY <2>1, <2>2
  <2>4. k - 1 \in Above
    BY <2>1, <2>3
  <2> QED
    BY <1>2, <2>4
<1> QED
  BY <1>3, <1>4

(* A finite set can be listed in any order R of its elements.              *)
Orders(R, S) ==
  /\ \A x, y \in S : x = y \/ <<x, y>> \in R \/ <<y, x>> \in R
  /\ \A x, y, z \in S : <<x, y>> \in R /\ <<y, z>> \in R => <<x, z>> \in R
Sorted(r, R, S, n) ==
  /\ r \in [1 .. n -> S] /\ \A x \in S : \E i \in 1 .. n : r[i] = x
  /\ \A i, j \in 1 .. n : i < j => <<r[i], r[j]>> \in R

LEMMA Inserts ==
  ASSUME NEW S, NEW R, Orders(R, S), NEW U \in SUBSET S, NEW n \in Nat, NEW r, Sorted(r, R, U, n), NEW x \in S, x \notin U
  PROVE  \E q : Sorted(q, R, U \cup {x}, n + 1)
<1> DEFINE After == {k \in 1 .. n + 1 : k = n + 1 \/ <<x, r[k]>> \in R}
<1>1. n + 1 \in After /\ After \subseteq Nat
  OBVIOUS
<1>2. PICK k \in After : \A m \in After : k <= m
  BY <1>1, LeastNumber
<1>3. k \in 1 .. n + 1
  OBVIOUS
<1>4. r \in [1 .. n -> U] /\ \A i, j \in 1 .. n : i < j => <<r[i], r[j]>> \in R
  BY DEF Sorted
<1>5. \A i \in 1 .. n : i < k => <<r[i], x>> \in R
  <2> SUFFICES ASSUME NEW i \in 1 .. n, i < k PROVE <<r[i], x>> \in R
    OBVIOUS
  <2>1. i \notin After
    BY <1>2
  <2>2. r[i] \in U /\ <<x, r[i]>> \notin R
    BY <1>4, <2>1
  <2>3. r[i] \in S /\ r[i] # x
    BY <2>2
  <2> QED
    BY <2>2, <2>3 DEF Orders
<1>6. \A i \in 1 .. n : i >= k => <<x, r[i]>> \in R
  <2> SUFFICES ASSUME NEW i \in 1 .. n, i >= k PROVE <<x, r[i]>> \in R
    OBVIOUS
  <2>1. k \in 1 .. n /\ <<x, r[k]>> \in R
    BY <1>2
  <2>2. i = k \/ <<r[k], r[i]>> \in R
    BY <1>4, <2>1
  <2>3. x \in S /\ r[k] \in S /\ r[i] \in S
    BY <1>4, <2>1
  <2> QED
    BY <2>1, <2>2, <2>3 DEF Orders
<1> HIDE DEF After
<1> DEFINE q == [i \in 1 .. n + 1 |-> IF i < k THEN r[i] ELSE IF i = k THEN x ELSE r[i - 1]]
<1>7. \A i \in 1 .. n + 1 : /\ i < k => i \in 1 .. n /\ q[i] = r[i]
                            /\ i = k => q[i] = x
                            /\ i > k => i - 1 \in 1 .. n /\ q[i] = r[i - 1]
  BY <1>3
<1>8. q \in [1 .. n + 1 -> U \cup {x}]
  <2>1. \A i \in 1 .. n + 1 : q[i] \in U \cup {x}
    BY <1>3, <1>4, <1>7
  <2> QED
    BY <2>1
<1> HIDE DEF q
<1>9. ASSUME NEW y \in U \cup {x} PROVE \E i \in 1 .. n + 1 : q[i] = y
  <2>1. CASE y = x
    BY <1>3, <1>7, <2>1
  <2>2. CASE y \in U
    <3>1. PICK i \in 1 .. n : r[i] = y
      BY <2>2 DEF Sorted
    <3>2. CASE i < k
      BY <1>7, <3>1, <3>2
    <3>3. CASE ~(i < k)
      <4>1. i + 1 \in 1 .. n + 1 /\ i + 1 > k /\ (i + 1) - 1 = i
        BY <1>3, <3>3
      <4> QED
        BY <1>7, <3>1, <4>1
    <3> QED
      BY <3>2, <3>3
  <2> QED
    BY <2>1, <2>2
<1>10. ASSUME NEW i \in 1 .. n + 1, NEW j \in 1 .. n + 1, i < j PROVE <<q[i], q[j]>> \in R
  <2>1. CASE j < k
    BY <1>3, <1>4, <1>7, <1>10, <2>1
  <2>2. CASE j = k
    BY <1>5, <1>7, <1>10, <2>2
  <2>3. CASE j > k /\ i < k
    <3>1. i < j - 1 /\ i \in 1 .. n /\ j - 1 \in 1 .. n
      BY <1>3, <1>7, <2>3
    <3> QED
      BY <1>4, <1>7, <2>3, <3>1
  <2>4. CASE j > k /\ i = k
    <3>1. j - 1 \in 1 .. n /\ j - 1 >= k
      BY <1>3, <1>7, <2>4
    <3> QED
      BY <1>6, <1>7, <2>4, <3>1
  <2>5. CASE j > k /\ i > k
    <3>1. i - 1 < j - 1 /\ i - 1 \in 1 .. n /\ j - 1 \in 1 .. n
      BY <1>3, <1>7, <1>10, <2>5
    <3> QED
      BY <1>4, <1>7, <2>5, <3>1
  <2> QED
    BY <1>3, <2>1, <2>2, <2>3, <2>4, <2>5
<1> QED
  BY <1>8, <1>9, <1>10 DEF Sorted

LEMMA Sorts ==
  ASSUME NEW S, IsFiniteSet(S), NEW R, Orders(R, S)
  PROVE  \E r : Sorted(r, R, S, Cardinality(S))
<1> DEFINE T == {U \in SUBSET S : \E r : Sorted(r, R, U, Cardinality(U))}
<1>1. {} \in T
  <2> DEFINE r == [i \in 1 .. 0 |-> 0]
  <2>1. Sorted(r, R, {}, 0)
    BY DEF Sorted
  <2> HIDE DEF r
  <2>2. Cardinality({}) = 0
    BY FS_EmptySet
  <2> QED
    BY <2>1, <2>2
<1>2. ASSUME NEW U \in SUBSET S, NEW x \in S, U \in T PROVE U \cup {x} \in T
  <2>1. CASE x \in U
    <3>1. U \cup {x} = U
      BY <2>1
    <3> QED
      BY <1>2, <3>1
  <2>2. CASE x \notin U
    <3>1. PICK r : Sorted(r, R, U, Cardinality(U))
      BY <1>2
    <3>2. IsFiniteSet(U) /\ Cardinality(U) \in Nat
      BY FS_Subset, FS_CardinalityType
    <3>3. Cardinality(U \cup {x}) = Cardinality(U) + 1
      BY <2>2, <3>2, FS_AddElement
    <3>4. \E q : Sorted(q, R, U \cup {x}, Cardinality(U) + 1)
      BY <2>2, <3>1, <3>2, Inserts
    <3> QED
      BY <3>3, <3>4
  <2> QED
    BY <2>1, <2>2
<1> HIDE DEF T
<1>3. S \in T
  BY <1>1, <1>2, SetsByElements
<1> QED
  BY <1>3 DEF T

(* The numbers up to n that are in S, listed in their order.               *)
Listed(S, n) == FlattenSeq([i \in 1 .. n |-> IF i \in S THEN <<i>> ELSE <<>>])
IsListed(s, S, n) ==
  /\ s \in Seq(1 .. n) /\ Len(s) \in Nat
  /\ \A i \in 1 .. n : i \in S <=> HasElement(s, i)
  /\ \A i, j \in 1 .. Len(s) : i < j => s[i] < s[j]

LEMMA ListedInOrder == ASSUME NEW n \in Nat, NEW S PROVE IsListed(Listed(S, n), S, n)
<1> DEFINE p == [i \in 1 .. n |-> IF i \in S THEN <<i>> ELSE <<>>]
           r == FlattenSeq(p)
           X == 1 .. n
<1>1. \A i \in 1 .. n : p[i] = IF i \in S THEN <<i>> ELSE <<>>
  OBVIOUS
<1>2. p \in Seq(Seq(X)) /\ Len(p) = n
  <2>1. ASSUME NEW i \in 1 .. n PROVE p[i] \in Seq(X)
    <3>1. <<i>> \in Seq(X) /\ <<>> \in Seq(X)
      OBVIOUS
    <3>2. p[i] = <<i>> \/ p[i] = <<>>
      BY <1>1
    <3> HIDE DEF p, X
    <3> QED
      BY <3>1, <3>2, Zenon
  <2>2. p \in [1 .. n -> Seq(X)]
    BY <2>1
  <2> HIDE DEF p
  <2> QED
    BY <2>2
<1> HIDE DEF p
<1>3. PICK J : Joined(J, p, X) /\ r = J[n]
  BY <1>2, FlattenSteps
<1>4. /\ J \in [0 .. n -> Seq(X)] /\ J[0] = <<>> /\ \A i \in 1 .. n : J[i] = J[i - 1] \o p[i]
  BY <1>2, <1>3 DEF Joined
<1> DEFINE Rising(s, m) == /\ \A i \in 1 .. Len(s) : s[i] <= m
                           /\ \A i, j \in 1 .. Len(s) : i < j => s[i] < s[j]
                           /\ \A x \in 1 .. m : x \in S <=> HasElement(s, x)
           T == {m \in 0 .. n : Rising(J[m], m)}
<1>5. 0 \in T
  <2>1. Len(<<>>) = 0
    OBVIOUS
  <2>2. Rising(<<>>, 0)
    BY <2>1
  <2> QED
    BY <1>4, <2>2
<1>6. ASSUME NEW m \in 0 .. n - 1, m \in T PROVE m + 1 \in T
  <2>1. m + 1 \in 1 .. n /\ m \in 0 .. n /\ m + 1 \in 0 .. n /\ (m + 1) - 1 = m
    OBVIOUS
  <2>2. J[m + 1] = J[m] \o p[m + 1] /\ J[m] \in Seq(X)
    BY <1>4, <2>1
  <2>3. Rising(J[m], m)
    BY <1>6
  <2> DEFINE s == J[m]
             t == J[m + 1]
  <2>4. CASE m + 1 \notin S
    <3>1. t = s
      <4>1. p[m + 1] = <<>> /\ J[m + 1] = J[m] \o p[m + 1]
        BY <1>1, <2>1, <2>2, <2>4
      <4>2. J[m] \o <<>> = J[m]
        BY <2>2, ConcatEmptySeq
      <4> QED
        BY <4>1, <4>2
    <3>2. ~HasElement(s, m + 1)
      BY <2>2, <2>3 DEF HasElement
    <3> HIDE DEF s, t
    <3>3. Rising(t, m + 1)
      <4>0. Rising(s, m) /\ s \in Seq(X)
        BY <2>2, <2>3 DEF s
      <4>1. \A i \in 1 .. Len(s) : s[i] <= m + 1
        BY <4>0
      <4>2. \A x \in 1 .. m + 1 : x \in S <=> HasElement(s, x)
        BY <2>4, <3>2, <4>0
      <4> QED
        BY <3>1, <4>0, <4>1, <4>2
    <3> HIDE DEF Rising
    <3> QED
      BY <2>1, <3>3 DEF t
  <2>5. CASE m + 1 \in S
    <3>1. t = s \o <<m + 1>>
      BY <1>1, <2>1, <2>2, <2>5
    <3>2. s \in Seq(X) /\ Len(s) \in Nat /\ Rising(s, m)
      BY <2>2, <2>3, LenProperties
    <3> HIDE DEF s, t
    <3>3. Len(t) = Len(s) + 1 /\ t[Len(s) + 1] = m + 1 /\ \A i \in 1 .. Len(s) : t[i] = s[i]
      BY <2>1, <3>1, <3>2
    <3>4. \A i \in 1 .. Len(t) : i \in 1 .. Len(s) \/ i = Len(s) + 1
      BY <3>2, <3>3
    <3>5. \A i \in 1 .. Len(s) : s[i] \in Int /\ s[i] <= m
      BY <3>2
    <3>6. \A i \in 1 .. Len(t) : t[i] <= m + 1
      BY <3>3, <3>4, <3>5
    <3>7. \A i, j \in 1 .. Len(t) : i < j => t[i] < t[j]
      <4> SUFFICES ASSUME NEW i \in 1 .. Len(t), NEW j \in 1 .. Len(t), i < j PROVE t[i] < t[j]
        OBVIOUS
      <4>1. i \in 1 .. Len(s)
        BY <3>2, <3>3
      <4>2. CASE j = Len(s) + 1
        BY <3>3, <3>5, <4>1, <4>2
      <4>3. CASE j \in 1 .. Len(s)
        BY <3>2, <3>3, <4>1, <4>3
      <4> QED
        BY <3>4, <4>2, <4>3
    <3>8. ASSUME NEW x PROVE HasElement(t, x) <=> HasElement(s, x) \/ x = m + 1
      <4>1. ASSUME NEW i \in 1 .. Len(s) PROVE i \in 1 .. Len(t) /\ t[i] = s[i]
        BY <3>2, <3>3
      <4>2. Len(s) + 1 \in 1 .. Len(t) /\ t[Len(s) + 1] = m + 1
        BY <3>2, <3>3
      <4>3. ASSUME NEW i \in 1 .. Len(t) PROVE t[i] = m + 1 \/ (i \in 1 .. Len(s) /\ t[i] = s[i])
        BY <3>3, <3>4
      <4> QED
        BY <4>1, <4>2, <4>3 DEF HasElement
    <3>9. \A x \in 1 .. m + 1 : x \in S <=> HasElement(t, x)
      <4>1. \A x \in 1 .. m + 1 : x \in 1 .. m \/ x = m + 1
        OBVIOUS
      <4>2. \A x \in 1 .. m : x \in S <=> HasElement(s, x)
        BY <3>2
      <4>3. ~HasElement(s, m + 1)
        BY <3>5 DEF HasElement
      <4> QED
        BY <2>5, <3>8, <4>1, <4>2, <4>3
    <3>10. Rising(t, m + 1)
      BY <3>6, <3>7, <3>9
    <3> HIDE DEF Rising
    <3> QED
      BY <2>1, <3>10 DEF t
  <2> QED
    BY <2>4, <2>5
<1> HIDE DEF T
<1>0. n \in Nat
  OBVIOUS
<1>7. \A m \in 0 .. n : m \in T
  BY ONLY <1>0, <1>5, <1>6, NumbersUpTo, Zenon
<1>8. n \in 0 .. n
  OBVIOUS
<1>9. Rising(r, n) /\ r \in Seq(X)
  BY <1>3, <1>4, <1>7, <1>8 DEF T
<1>10. IsListed(r, S, n)
  BY <1>9, LenProperties DEF IsListed
<1>11. r = Listed(S, n)
  BY DEF Listed, r, p
<1> QED
  BY <1>10, <1>11
=============================================================================
